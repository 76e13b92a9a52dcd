# libteak in TLA+

libteak is a C library for the DSP ("Teak") of the Nintendo DSi, with examples
that run on the DSP and on the ARM9. The DSP doesn't address the memory of the
ARM9: the CPUs exchange words through mailbox registers (APBP) and blocks
through DMA, and interrupts arrive between any two instructions. That is what these modules
model: the library functions and the protocols built on them, one hardware
register access per step.

## Inventory

| Part | State | Operations | What makes it hard | What makes it correct |
| --- | --- | --- | --- | --- |
| APBP (`apbp.c`, `apbp.h`) | three command and three reply registers, a "new" flag each; semaphores | send, receive (both wait), ready, set/clear/acknowledge semaphores | two CPUs; flags that lie | nothing lost, duplicated or mixed up |
| Protocol of dsp-bench (`proto_arm9.c`, `proto_teak.c`, `proto.h`) | sequence numbers, upload pointer, counters | upload, param, run (two replies), send, stats | a command seen twice, a reply that isn't new, halves of values | a remote call: executed once, with its argument, and answered |
| `proto_dma_out()` | position in a buffer | split at ARM9 pages | 16-bit address arithmetic, odd addresses | the whole buffer, nothing else |
| DMA and AHBM (`dma.c`, `dma.h`, `ahbm.h`) | 8 channels, 3 AHBM channels | init, sync and async transfers, wait | hardware moves words meanwhile; channel 0 belongs to the FIFO of the ARM9 | bursts stay in a page; ends are noticed; no channel disturbs another |
| ICU (`icu.c`, `icu.h`, `cpu_asm.s`, `crt0.s`) | request, route, disable, polarity, edge registers; CPU enable bits | init, set up, disable, acknowledge, enter, return | several writes per call, requests between them | what was set up works, what was disabled doesn't, handlers serve what they acknowledge |
| BTDMP (`btdmp.c`) | enable flags, interrupts, sample FIFOs | set up and disable output and input | it shares the ICU registers | it changes its own channel only |
| Timers (`timer.c`) | counter, control register and its copy | start, stop, read | a counter that moves while its halves are read; reads from a handler | a read is a value the counter had; control survives |
| `irq_apbp` example | two counters, a snapshot | heartbeat; messages counted by a handler | handler against `main()`, both against the ARM9 | each message counted once; counts shown |
| `speakers_and_microphone` example | command, buffer pointer, enabled directions | command from the ARM9; record or play in a handler | `main()` changes what the handler works with; the second buffer ends at 2^16 | the handler stays in its buffers; the DSP goes on answering |
| Semaphores (`apbp.h`) and the examples that pass one (`semaphores`, `dma_dsp_to_arm`, `dma_async`) | bits in two registers, a buffer, its cached copy | get, acknowledge, set; transfer; sum | the set is a read and a write; the hardware moves words while the bit travels | exactly one bit; nobody reads a buffer that a transfer fills |
| `cmd_reply`, `fifo_transfers`, `dma_arm_to_dsp` | words of three channels, FIFO, buffer | send and read what is ready, every frame | old and new words mixed | what is shown becomes right, and stays so |
| `benchmark`, `codegen_check` | sequence numbers, results | run a list of tests on the other CPU | repeated commands, old replies | a result is that of its test |
| Kernels (`collision.c` ... `math32.c`, `math_f16.h`, `cgtests.c`, checksum of `proto.h`) | none: functions | arithmetic in 16 and 32 bits | carries, scaling, promotions to `int` | what the definition on integers gives |
| Workloads (`ui.c`, `main.c` of each) | rows, checksums, copies, pages | measure, compare, count errors, rerun | variants share buffers and parameters | no false alarm; a faulty kernel is counted; only right images are shown, but for the one that is sent to the screen unseen |
| `teak.ld`, `teaktool` | none: a function from sections to a file | link, choose sections, convert addresses and sizes, lay out the file | 16-bit fields, two units, two address spaces | the file loads what the program is |
| `irq_timer`, `timers`, `speakers_output` examples, cache | see PROJECT.json | | | |

They interact through hardware registers. `teakInit()` initialises the ICU, then
the DMA; the protocol uses the APBP for its commands and replies and the DMA for
`PROTO_CMD_SEND`; BTDMP and the APBP request interrupts from the ICU;
interrupt handlers and `main()` share variables and registers without locks. The
workloads call the protocol, and the protocol the jobs of the workload.

The hazards this brings, each at its line, are in PROJECT.json under
`hazards`, with the properties that would catch them.

## Modules

| Module | Models | Composes |
| --- | --- | --- |
| `Apbp` | registers and flags of the mailbox, `apbpSendData()`, `apbpReceiveData()` and their ARM9 counterparts | |
| `DspProto` | both sides of the dsp-bench protocol, one register access per step, with its inductive invariant | `Apbp`, `ProtoServer` |
| `ProtoServer` | what the protocol promises: a server that executes a call in one step and answers | |
| `Dma` | DMA and AHBM registers, the functions of `dma.c`, hardware moving a word at a time | |
| `DmaOut` | `proto_dma_out()` with an asynchronous transfer of another channel going on, and its inductive invariant | `Dma` |
| `Icu` | interrupt registers as sets of flags; each library function as the sequence of its register writes | |
| `Interrupts` | a program that calls them in any order, peripherals and handlers | `Icu` |
| `IrqApbp` | the irq_apbp example, both CPUs | `Icu`, `Apbp` |
| `Timer` | `timer.c`, a timer, `main()` and an interrupt handler | |
| `SpeakersMic` | the speakers_and_microphone example: `main()`, the handler, the audio hardware, the ARM9 | `Icu`, `Apbp` |
| `Frames` | what a frame of the ARM9 and an iteration of the DSP do in the examples, one channel or semaphore access per step; `cmd_reply`, `semaphores` and `fifo_transfers` in these terms | `Apbp` |
| `DmaExamples` | `dma_arm_to_dsp`, `dma_dsp_to_arm`, `dma_async` | `Frames`, `Dma` |
| `SeqExamples` | `codegen_check`, `benchmark` | `Frames` |
| `Examples` | the eight examples side by side, with their properties | `DmaExamples`, `SeqExamples` |
| `CInt` | integers of C at a given width | |
| `Fixed`, `Collision`, `Skinning`, `Blur`, `Fft`, `Dct`, `Texture`, `Perlin`, `MathF16`, `Checksum`, `CgTests` | the C file of that name, as functions, and what it promises | `CInt` |
| `BenchKernels` | `bench_kernels.c` and `kernels_asm.s` of `benchmark` | `CInt` |
| `Teaktool` | the sections that `teak.ld` makes, `teaktool`, and two loaders: of the TLF format and `load_elf()` of teaksim | `CInt` |
| `MCKernels` | runs each of them on its inputs | all of these |
| `BenchTables` | tables, jobs, buffers and steps of the ten workloads and probes | |
| `Bench` | one run of a workload: jobs, comparisons, pages, keys | `BenchTables` |
| `DspProtoProofs`, `DmaOutProofs`, `TimerProofs`, `InterruptsProofs`, `IrqApbpProofs`, `SpeakersMicProofs`, `ExamplesProofs` | theorems and proofs | the module they name |
| `KernelProofs` | theorems and proofs | `MCKernels`, and through it `Fixed`, `MathF16`, `Collision`, `Skinning`, `Blur`, `Texture`, `Checksum`, `CgTests`, `BenchKernels`, `Teaktool` |
| `MC...` | the constants that TLC uses | the module they name |

How state and actions correspond to the code:

* `DspProto`: `aPc` and `dPc` are the next register access of the ARM9 and of
  the DSP. Locals of `send()`, `receive()` and `main()` keep their meaning
  (`aRep0`, `dCmd`, `lastSeq` for `last_seq`, `up` for `upload_ptr` and
  `upload_left`). A command word is a record of operation, sequence number and
  operand, and a 32-bit argument stays in the two halves that `CMD1` and `CMD2`
  carry. The value of a reply is the number of the command that computed it, so
  that halves of two replies can be told apart. `sent` and `served` are history.
* `DmaOut`: `pc` is the state of `proto_dma_out()`; `p`, `address`, `words` and
  `n` are its locals. A memory is the set of pairs of address and index
  that were stored. `Fetch` and `Store` are the hardware.
* `Icu`: `reg` maps each register to its set of flags; `Assign`, `OrIn`,
  `AndNot` and `Ack` are the kinds of writes. `Interrupts!Step` performs one
  write; a handler can run before it. A read-modify-write is one write here:
  handlers only write the acknowledge register, which nothing else reads.
* `Timer`: one step per register access; `saved` is the local `control` of
  `timerRead()`. A handler runs to its end before `main()` goes on.
* `IrqApbp`: heartbeats are 0 or 1, since only equal or different matters.
* `SpeakersMic`: `pc` and `irqPc` are the next statement of `main()` and of the
  handler, `room` what the transmit FIFO takes. A function that runs with
  interrupts disabled is one step (`WriteAll`). Samples have no value.
* `Frames`: `a` and `d` are the ARM9 and the DSP of the example that runs: a
  record of its locals, with `at`, the next entry of a list of steps
  (`cmd_reply`, `semaphores`, ...) that is repeated for ever, in the order of
  the example's source. `toDsp` and `toArm` are the semaphore registers.
* `DmaExamples`: `ram`, `cached` and `dirty` are the buffer in ARM9 memory,
  what the data cache has of it, and the words that memory doesn't have yet. A
  flush writes what the code asks to be flushed, which is the first half of the
  words; any dirty word may leave the cache at any time (`WriteBack`).
* `SeqExamples`: as `DspProto`, with the loop and the words of each example. The
  value of a reply says which test it is of.
* Kernels: `int16_t` is `W` bits wide, `int32_t` twice that, and the properties
  compare with plain integers. The formats scale with `W`. In `CgTests`, `p` is
  the width of `int`, and each group of tests is a tuple of their results.
* `BenchKernels`: `p0` of the dot product in assembly is the product that was
  started and not added yet; `bkrep` runs its count + 1 times.
* `Teaktool`: a word of a section is the section's name and its place, so that a
  word that is loaded elsewhere shows. An image is a set of space, address and word.
* `Bench`: a buffer holds a tuple that says how its contents were made (from
  which buffers, by which kernel, and whether a faulty one), so that a checksum
  differs exactly when the contents were made otherwise. That is an assumption:
  of the checksum of `proto.h`, `ChecksumOK` shows that it changes with one
  wrong word and with two exchanged neighbours, and no more (below). Steps of `run_all()` are
  in `todo`, and a call of `proto.h` is one step.

## Hardware that is assumed

`src/` has no model of the hardware; these are assumptions read off its
comments and off how the code uses it, and they are marked `external` in the map.

* The APBP flag of a register is set by a write and cleared by the read of the
  other CPU. At reset, registers hold nothing that looks like a command or a
  reply with a valid sequence number.
* Semaphore bits are set by one CPU and cleared by the other's acknowledgement.
* Faults (`examples/dsp-bench/readme.md`, "How they work"): the DSP can see a
  command twice (`ReceiveAgain`, `SeqReceiveAgain`), and the ARM9 can read a reply
  that isn't new (`ReadOldReply`, `ReadOldWords`). An old reply is read as a
  whole: were `REP0` alone old, `receive()` would throw away the awaited halves
  with it and wait for ever (`proto_arm9.c:34`). Which of the two the hardware
  does isn't documented.
* A DMA channel moves one word at a time through the queue of its AHBM channel
  and sets its end flag after the last one. A page is `PageBytes` long, and
  `Wrap` is where the 16-bit addresses of `dma.c` wrap around.
* A request is latched in the ICU also while its source is disabled. A CPU
  interrupt is asked for by latched requests that are routed and not disabled;
  taking it clears the global enable bit, `retic` sets it.
* Each write to a command register requests an APBP interrupt unless
  `REG_APBP_CONTROL` disables it.
* A timer's registers show the counter, or the latch while bit 9 of its control
  register is 0; the latch is loaded when that bit changes from 1 to 0.

* The BTDMP requests interrupts while a direction is enabled. An output plays
  what is in its FIFO; an input that isn't enabled receives nothing.
* DMA from the DSP writes into the memory of the ARM9 and not into its cache.

## Runs

Passing runs:

| Run | Shows | Bounds, and why they are enough |
| --- | --- | --- |
| `proto` | Every command is executed once (`ExactlyOnce`), with its own argument (`ArgumentMatches`), and its reply reaches the caller whole (`ReplyMatches`). Uploads arrive (`UploadIntact`), only where they should (`UploadConfined`). Every call returns (`CallReturns`), and the protocol implements `ProtoServer` (`RemoteCall`). | Two sequence numbers and four commands, so numbers wrap and return twice; two repeated commands, two old replies; tables of four words, so odd, even, full, empty and too large uploads. |
| `dma_out` | Bursts stay in a page although the code compares 16-bit addresses (`BurstInPage`), the buffer arrives and nothing else is written (`OutArrives`), the only failure is an odd address at a page's end (`OnlyOddFails`), a transfer the other way is not disturbed (`AsyncArrives`), calls return (`DmaOutReturns`). | Pages of four words, addresses wrap after four pages; addresses on both sides of a page's end and of the wrap; buffers of up to three bursts; three calls. |
| `interrupts` | Disabled sources stay disabled (`DisabledStays`), no source is enabled and inverted between calls (`SettledPolarity`), handlers only see what they acknowledge (`HandlerServes`), requests are handled (`Served`). | Four calls in any order (set up two sources, disable, set up again), two requests at any moment; a source shared by two handlers. |
| `irq_apbp` | Heartbeats come back once and in order (`HeartbeatsInOrder`), a message is counted once (`CountedOnce`), a handler takes all that was there when it started (`HandlerTakesAll`), counts reach the ARM9 (`CountsShown`). | Two messages, so that one arrives at any point while the other is handled; heartbeats unbounded. |
| `timer` | A read is a value the counter had during the call (`ReadSafe`), calls and handlers leave the control register as it should be (`ControlKept`), a stopped timer doesn't count (`StoppedStays`). | Halves of three values, so that a carry between them is met in all ways; modes once, reload, freerun; calls unbounded. |
| `examples` | The semaphore is one bit at any time (`TokenKept`), no transfer runs while the ARM9 adds up its buffer (`SumUndisturbed`), results are stored for their own tests (`ResultsRight`). After the last key, what is shown becomes right and stays so, and semaphores go on travelling (`Settles`). | One change of the settings at any time; buffers of two words on both sides of a page; two channels, one of which is the reserved one; transfers of 0 and 1 words; semaphores of three bits, so that the shift wraps; two tests with two sequence numbers, one rerun, one repeated command and one old reply. |
| `speakers_mic` | The handler stays in the two buffers, one of which ends where addresses wrap (`StaysInside`); the DSP goes on answering (`DspAnswers`). | Two presses, of the same key or of both, in one frame or in two: a command arrives at any point of another one's recording. Two buffers of two words, so that every end is reached; a FIFO of one word, so that it is full and empty. Requests come at any time. |
| `kernels` | Every kernel gives what its definition on integers gives (`FixedOK`, `GraphicsOK`, `TransformsOK`), `k_sphere_q16()` finds the pairs of its own Q16.16 spheres that touch (in `GraphicsOK`), the checksum finds one wrong word and two exchanged neighbours (`ChecksumOK`), the tests of `cgtests.c` and the kernels of `benchmark` don't depend on the width of `int` or on the language they are written in (`CodegenOK`), the TLF file of a program loads what teaksim loads from its ELF file, exactly if its code is below 64 KB (`TlfOK`). | All 32-bit operations for all pairs of 6-bit values (halves of 3 bits); the other kernels on both ends of the ranges that their generators give, and values between, with low bits of the Q16.16 values that differ within a pair or a vertex; an image of 6 by 5, a transform of 8 points, all the blocks with one bright pixel in three rows; all seeds of a generator of 8 bits; programs with sizes in 6 bits, their code from 5 bytes below the limit to 6 above, and data up to the last byte of data memory. |
| `workload` | With right kernels there is never an error, after any reruns and pages (`NoFalseAlarm`); a kernel that is wrong is counted on the pages and in the statistics of `06-texture`, a result that is known of the hardware is not counted for its own probe and is for any other, and the check that says where says it right (`Caught`); outputs of the ARM9, statistics and images on the pages are right whatever is faulty, and in `06-texture`, which sends the image of the DSP to the screen without a comparison, a wrong one is there exactly if the frames of the assembly version are counted as failed (`ShownRight`). | All ten workloads and probes with all their rows, every kernel being the faulty one, three kinds of DMA; reruns and pages unbounded. Two stages of the FFT and two frames between screens instead of 8 and 32: what matters is a stage that isn't the last, and a second screen. |

Types are checked in `proto` and `timer`. Those of `DmaOut` are part of the
theorem `DmaOutCorrect`.

The runs `kernels` and `workload` have no interleaving: the first is a set of
functions over their inputs, one per step, the second the sequential program of
the ARM9. What they would catch is a wrap or a rounding, and a step of
`run_all()` that depends on what an earlier one has left.

Violations are findings: the code does something else than its comment or
documentation says.

| Run | What TLC shows |
| --- | --- |
| `interrupts_two` | `icuIrqSetup()` writes `REG_ICU_IRQ_DISABLE = ~mask`: a second set-up disables the first source. |
| `irq_apbp_lost` | The handler acknowledges last: a message whose channel was already tested is never received. |
| `examples_sum` | `dma_dsp_to_arm` and `dma_async` pass the semaphore on and clear the buffer afterwards: words of the next transfer are lost, and the sum shown is wrong. |

More results, not runs of their own; the properties except these cases by name
and show that there are no others:

* `btdmpDisableOutput()` has `|= ~mask` where `|= mask` is meant
  (`btdmp.c:74`): it disables every source but its own. In a program that
  uses another interrupt too it violates `SetUpStaysEnabled` as `icuIrqSetup()`
  does.
* `btdmpDisableInput()` assigns the mask to the three route registers instead
  of clearing it there (`btdmp.c:168-170`): the channel, when it is set up
  again, starts handlers that never acknowledge it (`rerouted` in `HandlerServes`
  and `Served`).
* During `icuIrqSetup()` for a second source, the first is enabled with inverted
  polarity for three writes (`icu.c:40-43`); what hides it afterwards is that
  line 43 disables the first source, so mutant `SetupKeepsOthers`, which corrects
  line 43 alone, breaks `SettledPolarity`.
* An interrupt handler that calls `timerRead()` while `main()` is between
  latching and the second half of its own read makes `main()` read a live
  counter (`interrupted` in `ReadSafe`).
* `speakers_and_microphone`: `main()` writes `command` (line 101) before it
  disables interrupts (line 103). An interrupt of the playback in between
  makes the handler wait for a microphone that isn't enabled, for ever
  (`HandlerHangs` in `DspAnswers`). A press can also be lost, because command
  and count travel in two channels; the model has no time, and says nothing
  of how often.
* `dma_async`: a transfer of no words is refused, and `dmaTransferIsRunning()`
  (`teak/source/main.c:51`) is waited for nevertheless, which is for ever if no
  transfer has ended on that channel yet (`Stuck` in `Settles`).
* `dma_arm_to_dsp`: `data1 << 16` (`teak/source/main.c:23`) shifts by the width
  of an `int`, and the flush of `arm9/source/main.c:56` covers half of the words:
  `DmaShown` only asks for sums of the other half and of builds that keep the
  address.
* `teaktool`: the size of a section is cut down to 16 bits without a check
  (`main.c:173`), and `teak.ld` only limits the data. From 64 KB of code on, the
  TLF file is valid and holds a part of the program (`CodeFits` in `LoadsAlike`).
* Workloads: a kernel that leaves its output as it was is not found when the
  version before it was right, since the variants of a row share a buffer
  (`ui.c:140`). `Caught` is about kernels that write something else. In
  `08-math32`, `arm_div_hw()` (`arm9/source/main.c:51`) writes `val_out` and is
  compared with nothing: a wrong quotient is not counted (`Caught` says so).
* `06-texture` sends the image of the DSP to VRAM (`arm9/source/main.c:166`)
  before it compares its checksum, so a wrong image is shown. It is counted, but
  if the DMA doesn't bring it, nothing on the screen tells.
* The checksum doesn't find every exchange: two words that are two apart and
  differ by 0x8000 change its second sum by 2 * 0x8000, which is 0 modulo 2^16.
* `collision.c` chooses four low bits for every Q16.16 value (lines 46-49), so
  `k_sphere_q16()` tests other spheres than `k_sphere()`: with radii of 100 and
  50, centers at 0 and 150, and 15 as the low bits of that 150, the one finds
  the pair and the other doesn't. `CloseQ16` is about the Q16.16 spheres, and
  about pairs that still touch when every distance is one unit longer. The
  bound of `SkinningExact` has the low bits in it likewise.
* `dma_dsp_to_arm` and `dma_async` fill the buffer with zeros and don't flush
  them (`arm9/source/main.c:52`). On a cache that keeps them, the first flush
  (line 140) writes them over the words of the first transfer: with
  `CachedAtStart` not empty, `SumRight` fails there already. `examples_sum` has it
  empty, so that what it shows doesn't need this, and `examples` has all words in it.

`CHECK_DEADLOCK FALSE` stands where the bounds on calls end the behaviour.
Getting stuck for real is excluded by the liveness properties of these runs; in
`examples` and `speakers_mic` both programs may stop where the exceptions above
say. `irq_apbp` and `timer` run for ever, and deadlock is checked there.

Fairness is weak fairness of each CPU's program, of the DMA hardware and of
taking interrupts: the programs are endless loops on CPUs of their own, and
nothing in the code disables interrupts for ever. Nothing is fair that a user
or a fault decides: no call has to be made, no fault to happen, no request to
be raised, no key to be pressed. Two cases
need more words. In `SpeakersMic`, `main()` has strong fairness: it is suspended
whenever the handler runs, and the requests, which the model lets come at any
time, come in the code with the audio, every few hundred cycles or more, so that
`main()` proceeds between them. `Examples` has weak fairness of the ARM9, of the
DSP and of the DMA: each of them is blocked only by a wait for the others.

## Proofs

| Theorem | Module | Statement |
| --- | --- | --- |
| `TypeCorrect` | `DspProtoProofs` | `Spec => []TypeOK` |
| `ProtoCorrect` | `DspProtoProofs` | `Spec => []Inv` |
| `ServedExactlyOnce`, `ServedWithArgument`, `RepliedToCall`, `UploadsInBounds` | `DspProtoProofs` | the safety invariants of `proto`, from `Inv`, and that the upload pointer stays in its table |
| `CallInvHolds`, `UploadsArrive`, `UploadsConfined` | `DspProtoProofs` | `Spec => []CallInv`, and from it `UploadIntact` and the action property `UploadConfined` |
| `ProtocolImplementsServer` | `DspProtoProofs` | `Spec => RemoteCall`: the refinement of `ProtoServer` |
| `DmaOutCorrect` | `DmaOutProofs` | types and `DmaOutInv` |
| `BurstsInPage`, `BufferArrives`, `EvenNeverFails`, `IncomingArrives`, `FifoUntouched` | `DmaOutProofs` | the safety invariants of `dma_out`, from `DmaOutInv`, and that channel 0 is never touched |
| `ReadsAreSafe` | `TimerProofs` | `Spec => []ReadSafe`, from `ReadInv` |
| `TimerTypes` | `TimerProofs` | `Spec => []TypeOK`, from `TypeInv` |
| `ControlIsKept`, `StaysStopped` | `TimerProofs` | `Spec => []ControlKept` and `Spec => StoppedStays`, from `ControlInv` |
| `InvHolds`, `DisabledStaysHolds`, `SettledPolarityHolds`, `HandlerServesHolds` | `InterruptsProofs` | `Spec => []IInv`, and from it the safety invariants of `interrupts` |
| `InvHolds`, `CountedOnceHolds`, `HandlerTakesAllHolds`, `HeartbeatsInOrderHolds` | `IrqApbpProofs` | the same for `irq_apbp` |
| `InvHolds`, `StaysInsideHolds` | `SpeakersMicProofs` | the same for `speakers_mic` |
| `TokenInvHolds`, `TokenKeptHolds` | `ExamplesProofs` | `FairSpec => []TokenInv` and `TokenKept` |
| `IdleInvHolds`, `SumUndisturbedHolds` | `ExamplesProofs` | `FairSpec => [](TokenInv /\ IdleInv)` and `SumUndisturbed` |
| `SeqInvHolds`, `ResultsRightHolds` | `ExamplesProofs` | `FairSpec => []SeqInv` and `ResultsRight` |
| `MulExactAll`, `FixedIsExact` | `KernelProofs` | `FixedExact`: product, `udiv32()`, `sdiv32()` and `isqrt32()` for all operands, at any width |
| `MathF16IsExact` | `KernelProofs` | `MathF16Exact` for all vectors of `int16_t` and all shifts, at any width |
| `FixedOKAlways` | `KernelProofs` | `Spec => []FixedOK` for the runs, at any width |
| `SphereExact`, `AabbExact`, `ProductsExact`, `SphereQ16Close` | `KernelProofs` | the tests and products of `collision.c`, for all its pairs; `SphereQ16Close` is `CloseQ16`, for any low bits of the eight values of a pair |
| `CollisionIsExact` | `KernelProofs` | `CollisionExact` for all sequences of such pairs: the masks, of any number of words, too |
| `SkinningCorrect` | `KernelProofs` | `SkinningExact` for all vertices and bones, with any low bits of their Q16.16 values |
| `BlurIsExact`, `PlasmaIsPacked`, `GraphicsOKAlways` | `KernelProofs` | `BlurExact` for images of any size, `PlasmaPacked` for any table of sines, any pixel and any frame, and, with collision and skinning, `Spec => []GraphicsOK` at the width of the code |
| `ChecksumIsSound`, `ChecksumOKAlways` | `KernelProofs` | `ChecksumDetects` for outputs of any length and words of any width, and `Spec => []ChecksumOK` |
| `TestsSameOnBothCPUs`, `BenchmarkAgrees`, `CodegenOKAlways` | `KernelProofs` | `SameOnBothCPUs` for all volatile inputs, `KernelsAgree` for all seeds and lengths, and `Spec => []CodegenOK` |
| `TlfLoadsAlike`, `TlfOKAlways` | `KernelProofs` | `LoadsAlike` for all programs that `teak.ld` links, headers of any width and any stack, and `Spec => []TlfOK` |

They hold for all values of the constants that satisfy the named assumptions of
the modules: any number (two or more) of sequence numbers, any tables and jobs,
any number of faults; any addresses, sizes and calls; counters of any width; any
interrupt sources; any number of messages, tests and semaphore bits.
`DmaOutProofs` also assumes `CodeSizes`, the sizes of the code: pages of 1024
bytes and 16-bit addresses, since what is at stake is that one divides the other.
`SetupAssumption` of `Interrupts` says that the program sets up a source only for a
CPU interrupt whose handler serves it, and `BuffersAssumption` of `SpeakersMic` that
the buffers consist of pairs of words at even addresses and that the second one ends
at 2^16, which is 0, as the `BUFFER_...` of the example's `main.c` do.
`KernelProofs` assumes in each theorem what it needs of a width. `fixed.c`, `math32.c`,
`math_f16.h`, the tests of `cgtests.c`, the words of a checksum and the header of a TLF file
may have any width (in the runs of `MCKernels`, at least two bits for a checksum and four for the
header, which is what its inputs take); the inputs of `collision.c` and `skinning.c` are
those of the code, 16 bits, since their ranges leave just the room that the
sums need there (`KernelW = 16`); `Blur` and `Texture` have the widths of the code, and an
image has at least one pixel; the loops of `benchmark` have 7 to 16 bits and at most
1024 words, for which the dot product fits in 32 bits, and no more words than an index can
count. The theorems about the runs (`FixedOKAlways` ...) are the
same for the inputs of `MCKernels`, with constants up to those of the code.

* `Inv` of `DspProto`. That a command is executed once isn't inductive: one has
  to know that the command register, the DSP's copy, `last_seq` and the ARM9's
  counter always belong to the last command or the one before, whose numbers
  differ because there are at least two; and that of a reply in progress the
  registers hold exactly the parts that the ARM9 has not read yet.
* `DmaOutInv`. What has arrived is always the words of the transfers that are
  done and those that the channel has moved (`Carries`), and the end flag is set
  exactly when all have been moved. `BurstInPage` follows for the start of a
  transfer from the fact that a page divides 2^16, so that comparing clamped
  addresses cannot take two pages for one unless the transfer is longer than a
  page, which the size check excludes.
* `ReadInv` of `TimerProofs`. The latch holds a value seen during the call from
  freezing to the second half. A handler that reads between unfreezing and
  freezing may restore a frozen control register, but leaves a value in the
  latch that `main()` has seen too.
* `TypeInv` of `TimerProofs`. That the sum of the halves is a value of the
  counter rests on what was read first being a half, and on `Widths`, that a
  value and a pair of halves are the same thing.
* `ControlInv`. During a read, what the reader saved is what the copy says: the
  copy is written before the register in `timerStart()` and `timerStop()`, so a
  handler that reads in between restores the new value early, never the old
  one late. Except between those writes, the register is paused as its copy says.
* `CallInv` adds to `Inv` what a sequence of commands does. `UploadInv`: while the
  ARM9 uploads, the pointer of the DSP is as far in the table as the ARM9 is in
  its data, less the two words of a command that isn't served yet, and all before
  it has arrived. `SpuriousInv`: the reply to the zero that the DSP finds in CMD0
  at its start is read before the second command is sent.
* `ProtocolImplementsServer` is a simulation, with one lemma per step of the server:
  sending CMD0 asks, executing serves, the last read of the reply takes, and every other
  step is a stutter (`AskStep`, `ServeSim`, `TakeStep`, `QuietStep`). Liveness isn't
  part of `RemoteCall`.
* `IInv` of `Interrupts`. In the middle of a call a register may not show what the
  call is about to make of it; what holds is what the writes that are left
  make of each source: it will be set in a register if it is set now or one of them
  sets it, and none of them clears it (`EndsIn`, `EndsOut`). A disabled source is disabled
  and will be; each source will be disabled or of normal polarity; and no write
  routes to a CPU interrupt what its handler doesn't serve.
* `IInv` of `IrqApbp`. The handler reads a channel only while there is a message, which
  it has counted before; and past a channel it has counted all that was sent
  there before it started. The
  heartbeats that the DSP owes the ARM9 are the one in the reply register, the one
  `main()` holds and the one in the command register, in this order.
* `IInv` of `SpeakersMic`. Between interrupts `BUFFER_CURRENT` is at a pair of words of a
  buffer, or at the end of the second one with its source masked or routed to
  no interrupt; within the handler it may be at the second word of a pair, or at an end.
* `TokenInv` of `ExamplesProofs`. It is the turn of one CPU (`ForDsp`, `ForArm`: the bit is in
  its register, and it may have seen it) or one CPU has it (`WithArm`, `WithDsp`: it has
  acknowledged the bit and not passed it on). The DSP passes bits on by reading a
  register and writing it with another bit; what it has read is empty, since the
  ARM9 had acknowledged the last one before it passed the bit to the DSP.
* `IdleInv`. Only the channel of the command is ever started, while the DSP waits for its
  end. Together with `TokenInv`, by which the ARM9 doesn't have the bit then, nothing
  moves while the ARM9 adds.
* `SeqInv` is to `codegen_check` and `benchmark` what `Inv` is to the protocol of
  dsp-bench: the ARM9 reads the reply that is being written, or the complete one
  before it (`SameReply`, `ReplyBefore`).
* Geometry in `KernelProofs`: each sum stays within 32 bits and each result within
  16, so that no conversion changes a value; then what the right
  shifts round off is bounded. `GeneratedPairs` and `GeneratedBones` prove that the inputs
  that the workloads generate are in the ranges of the theorems.
* Pixels in `KernelProofs`. Five pixels of 12 bits with weights that add up to 16 stay below
  65536, so that a pass of the Gaussian only rounds, by half a pixel (`TapIs`); the second pass
  weighs what the first has rounded (`SecondPass`). `"|"` of parts that share no bit is
  their sum, since both have the same bits (`DisjointOr`), and a phase only matters
  modulo 256 (`SamePhase`).
* Loops in `KernelProofs`. A loop of the code is a recursive function of its number of
  turns. The induction theorems of the library take operators, which no installed prover
  can instantiate; `NatSetInduction` states induction for a set instead (what holds of 0, and of
  n + 1 if of n, holds of all numbers), and `RecursionExists` that a function with a
  recursive definition exists. What is left is what each turn keeps:
  the remainder is less than the divisor, and with the quotient so far makes up the bits so far
  (`DivideSteps`); the root so far is that of the bits so far (`RootSteps`); the bits
  of the mask words are those of the tests that have been pushed (`PushOne`); the
  two sums of the checksum of two outputs, from the word that differs on, drift apart by
  less than a word can hold; the state of the generator of `benchmark` is never 0, and the sums of the
  version in assembly lag behind those in C by one product.
* `cgtests.c` gives the same with either `int` since every result is cut down to its type,
  and the lower bits of sums, products and masks only depend on those of the operands;
  where that isn't so (right shifts, comparisons, division) the operands are of the
  type that both CPUs extend alike.
* `TlfLoadsAlike`. The offset in a section header is twice the number of words that are in
  the file before the section (`FileLaidOut`), and what is written stays (`WordsKept`). So a
  loader finds the first words of each section, as many as the size in its header says
  (`ImageOfFile`). The assertion of `teak.ld` bounds addresses and sizes of the data, but
  not of the code: if that is too long, its last word is missing (`SameImage`).

Only model-checked:

* liveness and the properties that need fairness: `CallReturns`, `DmaOutReturns`, `Served`,
  `CountsShown`, `Settles`, `DspAnswers`;
* `TransformsOK`: `fft.c`, `dct.c` and `perlin.c`. Its bounds are those of the
  inputs and tables that the run takes (a permutation, gradients, blocks of pixels), and
  rest on values in them rather than on a relation that a step keeps: for the DCT there is no
  bound on the error that holds for every block and is as small as the one that the run checks;
* `Bench`, whose steps are tables of the ten workloads that TLC enumerates
  completely: there is no constant to generalise them over.

`After` of `SpeakersMic` and the programs of `Frames` are written in closed form, without
recursion, so that the proofs can expand them.

## Not modelled

PROJECT.json lists every part with its reason. In short: assembly (the
workloads' second versions of their kernels, which they compare with the first, and code that only
sets up CPU registers), the memory interface and instructions that the probes
examine, what `proto_send()` does to the data cache, times and drawing, build
files, the emulator front end but for its loader, and everything in libnds,
which isn't in the repository. `speakers_output`, `irq_timer` and `timers` use
the functions that are modelled in ways that are.

`proto_arm9.c`, `proto_teak.c`, `proto.h`, `ui.c` and `fixed.c` exist in several
identical copies, one per workload; the map names one of each.

## Plan

Done: `Apbp`, `ProtoServer`, `DspProto`; `Dma`, `DmaOut`; `Icu`, `Interrupts`;
`IrqApbp`; `Timer`; `Frames`, `DmaExamples`, `SeqExamples`, `Examples`;
`SpeakersMic`; the kernels; `Teaktool`; `BenchTables`, `Bench`; the theorems above.

Still to prove: of `Bench`, that a row that counts no error shows equal checksums,
from the steps as they are, for any tables.

Still to model, if more of the system is wanted: the cache around
`PROTO_CMD_SEND`, once what the cache functions of libnds promise is written
down; the trap of the timer that `crt0.s` turns into a request.
