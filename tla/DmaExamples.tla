----------------------------- MODULE DmaExamples -----------------------------
(***************************************************************************)
(* The examples dma_arm_to_dsp, dma_dsp_to_arm and dma_async: the user     *)
(* chooses size, channel and address of a DMA transfer, which the ARM9     *)
(* sends to the DSP in every frame.  In the last two, bit 0 of the         *)
(* semaphores says whose turn it is to use the buffer.                     *)
(*                                                                         *)
(* Addresses are in bytes, and Wrap is what the low half of an address     *)
(* holds.  The ARM9 sees its buffer through a data cache.                  *)
(***************************************************************************)
EXTENDS Frames, Dma

CONSTANTS
    MaxSize,        \* words of the largest transfer, 255
    MaxOffset,      \* words of the largest offset, 127
    BufferSize,     \* BUFFER_SIZE: words of the buffer in use, 512
    CachedAtStart   \* words in the data cache when main() fills the buffer

ASSUME DmaExamplesAssumption ==
    /\ MaxSize \in Nat \ {0} /\ MaxOffset \in Nat /\ BufferSize \in Nat
    /\ BufferSize % 2 = 0 /\ MaxSize + MaxOffset <= BufferSize
    /\ 2 * BufferSize <= PageBytes /\ CachedAtStart \subseteq 0 .. BufferSize - 1

VARIABLES
    ram,        \* the buffer in the memory of the ARM9
    cached,     \* words of it in the data cache of the ARM9
    dirty,      \* those that the memory doesn't have yet
    lowOnly     \* dma_arm_to_dsp: does the build keep only half of the address?

bufferVars == <<ram, cached, dirty, lowOnly>>

dma_arm_to_dsp ==
    [frame |-> <<"keys">> \o Sends \o Reads,
     loop |-> Receives \o <<"busy", "start", "wait", "sum">> \o Replies]
dma_dsp_to_arm ==
    [frame |-> <<"keys", "send0", "send1", "send2", "read0", "read1", "read2",
                 "get", "ack", "flush", "sum", "set", "clear", "flushAgain">>,
     loop |-> <<"receive0", "receive1", "receive2", "semGet", "semAck", "busy", "start",
                "wait", "semRead", "semWrite", "reply0", "reply1", "reply2">>]
dma_async == dma_dsp_to_arm

Program == CASE ex = "dma_arm_to_dsp" -> dma_arm_to_dsp [] OTHER -> dma_dsp_to_arm

\* DC_FlushRange() and memset() take bytes, and are given BUFFER_SIZE: they
\* reach the first half of the words.
Words == 0 .. BufferSize - 1
LowWords == 0 .. (BufferSize \div 2) - 1

\* "&buffer[0]", which is not in the first Wrap bytes.
Buffer == Wrap
WordAt(address) == (address - Buffer) \div 2
InBuffer(address) == address >= Buffer /\ WordAt(address) \in Words

NoReply == [size |-> 0, channel |-> 0, ok |-> FALSE]
DmaExamplesInit ==
    /\ a = [at |-> 1, presses |-> 0, sum |-> 0, bits |-> {},
            settings |-> [size |-> MaxSize, offset |-> 0,
                          channel |-> CHOOSE c \in DmaChannels : \A x \in DmaChannels : x <= c],
            shown |-> [i \in Channels |-> IF i = 0 THEN NoReply ELSE 0]]
    /\ d = [at |-> 1, bits |-> {}, psem |-> {}, ok |-> TRUE, sum |-> 0, sent |-> 0,
            data |-> [i \in Channels |-> IF i = 0 THEN [size |-> 0, channel |-> 0] ELSE 0]]
    /\ ApbpInit([i \in Channels |-> IF i = 0 THEN [size |-> 0, channel |-> 0] ELSE 0],
                [i \in Channels |-> IF i = 0 THEN NoReply ELSE 0])
    /\ toArm = {} /\ toDsp = IF ex = "dma_arm_to_dsp" THEN {} ELSE {0}
    /\ lowOnly \in {FALSE, ex = "dma_arm_to_dsp"}
    /\ DmaInit
    \* dma_arm_to_dsp: increasing numbers, half of them flushed.  The others
    \* write zeros and flush nothing.  Any of the words may have left the cache.
    /\ IF ex = "dma_arm_to_dsp"
       THEN /\ dirty \in SUBSET (CachedAtStart \ LowWords)
            /\ cached = [w \in Words |-> w + 1]
            /\ ram = [w \in Words |-> IF w \in dirty THEN 0 ELSE w + 1]
       ELSE /\ dirty \in SUBSET CachedAtStart
            /\ cached = [w \in Words |-> 0] /\ ram = cached

\* "&= 255", "&= 7": the settings wrap.  One key is pressed at a time.
DmaKeys(s) ==
    LET steps(n, top) == {(n + k) % (top + 1) : k \in {1, top}}
    IN  {[s EXCEPT !.size = n] : n \in steps(s.size, MaxSize)}
        \cup {[s EXCEPT !.channel = c] : c \in DmaChannels}
        \cup {[s EXCEPT !.offset = n] : n \in steps(s.offset, MaxOffset)}

\* cmd0 to cmd2.
DmaCommand(s) ==
    LET address == Buffer + 2 * s.offset
    IN  [i \in Channels |-> CASE i = 0 -> [size |-> s.size, channel |-> s.channel]
                              [] i = 1 -> address \div Wrap [] i = 2 -> address % Wrap]

DmaChannel == d.data[0].channel
Size == d.data[0].size

\* dma_arm_to_dsp shifts a uint16_t by 16, which is undefined where int has 16
\* bits: either the address is made as it was meant, or its high half is lost.
\* The other examples convert to uint32_t first.
Address ==
    IF ex = "dma_arm_to_dsp" /\ lowOnly THEN d.data[2]
    ELSE d.data[1] * Wrap + d.data[2]

-----------------------------------------------------------------------------
(* DSP *)

\* while (ahbmIsBusy());
WaitBusy ==
    /\ DspAt(Program, "busy")
    /\ ~ahbmIsBusy
    /\ d' = [d EXCEPT !.at = DspForward(Program)]
    /\ UNCHANGED <<apbpVars, semVars, a, dmaVars, bufferVars>>

\* Where the loop goes on when the transfer is refused: dma_async waits for the
\* channel all the same.
Refused == CASE ex = "dma_arm_to_dsp" -> "sum" [] ex = "dma_dsp_to_arm" -> "semRead"
             [] OTHER -> "wait"

\* The start of a transfer, which the first two wait for.  The buffer of the DSP
\* holds "i" in word i, up to the size.
StartTransfer ==
    LET to == IF ex = "dma_arm_to_dsp" THEN "ArmToDsp" ELSE "DspToArm"
        ok == Check(DmaChannel, Address, Size) = 0
    IN  /\ DspAt(Program, "start")
        /\ ex # "dma_async" => ~ahbmIsBusy
        /\ IF ok THEN StartUnsafe(DmaChannel, Transfer(to, Address, 0, Size))
           ELSE UNCHANGED dmaVars
        /\ d' = [d EXCEPT !.ok = ok, !.at = Place(Program.loop, IF ok THEN "wait" ELSE Refused),
                          !.sent = IF ok THEN (Size * (Size - 1)) \div 2 ELSE 0]
        /\ UNCHANGED <<apbpVars, semVars, a, bufferVars>>

\* Mutant of IsOver: dma_async doesn't wait.
IsOverAtOnce(c) == ~dmaTransferIsRunning(c) \/ ex = "dma_async"

IsOver(c) == ~dmaTransferIsRunning(c)

\* dmaTransferWaitDone(), and the loop of dma_async; only the synchronous
\* functions reset the AHBM channel.
WaitTransfer ==
    /\ DspAt(Program, "wait")
    /\ IsOver(DmaChannel)
    /\ IF ex = "dma_async" THEN UNCHANGED dmaVars
       ELSE ahbmResetChannel(IF ex = "dma_arm_to_dsp" THEN 1 ELSE 2)
    /\ d' = [d EXCEPT !.at = DspForward(Program)]
    /\ UNCHANGED <<apbpVars, semVars, a, bufferVars>>

\* dma_arm_to_dsp: all the words of the buffer are added and cleared.  Memory
\* that isn't the buffer holds numbers that its sums never reach.
Elsewhere == 100
SumWords ==
    LET value(address) == IF InBuffer(address) THEN ram[WordAt(address)] ELSE Elsewhere
    IN  /\ DspAt(Program, "sum")
        /\ d' = [d EXCEPT !.at = DspForward(Program),
                          !.sum = MapThenSumSet(LAMBDA w : value(w[1]), dspMemory)]
        /\ dspMemory' = {}
        /\ UNCHANGED <<apbpVars, semVars, a, bufferVars, transfer, moved, started, ended,
                       connected, queue, armMemory>>

\* The settings and the sum in two halves.  The others reply with the settings
\* and counters, which the ARM9 only prints and which are left out here.
DmaReply ==
    IF ex = "dma_arm_to_dsp"
    THEN [i \in Channels |-> CASE i = 0 -> [size |-> Size, channel |-> DmaChannel, ok |-> d.ok]
                               [] i = 1 -> d.sum \div 4 [] i = 2 -> d.sum % 4]
    ELSE [i \in Channels |-> IF i = 0 THEN NoReply ELSE 0]

DmaDsp ==
    \/ /\ \/ \E id \in Channels : ReceiveWord(Program, id) \/ ReplyWord(Program, id, DmaReply[id])
          \/ ex # "dma_arm_to_dsp" /\ \/ GetSemaphore(Program, {0}, "reply0")
                                      \/ AckSemaphore(Program)
                                      \/ SetSemaphoreRead(Program)
                                      \/ SetSemaphoreWrite(Program, {0})
       /\ UNCHANGED <<dmaVars, bufferVars>>
    \/ WaitBusy \/ StartTransfer \/ WaitTransfer \/ SumWords

\* A word that is stored in the memory of the ARM9.
DmaHardware ==
    /\ \/ /\ Store
          /\ IF transfer[queue].direction = "DspToArm"
             THEN ram' = [ram EXCEPT ![WordAt(transfer[queue].arm) + moved[queue]] = moved[queue]]
             ELSE UNCHANGED ram
       \/ (\E c \in DmaChannels : Fetch(c)) /\ UNCHANGED ram
    /\ UNCHANGED <<apbpVars, semVars, a, d, cached, dirty, lowOnly>>

-----------------------------------------------------------------------------
(* ARM9 *)

ArmStep(step) ==
    /\ ArmAt(Program, step)
    /\ UNCHANGED <<apbpVars, semVars, d, transfer, moved, started, ended, connected, queue,
                   dspMemory, lowOnly>>

\* A word that leaves the cache by itself, at any time.
WriteBack ==
    /\ \E w \in dirty : ram' = [ram EXCEPT ![w] = cached[w]] /\ dirty' = dirty \ {w}
    /\ UNCHANGED <<apbpVars, semVars, a, d, dmaVars, cached, lowOnly>>

\* DC_FlushRange(): of the first half, the dirty words are written, and nothing
\* stays cached.
FlushLow(step) ==
    /\ ArmStep(step)
    /\ ram' = [w \in Words |-> IF w \in dirty \cap LowWords THEN cached[w] ELSE ram[w]]
    /\ dirty' = dirty \ LowWords
    /\ a' = [a EXCEPT !.at = ArmForward(Program)]
    /\ UNCHANGED <<cached, armMemory>>

\* The sum of the buffer: the words that were not flushed come from the cache,
\* if they still are there, as those that memory doesn't have are, or from memory.
SumBuffer ==
    /\ ArmStep("sum")
    /\ \E clean \in SUBSET (Words \ (LowWords \cup dirty)) : LET kept == clean \cup dirty IN
         cached' = [w \in Words |-> IF w \in kept THEN cached[w] ELSE ram[w]]
    /\ a' = [a EXCEPT !.at = ArmForward(Program),
                      !.sum = MapThenSumSet(LAMBDA w : cached'[w], Words)]
    /\ UNCHANGED <<ram, dirty, armMemory>>

\* memset(): words that are in the cache stay there until they are flushed,
\* or leave it at once.  What the transfers stored is written over.
ClearBuffer ==
    /\ ArmStep("clear")
    /\ \E written \in SUBSET LowWords : dirty' = (dirty \ LowWords) \cup written
    /\ cached' = [w \in Words |-> IF w \in LowWords THEN 0 ELSE cached[w]]
    /\ ram' = [w \in Words |-> IF w \in LowWords \ dirty' THEN 0 ELSE ram[w]]
    /\ armMemory' = {}
    /\ a' = [a EXCEPT !.at = ArmForward(Program)]

DmaArm9 ==
    \/ /\ \/ Keys(Program, DmaKeys(a.settings))
          \/ \E id \in Channels : \/ SendIfReady(Program, id, DmaCommand(a.settings)[id])
                                  \/ ReadIfReady(Program, id)
          \/ ex # "dma_arm_to_dsp" /\ \/ ArmGet(Program, {0}, "keys") \/ ArmAck(Program)
                                      \/ ArmSet(Program, {0})
       /\ UNCHANGED <<dmaVars, bufferVars>>
    \/ ex # "dma_arm_to_dsp" /\ \/ FlushLow("flush") \/ FlushLow("flushAgain")
                                \/ SumBuffer \/ ClearBuffer

\* dma_arm_to_dsp: the settings that are shown were accepted unless they are 0,
\* and the sum is the expected one, if the build keeps the address and the words
\* were flushed.
DmaShown ==
    LET s == a.settings
        shown == a.shown[0]
        expected == MapThenSumSet(LAMBDA w : w + 1, s.offset .. s.offset + s.size - 1)
    IN  /\ shown = [size |-> s.size, channel |-> s.channel, ok |-> s.size > 0 /\ s.channel # 0]
        /\ shown.ok /\ ~lowOnly /\ s.offset .. s.offset + s.size - 1 \subseteq LowWords =>
              4 * a.shown[1] + a.shown[2] = expected
=============================================================================
