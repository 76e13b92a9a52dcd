------------------------------- MODULE Bench -------------------------------
(***************************************************************************)
(* One run of a workload of examples/dsp-bench: the ARM9 measures every    *)
(* row of its table (ui.c), runs the checks of its main.c, and shows a     *)
(* page; the keys change the page or run everything again.  The commands   *)
(* of the protocol are calls here (DspProto shows that they are).          *)
(*                                                                         *)
(* A buffer holds a tuple that tells how its contents were made.  One      *)
(* kernel may be faulty: the workloads exist to find such a kernel.  Two   *)
(* are beyond them: the division hardware of 08-math32, which is only      *)
(* timed, and the assembly of 06-texture, whose image goes to the screen   *)
(* before its checksum is compared.                                        *)
(***************************************************************************)
EXTENDS BenchTables, FiniteSets

CONSTANTS
    AVG_FRAMES,     \* frames of 06-texture between two screens, 32 in the code
    FRAMES          \* frames that 06-texture shows before it exits

VARIABLES
    ex,         \* which workload this is
    fault,      \* the faulty job and what it does
    dma,        \* what the DMA transfers from the DSP do
    arm, dsp,   \* buffers of each CPU
    todo,       \* steps left to do
    res,        \* checksums of the variants of every row
    copies,     \* buffers sent by the DSP, with the status
    out,        \* what the checks of main.c found, and what they used
    frame,      \* 06-texture: its frame number and its counters
    page,       \* page being shown
    screen,     \* what is on the screen
    pc

vars == <<ex, fault, dma, arm, dsp, todo, res, copies, out, frame, page, screen, pc>>

W == Workloads[ex]
Row == DOMAIN W.rows
Variants == {"ref", "arm_asm", "dsp_c", "dsp_asm"}

-----------------------------------------------------------------------------
(* Buffers and kernels *)

Zero == <<"zero">>
BuffersOf(w) == UNION {w.kernels[k].reads \cup w.kernels[k].writes \cup w.sums[k] :
                          k \in DOMAIN w.kernels} \cup {"fft_stages"}

\* Buffers that both CPUs fill alike before the first job: *_generate().
Generated(w) == IF "inputs" \in DOMAIN w.sums THEN w.sums["inputs"] ELSE {}

Inputs(mem, buffers) == [b \in DOMAIN mem |-> IF b \in buffers THEN <<"in", b>> ELSE mem[b]]

\* The memory of the DSP when proto_init() has started it (app_init()).
app_init(w) ==
    [Inputs([b \in BuffersOf(w) |-> Zero], (Generated(w) \ w.uploads) \cup {"regs", "memory", "pdata"})
        EXCEPT !["fft_stages"] = <<"param", STAGES>>]

\* What kernel k makes of its inputs, and its first n stages in 04-fft.
Value(k, mem) == <<k, {mem[b] : b \in W.kernels[k].reads}>>
k_fft_stages(mem, n) ==
    IF n >= STAGES THEN Value("fft", mem) ELSE <<"stages", n, {mem["twiddle"], mem["fft_in"]}>>

Result(j, mem) ==
    LET stages == IF j = <<"fft", "asm">> THEN mem["fft_stages"][2] ELSE STAGES
    IN  IF j = fault.job /\ fault.how = "wrong" /\ stages >= fault.stage
        THEN <<"bad", j[1]>>
        ELSE IF j = fault.job /\ fault.how = "known" THEN KnownResult
        ELSE IF j = <<"fft", "asm">> THEN k_fft_stages(mem, stages) ELSE Value(j[1], mem)

\* Mutant: the probes start with what the job before them has left.
PreparedAsIs(mem) == mem

\* The probes begin with the same data, whatever the job before them did.
Prepared(mem) == Inputs(mem, {"pdata", "memory"})

\* The memory after a job.
RunKernel(j, mem) ==
    LET ready == Prepared(mem)
    IN  [b \in DOMAIN mem |->
            IF b \in W.kernels[j[1]].writes /\ ~(j = fault.job /\ fault.how = "nothing")
            THEN Result(j, ready) ELSE ready[b]]

app_job(j) == IF j \in W.jobs THEN dsp' = RunKernel(j, dsp) ELSE dsp' = dsp
StatusOf(j) == IF j \in W.jobs THEN "OK" ELSE "BAD_ARG"

checksum(k, mem) == [b \in W.sums[k] |-> mem[b]]

-----------------------------------------------------------------------------
(* Faults: a kernel other than the C version of the ARM9 computes something *)
(* else, from some stage on, or leaves its output as it was, or computes    *)
(* the result that the hardware is known to have for one of the probes.     *)

NoFault == [job |-> NO_JOB, how |-> "none", stage |-> 0]

\* In these, C code of the DSP writes the output.
WrittenInC == {<<"fft", "asm">>, <<"conv", "asm">>, <<"dct", "asm">>, <<"idct", "asm">>}

Faults(w) ==
    LET variants == {j \in w.jobs : j[1] \notin {"inputs", "regs"}}
                    \cup {<<w.rows[i].job, "arm_asm">> : i \in {n \in DOMAIN w.rows : w.rows[n].arm_asm}}
                    \cup {<<w.rows[i].job, "arm_hw">> :
                             i \in {n \in DOMAIN w.rows : w.rows[n].arm_c = "hw"}}
    IN  {NoFault}
        \cup {[job |-> j, how |-> "wrong", stage |-> 0] : j \in variants}
        \cup {[job |-> j, how |-> "nothing", stage |-> 0] : j \in variants \ WrittenInC}
        \cup {[job |-> j, how |-> "wrong", stage |-> n] :
                 j \in variants \cap {<<"fft", "asm">>}, n \in 1 .. STAGES}
        \cup {[job |-> j, how |-> "known", stage |-> 0] : j \in variants \cap Jobs(Probes, {"c"})}

NothingFound == [diff |-> <<>>, stage |-> <<>>, used |-> <<>>, image |-> <<>>, dma_ok |-> TRUE]

Init ==
    /\ ex \in DOMAIN Workloads
    /\ fault \in Faults(Workloads[ex])
    /\ dma \in {"works", "silent", "fails"}
    /\ arm = [b \in BuffersOf(W) |-> Zero]
    /\ dsp = app_init(W)
    /\ todo = W.main
    /\ res = [i \in Row |-> [v \in Variants |-> [b \in W.sums[W.rows[i].job] |-> Zero]]]
    /\ copies = [b \in W.sends |-> [status |-> "none", data |-> Zero]]
    /\ out = NothingFound
    /\ frame = [t |-> 0, frames |-> 0, total |-> 0, ok |-> 0, asm_ok |-> 0]
    /\ page = 0
    /\ screen = [page |-> "none", errors |-> 0]
    /\ pc = "boot"

-----------------------------------------------------------------------------
(* Steps of main() and run_all() *)

Step(op) == todo # <<>> /\ Head(todo).op = op /\ todo' = Tail(todo)
Same == UNCHANGED <<ex, fault, dma, page, screen, pc>>

\* *_generate() on the ARM9.
GenerateInputs ==
    /\ Step("generate")
    /\ arm' = Inputs(arm, Generated(W))
    /\ Same /\ UNCHANGED <<dsp, res, copies, out, frame>>

\* make_*() and proto_upload(); without the table the ARM9 stops.
UploadTable ==
    /\ Step("upload")
    /\ LET b == Head(todo).buffer
       IN  IF b \in W.uploads
           THEN arm' = Inputs(arm, {b}) /\ dsp' = Inputs(dsp, {b}) /\ pc' = pc
           ELSE UNCHANGED <<arm, dsp>> /\ pc' = "failed"
    /\ UNCHANGED <<ex, fault, dma, res, copies, out, frame, page, screen>>

\* A kernel of the ARM9, in C or in assembly, and the checksum of its output.
measure_arm9(variant, v) ==
    LET i == Head(todo).row
        k == W.rows[i].job
    IN  /\ arm' = RunKernel(<<k, v>>, arm)
        /\ res' = [res EXCEPT ![i][variant] = checksum(k, arm')]
        /\ Same /\ UNCHANGED <<dsp, copies, out, frame>>

ArmAsm == Step("arm_asm") /\ measure_arm9("arm_asm", "arm_asm")
ArmC == Step("arm_c") /\ measure_arm9("ref", IF W.rows[Head(todo).row].arm_c = "hw"
                                             THEN "arm_hw" ELSE "arm_c")

\* A job of the DSP; its checksum is compared when it has succeeded.
measure_dsp(variant) ==
    LET i == Head(todo).row
        j == W.rows[i][variant]
    IN  /\ app_job(j)
        /\ res' = [res EXCEPT ![i][variant] =
                     IF StatusOf(j) = "OK" THEN checksum(j[1], dsp') ELSE @]
        /\ Same /\ UNCHANGED <<arm, copies, out, frame>>

DspC == Step("dsp_c") /\ measure_dsp("dsp_c")
DspAsm == Step("dsp_asm") /\ measure_dsp("dsp_asm")

ArmKernel ==
    /\ Step("arm")
    /\ arm' = RunKernel(<<Head(todo).kernel, "arm_c">>, arm)
    /\ Same /\ UNCHANGED <<dsp, res, copies, out, frame>>

RunJob ==
    /\ Step("run")
    /\ app_job(Head(todo).job)
    /\ Same /\ UNCHANGED <<arm, res, copies, out, frame>>

\* app_param(): the number of stages in 04-fft, of the frame in 06-texture.
SetParam ==
    /\ Step("param")
    /\ dsp' = [dsp EXCEPT ![IF ex = "fft" THEN "fft_stages" ELSE "plasma_frame"] =
                 <<"param", Head(todo).value>>]
    /\ Same /\ UNCHANGED <<arm, res, copies, out, frame>>

\* proto_send() into a buffer that has been cleared, or into VRAM.
SendBuffer ==
    /\ Step("fetch") \/ Step("vram")
    /\ LET b == Head(todo).buffer
           before == IF Head(todo).op = "fetch" THEN Zero ELSE copies[b].data
       IN  copies' = [copies EXCEPT ![b] =
             [status |-> IF dma = "fails" THEN "BAD_ARG" ELSE "OK",
              data |-> IF dma = "works" THEN dsp[b] ELSE before]]
    /\ Same /\ UNCHANGED <<arm, dsp, res, out, frame>>

\* compare_pass(), for both passes of the Gaussian of 03-blur.
ComparePass ==
    /\ Step("compare_pass")
    /\ LET Differs(b) == copies[b].data # arm[b]
       IN  out' = [out EXCEPT !.diff = (Head(todo).variant :>
             [dma_ok |-> copies["img_tmp"].status = "OK" /\ copies["img_gauss"].status = "OK",
              bad |-> Differs("img_tmp") \/ Differs("img_gauss")]) @@ @]
    /\ Same /\ UNCHANGED <<arm, dsp, res, copies, frame>>

\* The comparison of check_stages() in 04-fft.
CompareStage ==
    /\ Step("stage")
    /\ LET st == Head(todo).st
       IN  out' = [out EXCEPT !.stage = (st :>
             [dma_ok |-> copies["fft_out"].status = "OK",
              bad |-> copies["fft_out"].data # k_fft_stages(arm, st)]) @@ @]
    /\ Same /\ UNCHANGED <<arm, dsp, res, copies, frame>>

\* The statistics of main.c, from outputs of the ARM9.
UseOutputs ==
    /\ Step("use")
    /\ out' = [out EXCEPT !.used = [b \in Head(todo).buffers |-> arm[b]]]
    /\ Same /\ UNCHANGED <<arm, dsp, res, copies, frame>>

\* copy_to_screen(): the image that the ARM9 has made for this frame.
CopyToScreen ==
    /\ Step("screen")
    /\ out' = [out EXCEPT !.image = (Head(todo).buffer :> arm[Head(todo).buffer])]
    /\ Same /\ UNCHANGED <<arm, dsp, res, copies, frame>>

\* Mutant: the images of the DSP are drawn whenever they have been sent.
dma_out_okSent(images) == \A b \in images : copies[b].status = "OK"

dma_out_ok(images) == \A b \in images : copies[b].status = "OK" /\ copies[b].data = arm[b]

\* draw_image(): the outputs of the DSP, or those of the ARM9.
DrawImages ==
    /\ Step("draw")
    /\ LET images == Head(todo).images
       IN  out' = [out EXCEPT
             !.dma_ok = dma_out_ok(images),
             !.image = [b \in images |-> IF dma_out_ok(images) THEN copies[b].data ELSE arm[b]]]
    /\ Same /\ UNCHANGED <<arm, dsp, res, copies, frame>>

-----------------------------------------------------------------------------
(* Results and pages *)

\* Mutant: the assembly versions of the DSP aren't compared.
HasCOnly(i, v) ==
    CASE v = "ref" -> FALSE
      [] v = "arm_asm" -> W.rows[i].arm_asm
      [] v = "dsp_c" -> W.rows[i].dsp_c # NO_JOB
      [] v = "dsp_asm" -> FALSE

\* The variants of a row that are compared with its first one.
Has(i, v) ==
    CASE v = "ref" -> FALSE
      [] v = "arm_asm" -> W.rows[i].arm_asm
      [] v = "dsp_c" -> W.rows[i].dsp_c # NO_JOB
      [] v = "dsp_asm" -> W.rows[i].dsp_asm # NO_JOB

dsp_ok(i, v) == res[i][v] = res[i]["ref"]

\* The value that the hardware is known to give, of the probe that gives it.
known_hw_result(i, v) ==
    /\ v = "dsp_c" /\ W.rows[i].dsp_c \in PROBE_KNOWN_HW_LIST
    /\ \A b \in DOMAIN res[i][v] : res[i][v][b] = KnownResult

\* bench_print_results(), or print_page() of the probes: what a cell says.
Cell(i, v) ==
    CASE ~Has(i, v) -> "-"
      [] Has(i, v) /\ known_hw_result(i, v) -> "HW"
      [] Has(i, v) /\ ~known_hw_result(i, v) -> IF dsp_ok(i, v) THEN "OK" ELSE "FAIL"

bench_errors == Cardinality({c \in Row \X Variants : Cell(c[1], c[2]) = "FAIL"})

print_page(p) == screen' = [page |-> W.pages[p + 1], errors |-> bench_errors]

\* main() of all but 06-texture: run_all() starts, and its first page is shown.
StartRun ==
    /\ pc = "boot" /\ todo = <<>> /\ ex # "texture"
    /\ todo' = W.run_all /\ pc' = "run"
    /\ UNCHANGED <<ex, fault, dma, arm, dsp, res, copies, out, frame, page, screen>>

ShowPage ==
    /\ pc = "run" /\ todo = <<>> /\ ex # "texture"
    /\ pc' = "show" /\ print_page(page)
    /\ UNCHANGED <<ex, fault, dma, arm, dsp, todo, res, copies, out, frame, page>>

\* ui_poll_keys(): A, or B after the change of clock.
Rerun ==
    /\ pc = "show"
    /\ todo' = W.run_all /\ pc' = "run"
    /\ UNCHANGED <<ex, fault, dma, arm, dsp, res, copies, out, frame, page, screen>>

\* Left or right.
TurnPage ==
    /\ pc = "show"
    /\ \E d \in {1, Len(W.pages) - 1} : page' = (page + d) % Len(W.pages)
    /\ print_page(page')
    /\ UNCHANGED <<ex, fault, dma, arm, dsp, todo, res, copies, out, frame, pc>>

\* START
Exit ==
    /\ pc = "show" \/ (ex = "texture" /\ pc = "run" /\ todo = <<>>)
    /\ pc' = "exit"
    /\ UNCHANGED <<ex, fault, dma, arm, dsp, todo, res, copies, out, frame, page, screen>>

\* One turn of the loop of main() in 06-texture, and the counters at its end.
StartFrame ==
    /\ ex = "texture" /\ todo = <<>> /\ pc \in {"boot", "run"} /\ frame.total < FRAMES
    /\ todo' = frame_06(frame.t) /\ pc' = "run"
    /\ arm' = [arm EXCEPT !["plasma_frame"] = <<"param", frame.t>>]
    /\ UNCHANGED <<ex, fault, dma, dsp, res, copies, out, frame, page, screen>>

CountFrame ==
    /\ Step("count")
    /\ LET averaged == frame.frames + 1 = AVG_FRAMES
       IN  /\ frame' = [t |-> frame.t + 1, total |-> frame.total + 1,
                        frames |-> IF averaged THEN 0 ELSE frame.frames + 1,
                        ok |-> frame.ok + (IF dsp_ok(1, "dsp_c") THEN 1 ELSE 0),
                        asm_ok |-> frame.asm_ok + (IF dsp_ok(1, "dsp_asm") THEN 1 ELSE 0)]
           /\ screen' = IF averaged
                        THEN [page |-> "stats",
                              errors |-> 2 * frame'.total - frame'.ok - frame'.asm_ok]
                        ELSE screen
    /\ UNCHANGED <<ex, fault, dma, arm, dsp, res, copies, out, page, pc>>

Next ==
    \/ GenerateInputs \/ UploadTable \/ ArmAsm \/ ArmC \/ DspC \/ DspAsm \/ ArmKernel
    \/ RunJob \/ SetParam \/ SendBuffer \/ ComparePass \/ CompareStage \/ UseOutputs
    \/ CopyToScreen \/ DrawImages \/ StartRun \/ ShowPage \/ Rerun \/ TurnPage \/ Exit
    \/ StartFrame \/ CountFrame

Spec == Init /\ [][Next]_vars /\ WF_vars(Next)

-----------------------------------------------------------------------------
(* Properties *)

\* On a machine whose kernels are right, all the results are OK the first time
\* and after every rerun: the tables and the parameters have reached the DSP,
\* the stages are 8 again, every job is known, and no job depends on what the
\* one before it has left.  With a DMA that works, its checks agree.
NoFalseAlarm ==
    screen.page # "none" /\ fault = NoFault =>
        /\ screen.errors = 0 /\ pc # "failed"
        /\ dma = "works" => /\ out.dma_ok
                            /\ \A v \in DOMAIN out.diff : ~out.diff[v].bad
                            /\ \A st \in DOMAIN out.stage : ~out.stage[st].bad

\* The faults that some comparison is there to find: all results that are
\* wrong, but those of the division hardware and the known one of its probe.
ToBeFound ==
    \/ fault.how = "wrong" /\ fault.job # <<"div", "arm_hw">>
    \/ fault.how = "known" /\ fault.job \notin PROBE_KNOWN_HW_LIST

\* A kernel that gives another result is found: what is on the screen counts an
\* error, the statistics of 06-texture too, and it counts none for the division
\* hardware of 08-math32, which is compared with nothing, or for the known
\* result of the probe that has one (the same value from another probe is an
\* error).  In 04-fft the stages that are wrong are those from the faulty one
\* on (or all, when the DSP has made another input), and in 03-blur the
\* comparison names the version at fault.
Caught ==
    fault.how \in {"wrong", "known"} =>
        /\ screen.page # "none" => (screen.errors > 0) = ToBeFound
        /\ pc = "show" /\ dma = "works" =>
              /\ \A v \in DOMAIN out.diff : out.diff[v].bad = (fault.job = <<"gauss", v>>)
              /\ \A st \in DOMAIN out.stage :
                    out.stage[st].bad = \/ fault.job = <<"setup", "c">>
                                        \/ fault.job = <<"fft", "asm">> /\ st >= fault.stage

\* Outputs of the C versions of the ARM9, from the inputs, in the order of the rows.
RightOutputs ==
    LET Start == Inputs([b \in BuffersOf(W) |-> Zero], Generated(W) \cup W.uploads)
        C(k, mem) == [b \in DOMAIN mem |->
                        IF b \in W.kernels[k].writes THEN Value(k, mem) ELSE mem[b]]
        After[i \in 0 .. Len(W.rows)] ==
            IF i = 0 THEN IF ex = "fft" THEN C("setup", Start) ELSE Start
            ELSE C(W.rows[i].job, After[i - 1])
    IN  After[Len(W.rows)]

\* The two images of 06-texture after a frame.  That of the ARM9 is the right
\* one of this frame.  That of the DSP went to VRAM before its checksum was
\* compared: it is a wrong one exactly when the frames of the assembly version
\* are counted as failed, if the DMA works (if it doesn't, nothing tells).
FrameShown ==
    LET right == <<"plasma", {<<"in", "sin_table">>, <<"param", frame.t - 1>>}>>
    IN  /\ out.image["texture"] = right
        /\ dma = "works" =>
              (copies["texture"].data = right) = (frame.asm_ok = frame.total)

\* In the workloads with pages, what is drawn and what the statistics use are
\* right, whatever the faulty kernel and the DMA do: the outputs that the ARM9
\* keeps are those of its C versions, and an image of the DSP is drawn only if
\* it is the same.  In 06-texture this is so for the image of the ARM9 only.
ShownRight ==
    /\ pc = "show" =>
        /\ \A b \in DOMAIN out.image : out.image[b] = RightOutputs[b]
        /\ \A b \in DOMAIN out.used : out.used[b] = RightOutputs[b]
        /\ \A k \in DOMAIN W.kernels : \A b \in W.kernels[k].writes :
              b \notin {"pdata", "memory", "result"} => arm[b] = RightOutputs[b]
    /\ ex = "texture" /\ todo = <<>> /\ frame.total > 0 => FrameShown
=============================================================================
