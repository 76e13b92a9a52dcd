---------------------------- MODULE BenchTables ----------------------------
(***************************************************************************)
(* The workloads of examples/dsp-bench: rows of their tables, buffers that *)
(* their kernels read and write, jobs the DSP knows, and the steps of      *)
(* run_all().  A job is <<kernel, variant>>.                               *)
(***************************************************************************)
EXTENDS Integers, Sequences, SequencesExt, TLC

CONSTANT STAGES     \* stages of a whole FFT, 8 in the code

NO_JOB == <<>>

\* A row of a table: arm_c always exists, and is the C version but in one row.
bench_row(kernel, arm_asm, dsp_c, dsp_asm) ==
    [job |-> kernel, arm_c |-> "c", arm_asm |-> arm_asm,
     dsp_c |-> IF dsp_c THEN <<kernel, "c">> ELSE NO_JOB,
     dsp_asm |-> IF dsp_asm = "none" THEN NO_JOB ELSE <<kernel, dsp_asm>>]

\* The row "input": no kernel runs, the checksum is of the inputs.
InputRow == bench_row("inputs", FALSE, TRUE, "none")

\* What a kernel reads and writes.
Kernel(reads, writes) == [reads |-> reads, writes |-> writes]
NoKernel == Kernel({}, {})

\* The jobs of a set of kernels in the given variants.
Jobs(kernels, variants) == kernels \X variants

-----------------------------------------------------------------------------
(* Steps of run_all() and main() *)

Upload(b) == [op |-> "upload", buffer |-> b]
Generate == [op |-> "generate"]
Arm(k) == [op |-> "arm", kernel |-> k]
Run(k, v) == [op |-> "run", job |-> <<k, v>>]
Param(n) == [op |-> "param", value |-> n]
Fetch(b) == [op |-> "fetch", buffer |-> b]
Use(buffers) == [op |-> "use", buffers |-> buffers]
Draw(images) == [op |-> "draw", images |-> images]
Measure(what, i) == [op |-> what, row |-> i]
Only(condition, step) == IF condition THEN <<step>> ELSE <<>>

bench_run(rows) ==
    FlattenSeq([i \in 1 .. Len(rows) |->
        Only(rows[i].arm_asm, Measure("arm_asm", i))
        \o <<Measure("arm_c", i)>>
        \o Only(rows[i].dsp_c # NO_JOB, Measure("dsp_c", i))
        \o Only(rows[i].dsp_asm # NO_JOB, Measure("dsp_asm", i))])

Tables(rest) == <<"times", "speedup", "round_trip">> \o rest

-----------------------------------------------------------------------------
(* 01-collision *)

rows_01 == << bench_row("dot3", TRUE, TRUE, "asm"), bench_row("cross3", TRUE, TRUE, "asm"),
              bench_row("sphere", FALSE, TRUE, "asm"), bench_row("aabb", FALSE, TRUE, "asm"),
              bench_row("dot3_q16", FALSE, TRUE, "asm"),
              bench_row("sphere_q16", FALSE, TRUE, "asm"), InputRow >>
inputs_01 == {"vec", "sph", "sph_q16"}
kernels_01 == [dot3 |-> Kernel({"vec"}, {"out_dot"}),
               cross3 |-> Kernel({"vec"}, {"out_cross"}),
               sphere |-> Kernel({"sph"}, {"out_sphere"}),
               aabb |-> Kernel({"sph"}, {"out_aabb"}),
               dot3_q16 |-> Kernel({"sph_q16"}, {"out_dot_q16"}),
               sphere_q16 |-> Kernel({"sph_q16"}, {"out_sphere_q16"}),
               inputs |-> NoKernel]
app_job_01 == Jobs({"dot3", "cross3", "sphere", "aabb", "dot3_q16", "sphere_q16"}, {"c", "asm"})
              \cup {<<"inputs", "c">>}
checksum_01 == [dot3 |-> {"out_dot"}, cross3 |-> {"out_cross"}, sphere |-> {"out_sphere"},
                aabb |-> {"out_aabb"}, dot3_q16 |-> {"out_dot_q16"},
                sphere_q16 |-> {"out_sphere_q16"}, inputs |-> inputs_01]
run_all_01 == bench_run(rows_01) \o <<Use({"out_sphere", "out_sphere_q16"})>>
print_page_01 == Tables(<<"results">>)
main_01 == <<Generate>>

(* 02-skinning *)

rows_02 == << bench_row("skin", FALSE, TRUE, "asm"), bench_row("skin", FALSE, FALSE, "asm2"),
              bench_row("skin_q16", FALSE, TRUE, "asm"), InputRow >>
inputs_02 == {"verts", "bones", "verts_q16", "bones_q16"}
kernels_02 == [skin |-> Kernel({"verts", "bones"}, {"out_verts"}),
               skin_q16 |-> Kernel({"verts_q16", "bones_q16"}, {"out_verts_q16"}),
               inputs |-> NoKernel]
app_job_02 == {<<"skin", "c">>, <<"skin", "asm">>, <<"skin", "asm2">>,
               <<"skin_q16", "c">>, <<"skin_q16", "asm">>, <<"inputs", "c">>}
checksum_02 == [skin |-> {"out_verts"}, skin_q16 |-> {"out_verts_q16"}, inputs |-> inputs_02]
run_all_02 == bench_run(rows_02) \o <<Use({"out_verts", "out_verts_q16"})>>
print_page_02 == Tables(<<"results">>)
main_02 == <<Generate>>

(* 03-blur *)

rows_03 == << bench_row("gauss", FALSE, TRUE, "asm"), bench_row("gauss", FALSE, FALSE, "asm_b"),
              bench_row("conv", FALSE, TRUE, "asm"), InputRow >>
inputs_03 == {"img_src", "conv_params"}
kernels_03 == [gauss |-> Kernel({"img_src"}, {"img_tmp", "img_gauss"}),
               conv |-> Kernel(inputs_03, {"img_conv"}), inputs |-> NoKernel]
app_job_03 == {<<"gauss", "c">>, <<"gauss", "asm">>, <<"gauss", "asm_b">>, <<"conv", "c">>,
               <<"conv", "asm">>, <<"inputs", "c">>}
checksum_03 == [gauss |-> {"img_gauss"}, conv |-> {"img_conv"}, inputs |-> inputs_03]
app_send_03 == {"img_gauss", "img_conv", "img_tmp"}

check_gauss_asm(v) == <<Run("gauss", v), Fetch("img_tmp"), Fetch("img_gauss"),
                        [op |-> "compare_pass", variant |-> v]>>
run_all_03 == bench_run(rows_03) \o check_gauss_asm("asm") \o check_gauss_asm("asm_b")
              \o <<Run("gauss", "c"), Fetch("img_gauss"), Fetch("img_conv"),
                   Draw({"img_gauss", "img_conv"})>>
print_page_03 == Tables(<<"results", "gauss_diff">>)
main_03 == <<Generate>>

(* 04-fft *)

rows_04 == << bench_row("fft", FALSE, TRUE, "asm"), bench_row("fft", FALSE, FALSE, "asm2"),
              bench_row("setup", FALSE, TRUE, "none") >>
kernels_04 == [setup |-> Kernel({"twiddle"}, {"fft_in"}),
               fft |-> Kernel({"twiddle", "fft_in"}, {"fft_out"})]
app_job_04 == {<<"setup", "c">>, <<"fft", "c">>, <<"fft", "asm">>, <<"fft", "asm2">>}
checksum_04 == [setup |-> {"fft_in"}, fft |-> {"fft_out"}]
app_upload_buffer_04 == {"twiddle"}
app_send_04 == {"fft_out"}
app_param_04 == 0 .. STAGES

check_stages ==
    FlattenSeq([n \in 1 .. STAGES + 1 |->
        <<Param(n - 1), Run("fft", "asm"), Fetch("fft_out"), [op |-> "stage", st |-> n - 1]>>])
    \o <<Param(STAGES)>>

run_all_04 == <<Arm("setup"), Run("setup", "c")>> \o bench_run(rows_04) \o check_stages
              \o <<Arm("fft"), Use({"fft_in", "fft_out"})>>
print_page_04 == Tables(<<"results", "stages">>)
main_04 == <<Upload("twiddle")>>

(* 05-dct *)

rows_05 == << bench_row("dct", FALSE, TRUE, "asm"), bench_row("idct", FALSE, TRUE, "asm"),
              bench_row("dct", FALSE, FALSE, "image_asm"),
              bench_row("idct", FALSE, FALSE, "image_asm"), InputRow >>
inputs_05 == {"img_src", "matrix"}
kernels_05 == [dct |-> Kernel({"img_src", "matrix"}, {"img_coef"}),
               idct |-> Kernel({"img_coef", "matrix"}, {"img_recon"}), inputs |-> NoKernel]
app_job_05 == Jobs({"dct", "idct"}, {"c", "asm", "image_asm"}) \cup {<<"inputs", "c">>}
checksum_05 == [dct |-> {"img_coef"}, idct |-> {"img_recon"}, inputs |-> inputs_05]
app_send_05 == {"img_recon"}
run_all_05 == bench_run(rows_05)
              \o <<Use({"img_src", "img_recon"}), Fetch("img_recon"), Draw({"img_recon"})>>
print_page_05 == Tables(<<"results">>)
main_05 == <<Generate>>

(* 06-texture: its main() does the same for every frame. *)

rows_06 == << bench_row("plasma", FALSE, TRUE, "asm") >>
kernels_06 == [plasma |-> Kernel({"sin_table", "plasma_frame"}, {"texture"})]
app_job_06 == Jobs({"plasma"}, {"c", "asm"})
checksum_06 == [plasma |-> {"texture"}]
app_upload_buffer_06 == {"sin_table"}
app_send_06 == {"texture"}

frame_06(t) ==
    << Measure("arm_c", 1), [op |-> "screen", buffer |-> "texture"],
       Param(t), Measure("dsp_c", 1), Param(t), Measure("dsp_asm", 1),
       [op |-> "vram", buffer |-> "texture"], [op |-> "count"] >>
main_06 == <<Upload("sin_table")>>

(* 07-perlin *)

rows_07 == << bench_row("noise", FALSE, TRUE, "asm"), bench_row("fbm", FALSE, TRUE, "asm"),
              bench_row("noise_q16", FALSE, TRUE, "asm"),
              bench_row("fbm_q16", FALSE, TRUE, "asm"), InputRow >>
inputs_07 == {"perm", "grad"}
kernels_07 == [noise |-> Kernel(inputs_07, {"img_noise"}),
               fbm |-> Kernel(inputs_07, {"img_fbm"}),
               noise_q16 |-> Kernel(inputs_07, {"img_noise_q16"}),
               fbm_q16 |-> Kernel(inputs_07, {"img_fbm_q16"}), inputs |-> NoKernel]
app_job_07 == Jobs({"noise", "fbm", "noise_q16", "fbm_q16"}, {"c", "asm"})
              \cup {<<"inputs", "c">>}
checksum_07 == [noise |-> {"img_noise"}, fbm |-> {"img_fbm"}, noise_q16 |-> {"img_noise_q16"},
                fbm_q16 |-> {"img_fbm_q16"}, inputs |-> inputs_07]
app_upload_buffer_07 == {"perm", "grad"}
app_send_07 == {"img_fbm"}
run_all_07 == bench_run(rows_07)
              \o <<Use({"img_fbm", "img_fbm_q16"}), Fetch("img_fbm"), Draw({"img_fbm"})>>
print_page_07 == Tables(<<"results">>)
main_07 == <<Upload("perm"), Upload("grad")>>

(* 08-math32: all the kernels write val_out.  The row "divHW" is of the      *)
(* division hardware of the ARM9, and has nothing to compare it with.        *)

divHW == [bench_row("div", FALSE, FALSE, "none") EXCEPT !.arm_c = "hw"]

rows_08 == << bench_row("alu", FALSE, TRUE, "asm"), bench_row("mul", FALSE, TRUE, "asm"),
              bench_row("q16mul", FALSE, TRUE, "asm"), bench_row("div", TRUE, TRUE, "asm"),
              divHW, bench_row("sqrt", FALSE, TRUE, "asm"), InputRow >>
inputs_08 == {"val_a", "val_b"}
kernels_08 == [k \in {"alu", "mul", "q16mul", "div"} |-> Kernel(inputs_08, {"val_out"})]
              @@ [sqrt |-> Kernel({"val_a"}, {"val_out"}), inputs |-> NoKernel]
app_job_08 == Jobs({"alu", "mul", "q16mul", "div", "sqrt"}, {"c", "asm"}) \cup {<<"inputs", "c">>}
checksum_08 == [k \in {"alu", "mul", "q16mul", "div", "sqrt"} |-> {"val_out"}]
               @@ [inputs |-> inputs_08]
print_page_08 == Tables(<<"results">>)
main_08 == <<Generate>>

(* 00-asm-probe and 00-miu-probe: a job leaves a value in "result", whatever  *)
(* the job that ran before it did to "pdata", or to the memory it reads.      *)

Probes == {"probe_1", "probe_2", "probe_3"}
probe_list == <<"probe_1", "probe_2", "probe_3">>

\* Probes with another result on hardware than in the emulator, which is known.
PROBE_KNOWN_HW_LIST == {<<"probe_2", "c">>}
KnownResult == <<"known">>

rows_00 == [i \in 1 .. 3 |-> bench_row(probe_list[i], FALSE, TRUE, "none")]
kernels_00 == [p \in Probes |-> Kernel({"pdata"}, {"pdata", "result"})]
app_job_00 == Jobs(Probes, {"c"})
checksum_00 == [p \in Probes |-> {"result"}]
run_all_00 == bench_run(rows_00)
print_page_00 == <<"results", "results", "cycles", "cycles">>

MIU_JOB == <<"single_1", "dual_1", "single_2", "dual_2">>
rows_miu == [i \in 1 .. 4 |-> bench_row(MIU_JOB[i], FALSE, TRUE, "none")]
kernels_miu == [k \in ToSet(MIU_JOB) |-> Kernel({"memory"}, {"memory", "result"})]
               @@ [regs |-> Kernel({"regs"}, {"result"})]
app_job_miu == Jobs(ToSet(MIU_JOB) \cup {"regs"}, {"c"})
checksum_miu == [k \in ToSet(MIU_JOB) \cup {"regs"} |-> {"result"}]
run_all_miu == <<Run("regs", "c")>> \o bench_run(rows_miu)
print_page_miu == <<"registers", "setting", "setting">>

-----------------------------------------------------------------------------

\* Everything about a workload; run_all of 06 is that of one frame.
Workload(rows, kernels, jobs, sums, uploads, sends, run_all, pages, main) ==
    [rows |-> rows, kernels |-> kernels, jobs |-> jobs, sums |-> sums,
     uploads |-> uploads, sends |-> sends, run_all |-> run_all, pages |-> pages,
     main |-> main]

Workloads ==
    [asm_probe |-> Workload(rows_00, kernels_00, app_job_00, checksum_00, {}, {},
                            run_all_00, print_page_00, <<>>),
     miu_probe |-> Workload(rows_miu, kernels_miu, app_job_miu, checksum_miu, {}, {},
                            run_all_miu, print_page_miu, <<>>),
     collision |-> Workload(rows_01, kernels_01, app_job_01, checksum_01, {}, {},
                            run_all_01, print_page_01, main_01),
     skinning |-> Workload(rows_02, kernels_02, app_job_02, checksum_02, {}, {},
                           run_all_02, print_page_02, main_02),
     blur |-> Workload(rows_03, kernels_03, app_job_03, checksum_03, {}, app_send_03,
                       run_all_03, print_page_03, main_03),
     fft |-> Workload(rows_04, kernels_04, app_job_04, checksum_04, app_upload_buffer_04,
                      app_send_04, run_all_04, print_page_04, main_04),
     dct |-> Workload(rows_05, kernels_05, app_job_05, checksum_05, {}, app_send_05,
                      run_all_05, print_page_05, main_05),
     texture |-> Workload(rows_06, kernels_06, app_job_06, checksum_06, app_upload_buffer_06,
                          app_send_06, <<>>, <<"stats">>, main_06),
     perlin |-> Workload(rows_07, kernels_07, app_job_07, checksum_07, app_upload_buffer_07,
                         app_send_07, run_all_07, print_page_07, main_07),
     math32 |-> Workload(rows_08, kernels_08, app_job_08, checksum_08, {}, {},
                         bench_run(rows_08), print_page_08, main_08)]
=============================================================================
