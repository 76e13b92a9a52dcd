------------------------------ MODULE MCKernels ------------------------------
(***************************************************************************)
(* Runs every kernel on a set of inputs, one per step.                     *)
(***************************************************************************)
EXTENDS Integers, Sequences

CONSTANTS
    SmallW,     \* width for which all the inputs of fixed.c are tried
    KernelW,    \* width of the collision and skinning kernels
    NoiseW,     \* fractional bits of the Q16.16 noise
    SumW,       \* width of the words of a checksum
    FileW,      \* width of a size in the header of a TLF section
    StackSize,  \* bytes of the stack, in front of the data
    ImageWidth, ImageHeight     \* size of the image that is blurred

VARIABLES job, in

vars == <<job, in>>

F == INSTANCE Fixed WITH W <- SmallW
C == INSTANCE Collision WITH W <- KernelW
K == INSTANCE Skinning WITH W <- KernelW
B == INSTANCE Blur WITH Width <- ImageWidth, Height <- ImageHeight
R == INSTANCE Fft WITH LogN <- 3,
        twiddle <- [k \in 0 .. 3 |-> << <<32767, 0>>, <<23170, 23170>>,
                                        <<0, 32767>>, <<-23170, 23170>> >>[k + 1]]
D == INSTANCE Dct
T == INSTANCE Texture
P == INSTANCE Perlin WITH W <- NoiseW,
        perm <- [i \in 0 .. 255 |-> ((167 * i) + 13) % 256],
        grad <- [h \in 0 .. 15 |->
            LET quarter == <<<<256, 0>>, <<237, 98>>, <<181, 181>>, <<98, 237>> >>[(h % 4) + 1]
            IN  << quarter, <<-quarter[2], quarter[1]>>, <<-quarter[1], -quarter[2]>>,
                   <<quarter[2], -quarter[1]>> >>[h \div 4 + 1]]
S == INSTANCE Checksum WITH W <- SumW
M == INSTANCE MathF16 WITH W <- SmallW
G == INSTANCE CgTests WITH W <- KernelW
N == INSTANCE BenchKernels WITH W <- KernelW
L == INSTANCE Teaktool WITH W <- FileW

-----------------------------------------------------------------------------
(* Inputs *)

Longs == F!Signed(2 * SmallW)

Low == -(2^(KernelW - 3))
High == 2^(KernelW - 3) - 1
Vec(x, y, z) == [k \in C!Axes |-> CASE k = "x" -> x [] k = "y" -> y [] k = "z" -> z]
Corners == {Vec(Low, Low, Low), Vec(High, Low, 0), Vec(High, High, High)}
Offset == {-(2^(KernelW - 6)), 0, 2^(KernelW - 6) - 1}
BigRadius == 2^(KernelW - 5) - 1

Pairs == {C!collision_generate(a, TRUE, a, Vec(u, v, u), ra, rb) :
             a \in Corners, u, v \in Offset, ra \in {0, BigRadius - 3, BigRadius},
             rb \in {1, BigRadius}}
         \cup {C!collision_generate(a, FALSE, b, a, BigRadius, BigRadius) :
             a, b \in Corners}
Hit == C!collision_generate(Vec(1, 2, 3), FALSE, Vec(1, 2, 3), Vec(0, 0, 0), 1, 1)
Miss == C!collision_generate(Vec(1, 2, 3), FALSE, Vec(9, 9, 9), Vec(0, 0, 0), 1, 1)

\* The low bits that rng() gives to the values of two spheres.
SphereLows == LET Of == [c : {Vec(0, 0, 0), Vec(15, 0, 15)}, r : {0, 15}]
              IN  [a : Of, b : Of]

\* Two words of tests, of which one is of the given pair.
PairsAt(p, i) == [j \in 1 .. 2 * KernelW |-> IF j = i THEN p ELSE IF j % 3 = 0 THEN Hit ELSE Miss]

MinMax(X) == {CHOOSE x \in X : \A y \in X : x <= y, CHOOSE x \in X : \A y \in X : x >= y}
Verts == [p : {<<x, y, z>> : x, y \in MinMax(K!Positions), z \in {-5, 11}},
          w0 : MinMax(K!Weights) \cup {K!One \div 3}]
Bone(x, y, z, t) == << <<x, y, z, t>>, <<z, y, x, -t - 1>>, <<y, -z - 1, x, t>> >>
Bones == {Bone(x, y, z, t) : x, y \in MinMax(K!Rotations), z \in {3, -7},
                             t \in MinMax(K!Translations)}

\* The same of a vertex and of its two bones.
RowsOf(l, m) == [c \in 1 .. 3 |-> [k \in 1 .. 4 |-> IF k = c THEN l ELSE m]]
SkinLows == LET Of == {RowsOf(0, 0), RowsOf(0, 15), RowsOf(15, 15)}
            IN  [v : {<<0, 15, 0>>, <<15, 15, 15>>}, m0 : Of, m1 : Of]

Images == [ {0, 1, 2, 3} -> {0, 1500, 4095} ]
Image(f) == [y \in B!Rows |-> [x \in B!Columns |-> f[(x \div 2 + 2 * y) % 4]]]

Signals == [ 0 .. 7 -> {-12000, 9000} ]
Signal(f) == [n \in 0 .. 7 |-> [re |-> f[n], im |-> f[(3 * n + 1) % 8] \div 3]]

Blocks == {[y \in D!Eight |-> [x \in D!Eight |-> IF <<x, y>> = p THEN 4095 ELSE 0]] :
              p \in {0, 3, 7} \X D!Eight}
          \cup {[y \in D!Eight |-> [x \in D!Eight |-> IF (x \div a + y \div b) % 2 = 0 THEN 4095 ELSE 0]] :
              a, b \in {1, 2, 4, 8}}

Sine(form) ==
    [i \in 0 .. 255 |->
        CASE form = "high" -> 32767
          [] form = "low" -> -32767
          [] form = "wave" -> IF i < 128 THEN (i * (128 - i) * 8 * 32767) \div 32768
                              ELSE -(((i - 128) * (256 - i) * 8 * 32767) \div 32768)]

Halfwords == {-(2^(SmallW - 1)), -1, 2^(SmallW - 1) - 1}

Volatile(u1, u2, u3, u4, s1, s2, l1, l2) ==
    [u |-> <<u1, u2, u3, u4>>, s |-> <<s1, s2>>, l |-> <<l1, l2>>, n |-> 100, len |-> 16]
Words == {0, 18, 220, 2^KernelW - 1}

\* Code around the size that a header can hold, data up to the last byte.
Programs == {p \in {L!Link(text, rodata, data, bss) :
                       text \in {2, 40} \cup (2^FileW - 5 .. 2^FileW + 6),
                       rodata, data \in {0, 1, 6, 24}, bss \in {0, 3, 16}} :
                L!FitsDataMemory(p)}
Headers == {L!TeakHeader, [L!TeakHeader EXCEPT !.machine = "ARM"]}

Inputs ==
    [fixed |-> Longs \X Longs,
     collision |-> Pairs \X {1, KernelW, KernelW + 1} \X SphereLows,
     skinning |-> Verts \X Bones \X {Bone(0, 1, -2, 3), Bone(-16, 15, 7, -8)} \X SkinLows,
     blur |-> Images,
     fft |-> Signals,
     dct |-> Blocks,
     texture |-> {"high", "low", "wave"} \X {0, 17, 63} \X {5, 62} \X {0, 31, 255, 32768, 65535},
     perlin |-> (0 .. 33) \X {0, 1, 7, 15, 16, 31, 47},
     math_f16 |-> [1 .. 3 -> Halfwords] \X [1 .. 3 -> Halfwords] \X {0, 2},
     codegen |-> {Volatile(u1, u2, u3, u4, s1, s2, l1, 39612) :
                     u1, u2 \in Words, u3 \in {129}, u4 \in {0, 7}, s1 \in {-24, 77},
                     s2 \in {-128, 13}, l1 \in {0, 22136, 65535}},
     benchmark |-> ((1 .. 2^KernelW - 1) \X {77} \X {2})
                      \cup ({1, 129, 2^KernelW - 1} \X {1, 77} \X {3, 5}),
     teaktool |-> [header : Headers, sections : Programs],
     checksum |-> ([1 .. 3 -> {0, 1, 2^SumW - 1}] \X (1 .. 3)) \X {0, 2, 2^SumW - 1}]

-----------------------------------------------------------------------------

Init == job = "none" /\ in = <<>>

Start(k) == /\ job = "none"
            /\ job' = k /\ in' \in Inputs[k]

Finish == job # "none" /\ job' = "none" /\ in' = <<>>

Next == (\E k \in DOMAIN Inputs : Start(k)) \/ Finish

Spec == Init /\ [][Next]_vars

\* fixed.c, math32.c and math_f16.h: the 32-bit operations built from 16-bit
\* ones, and the halfword products of the ARM9, are exact for all values.
FixedOK ==
    /\ job = "fixed" => F!FixedExact(in[1], in[2])
    /\ job = "math_f16" => M!MathF16Exact(in[1], in[2], in[3])

\* collision.c, skinning.c, blur.c and texture.c: within the ranges of the
\* generated inputs, no 16-bit or 32-bit result wraps; the masks hold every test
\* in its place, a filtered pixel is the one that its definition asks for, and
\* the colors of a pixel of the plasma don't touch each other's bits.
GraphicsOK ==
    /\ job = "collision" => C!CollisionExact(PairsAt(in[1], in[2]), [j \in 1 .. 2 * KernelW |-> in[3]])
    /\ job = "skinning" => K!SkinningExact(in[1], in[2], in[3], in[4])
    /\ job = "blur" => B!BlurExact(Image(in))
    /\ job = "texture" => T!PlasmaPacked(Sine(in[1]), in[2], in[3], in[4])

\* dct.c, perlin.c and fft.c: the scaled arithmetic of the kernels stays near
\* the transform that it stands for, and none of it overflows.
TransformsOK ==
    /\ job = "dct" => D!DctInverts([b \in {0} |-> in])
    /\ job = "perlin" => P!NoiseSmooth(in[1], in[2])
    /\ job = "fft" => R!FftIsDft(Signal(in))

\* proto.h: no error in one word of an output, and no exchange of two words
\* next to each other, leaves the checksum as it was.
ChecksumOK == job = "checksum" => S!ChecksumDetects(in[1][1], in[1][2], in[2])

\* cgtests.c and bench_kernels.c: what both CPUs run gives the same results with
\* an int of 16 and of 32 bits, and the kernels of kernels_asm.s as those in C.
CodegenOK ==
    /\ job = "codegen" => G!SameOnBothCPUs(in)
    /\ job = "benchmark" => N!KernelsAgree(in[1], in[2], in[3])

\* teaktool: a program is the same in the ELF and in the TLF file, unless its
\* code is too long for the header of a section.
TlfOK == job = "teaktool" => L!LoadsAlike(in)
=============================================================================
