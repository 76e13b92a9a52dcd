---------------------------- MODULE BenchKernels ----------------------------
(***************************************************************************)
(* The kernels of the benchmark example: bench_kernels.c, which both CPUs  *)
(* run ("p" is the width of "int", as in CgTests), and kernels_asm.s, which *)
(* the DSP runs too and whose results are compared with them.              *)
(***************************************************************************)
EXTENDS CInt

CONSTANT W  \* bits of int16_t, 16 in the code

BENCH_N == 2^(W - 6)

\* A step of the generator: s ^= s << 7, s ^= s >> 9, s ^= s << 8.  The shifts
\* scale with W.
Step(p, s) ==
    LET Left(x, n) == U(W, IF p = W THEN U(W, Shl(x, n)) ELSE S(p, Shl(x, n)))
        y == BitXor(W, s, Left(s, W \div 2 - 1))
        z == BitXor(W, y, Shr(y, W \div 2 + 1))
    IN  BitXor(W, z, Left(z, W \div 2))

\* The states after 0 .. n steps.
States(p, seed, n) ==
    LET s[i \in 0 .. n] == IF i = 0 THEN seed ELSE Step(p, s[i - 1]) IN s

\* Values of W - 5 bits, half of them negative.
bench_fill(p, n, seed) ==
    LET s == States(p, seed, n)
    IN  [i \in 1 .. n |-> S(W, U(W - 5, s[i]) - 2^(W - 6))]

bench_dot16_c(a, b) ==
    LET n == Len(a)
        sum[i \in 0 .. n] ==
            IF i = 0 THEN 0 ELSE U(2 * W, sum[i - 1] + U(2 * W, S(2 * W, a[i] * b[i])))
    IN  sum[n]

bench_sum16_c(a) ==
    LET sum[i \in 0 .. Len(a)] == IF i = 0 THEN 0 ELSE U(2 * W, sum[i - 1] + U(W, a[i]))
    IN  sum[Len(a)]

bench_xorshift16_c(p, seed, steps) ==
    LET s == States(p, seed, steps)
        acc[i \in 0 .. steps] == IF i = 0 THEN 0 ELSE BitXor(W, acc[i - 1], s[i])
    IN  Shl(acc[steps], W) + s[steps]

-----------------------------------------------------------------------------
(* kernels_asm.s *)

\* "bkrep" and "rep" run their count, a 16-bit register, + 1 times.
Repetitions(count) == U(W, count) + 1

\* A product is added when the next one is started, the last one after the loop.
\* Requires n >= 2.
bench_dot16_asm(a, b) ==
    LET runs == Repetitions(Len(a) - 2)
        after[i \in 0 .. runs] ==
            [a0 |-> IF i = 0 THEN 0 ELSE after[i - 1].a0 + after[i - 1].p0,
             p0 |-> b[i + 1] * a[i + 1]]
    IN  U(2 * W, after[runs].a0 + after[runs].p0)

\* Requires n >= 1.
bench_sum16_asm(a) ==
    U(2 * W, SumTo(Repetitions(Len(a) - 1), LAMBDA i : U(W, a[i + 1])))

\* "xor" with a register of 16 bits changes the low half only.
XorLow(x, y) == x - U(W, x) + BitXor(W, U(W, x), U(W, y))

\* A step of the generator, on the whole of a0.
StepA0(a0) ==
    LET x == XorLow(a0, Shl(a0, W \div 2 - 1))
        y == XorLow(x, Shr(x, W \div 2 + 1))
    IN  XorLow(y, Shl(y, W \div 2))

\* a0 holds the state and a1 what is returned, into which the state, as a0l, goes
\* too.  Requires steps >= 1.
bench_xorshift16_asm(seed, steps) ==
    LET runs == Repetitions(steps - 1)
        after[i \in 0 .. runs] ==
            IF i = 0 THEN [a0 |-> seed, a1 |-> 0]
            ELSE LET a0 == StepA0(after[i - 1].a0)
                 IN  [a0 |-> a0, a1 |-> XorLow(after[i - 1].a1, a0)]
    IN  U(2 * W, Shl(after[runs].a1, W) + U(W, after[runs].a0))

-----------------------------------------------------------------------------

\* Both CPUs generate the same buffers, without ever reaching the state 0, from
\* which the generator doesn't get away; both versions of each kernel give the
\* same result; the dot product doesn't wrap, "can't overflow 32 bits"
\* (bench.h:97), with the largest products that the buffers can hold.
KernelsAgree(seed_a, seed_b, n) ==
    LET a == bench_fill(W, n, seed_a)
        b == bench_fill(W, n, seed_b)
        low == [i \in 1 .. BENCH_N |-> -(2^(W - 6))]
        unsigned == [i \in 1 .. n |-> U(W, a[i])]
    IN  /\ a = bench_fill(2 * W, n, seed_a)
        /\ \A i \in 0 .. n : States(W, seed_a, n)[i] # 0
        /\ bench_dot16_asm(a, b) = bench_dot16_c(a, b)
        /\ S(2 * W, bench_dot16_c(a, b)) = SumTo(n, LAMBDA i : a[i + 1] * b[i + 1])
        /\ bench_dot16_c(low, low) = BENCH_N * 2^(W - 6) * 2^(W - 6)
        /\ bench_sum16_asm(unsigned) = bench_sum16_c(unsigned)
        /\ bench_xorshift16_asm(seed_a, n) = bench_xorshift16_c(W, seed_a, n)
        /\ bench_xorshift16_c(W, seed_a, n) = bench_xorshift16_c(2 * W, seed_a, n)
=============================================================================
