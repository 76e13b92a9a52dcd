------------------------------ MODULE CgTests ------------------------------
(***************************************************************************)
(* cgtests.c: the tests of the code generator, which both CPUs run and     *)
(* the ARM9 compares.  "p" is the width of "int": W bits on the DSP, 2 * W *)
(* on the ARM9; the operands of 16 bits are promoted to it.                *)
(*                                                                         *)
(* "v" holds the volatile inputs: in_u16, in_s16, in_u32, in_n, in_len.    *)
(***************************************************************************)
EXTENDS CInt

CONSTANT W  \* bits of int16_t, 16 in the code

ARRAY_LEN == 16

\* The value of an expression of "int" operands, at least one of which was an
\* unsigned 16-bit variable: unsigned when int has 16 bits.
Promoted(p, x) == IF p = W THEN U(W, x) ELSE S(p, x)

\* cg_init(): the two arrays, and global_counter = 0.
array_u == [i \in 0 .. ARRAY_LEN - 1 |-> U(W, 4369 * (i + 1))]
array_s == [i \in 0 .. ARRAY_LEN - 1 |-> S(W, S(W, i * 700) - 5000)]

Constants(p, v) == << U(2 * W, 305419896), v.u[2], U(2 * W, v.s[1]) >>

\* Mutant: the results aren't cast back to 16 bits.
Alu16Uncast(p, v) ==
    << U(2 * W, Promoted(p, v.u[1] + v.u[2])), U(2 * W, Promoted(p, v.u[1] - v.u[2])),
       BitAnd(W, v.u[1], v.u[2]), BitOr(W, v.u[1], v.u[3]), BitXor(W, v.u[1], v.u[2]),
       U(2 * W, Promoted(p, -v.u[1] - 1)), U(2 * W, S(p, -v.s[2])) >>

\* add, sub, and, or, xor, not, neg
Alu16(p, v) ==
    << U(W, Promoted(p, v.u[1] + v.u[2])), U(W, Promoted(p, v.u[1] - v.u[2])),
       BitAnd(W, v.u[1], v.u[2]), BitOr(W, v.u[1], v.u[3]), BitXor(W, v.u[1], v.u[2]),
       U(W, Promoted(p, -v.u[1] - 1)), U(W, S(p, -v.s[2])) >>

\* shl, lshr, ashr, and the two by a variable count
Shifts16(p, v) ==
    << U(W, Promoted(p, Shl(v.u[1], 3))), U(W, Shr(v.u[2], 5)), U(W, Shr(v.s[1], 3)),
       U(W, Promoted(p, Shl(v.u[1], v.u[4]))), U(W, Shr(v.u[2], v.u[4])) >>

\* add, sub, and, xor, shl, lshr, ashr
Alu32(p, v) ==
    << U(2 * W, v.l[1] + v.l[2]), U(2 * W, v.l[1] - v.l[2]),
       BitAnd(2 * W, v.l[1], v.l[2]), BitXor(2 * W, v.l[1], v.l[2]),
       U(2 * W, Shl(v.u[1], W)), Shr(v.l[2], 12), U(2 * W, Shr(S(2 * W, v.l[2]), 12)) >>

\* mul16, muls32, mulu32, mulk32
Multiplications(p, v) ==
    << U(W, Promoted(p, v.u[1] * v.u[4])), U(2 * W, v.s[1] * v.s[2]),
       U(2 * W, v.u[1] * v.u[2]), U(2 * W, v.s[2] * 1000) >>

\* The word whose bit i is set when test i + 1 holds.
Bits(tests) == SumTo(Len(tests), LAMBDA i : IF tests[i + 1] THEN 2^i ELSE 0)

Comparisons(p, v) ==
    << Bits(<<v.s[1] < v.s[2], v.s[1] > v.s[2], v.s[1] = v.s[2], v.u[1] < v.u[2],
              v.u[1] > v.u[2], v.s[1] < 0, v.u[1] >= 2^(W - 1)>>),
       Bits(<<v.l[1] < v.l[2], v.l[1] > v.l[2], S(2 * W, v.l[1]) < S(2 * W, v.l[2]),
              v.l[1] = U(2 * W, 305419896)>>) >>

\* n additions of a constant, in 16 and in 32 bits
Loops(p, v) == << U(W, 3 * v.n), U(2 * W, 100 * v.n) >>

xor_mask == U(W, 21845)

\* Sums over the arrays, the array written and read back, and global_counter.
Memory(p, v) ==
    LET tmp == [i \in 0 .. v.len - 1 |-> BitXor(W, array_u[i], xor_mask)]
        x[i \in 0 .. v.len] ==
            IF i = 0 THEN 0 ELSE U(W, Promoted(p, x[i - 1] + Promoted(p, tmp[i - 1] * i)))
    IN  << U(2 * W, SumTo(v.len, LAMBDA i : array_u[i])),
           U(2 * W, SumTo(v.len, LAMBDA i : array_s[i])),
           U(W, SumTo(v.len, LAMBDA i : array_u[i])),
           x[v.len],
           U(W, 10 * v.u[4]),
           U(2 * W, SumTo(v.len, LAMBDA i : array_s[i] * array_s[ARRAY_LEN - 1 - i])) >>

helper4(p, a, b, c, d) == U(W, Promoted(p, BitXor(W, a, b) + BitAnd(W, c, d)))
helper32(a, b) == U(2 * W, a - Shr(b, 1))

\* call4, call32, nested
CallTests(p, v) ==
    LET x == helper4(p, v.u[1], 1, 2, 3)
    IN  << helper4(p, v.u[1], v.u[2], v.u[3], v.u[4]), helper32(v.l[1], v.l[2]),
           Shl(x, W) + helper4(p, x, v.u[2], 2^W - 1, v.u[4]) >>

Spill(p, v) ==
    LET a == v.u[1]   b == v.u[2]   c == v.u[3]   d == v.u[4]
        e == U(W, Promoted(p, a + b))
        f == BitXor(W, c, d)
        g == U(W, Promoted(p, a - d))
        h == BitAnd(W, b, c)
        i == BitOr(W, e, f)
        j == U(W, Promoted(p, g + h))
    IN  Shl(U(W, Promoted(p, a + b + c + d + e + f + g + h + i + j)), W) + helper4(p, a, b, c, d)

select_value(k) ==
    U(W, IF k < 5 THEN 4369 * (k + 1) ELSE IF k = 7 THEN 30583 ELSE 57005)

Switch(p) ==
    LET r[k \in 0 .. 9] ==
            IF k = 0 THEN 0 ELSE U(W, Promoted(p, r[k - 1] + Promoted(p, select_value(k - 1) * k)))
    IN  r[9]

\* One step of the generator; acc is the xor of the states.
xorshift16(p, s, steps) ==
    LET Step(x) == LET y == BitXor(W, x, U(W, Promoted(p, Shl(x, 7))))
                       z == BitXor(W, y, Shr(y, 9))
                   IN  BitXor(W, z, U(W, Promoted(p, Shl(z, 8))))
        r[i \in 0 .. steps] ==
            IF i = 0 THEN <<0, s>>
            ELSE LET last == r[i - 1]
                     x == Step(last[2])
                 IN  <<BitXor(W, last[1], x), x>>
    IN  Shl(r[steps][1], W) + r[steps][2]

\* lshr_only, shl_only, xorsh1, xorsh16
Kernels(p, v) ==
    LET s == BitXor(W, v.u[2], U(W, Promoted(p, Shl(v.u[2], 7))))
    IN  << BitXor(W, v.u[2], Shr(v.u[2], 9)), BitXor(W, s, U(W, Promoted(p, Shl(s, 8)))),
           xorshift16(p, v.u[1], 1), xorshift16(p, v.u[1], v.len) >>

\* run(): the result of every test, in the order of its index.
run(p, v) ==
    Constants(p, v) \o Alu16(p, v) \o Shifts16(p, v) \o Alu32(p, v) \o Multiplications(p, v)
    \o Comparisons(p, v) \o Loops(p, v) \o Memory(p, v) \o CallTests(p, v)
    \o <<Spill(p, v), Switch(p)>> \o Kernels(p, v)

cg_test_count == 45

\* Result of a test, of those of run(): 0xFFFFFFFF if it isn't one of them.
cg_run(results, index) ==
    IF index < cg_test_count THEN results[index + 1] ELSE 2^(2 * W) - 1

-----------------------------------------------------------------------------
(* What the file promises. *)

\* "every expression uses fixed-width types and casts to behave the same on
\* both CPUs": all tests give the same result with either width of int, for
\* all inputs and not only those of the file, and there is a result for every
\* index the ARM9 runs.
SameOnBothCPUs(v) ==
    LET dsp == run(W, v)
        arm9 == run(2 * W, v)
    IN  /\ Len(dsp) = cg_test_count
        /\ \A index \in 0 .. cg_test_count : cg_run(dsp, index) = cg_run(arm9, index)
=============================================================================
