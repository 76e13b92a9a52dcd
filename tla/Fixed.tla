------------------------------- MODULE Fixed -------------------------------
(***************************************************************************)
(* fixed.c: the 32-bit multiplication of Q16.16 values, the divisions and  *)
(* the square root, from operations the DSP has, at any width of int16_t;  *)
(* math32.c: the kernels that apply them to arrays.                        *)
(***************************************************************************)
EXTENDS CInt

CONSTANT W  \* bits of int16_t, 16 in the code

\* r is the sum of the four partial products, modulo 2^32.
q16_mul(a, b) ==
    LET ah == Shr(a, W)
        bh == Shr(b, W)
        al == U(W, a)
        bl == U(W, b)
    IN  S(2 * W, Shl(ah * bh, W) + ah * bl + al * bh + Shr(al * bl, W))

\* Mutant: the remainder is reduced only when it exceeds the divisor.
DivideBitStrict(st, n, d, i) ==
    LET r == U(2 * W, Shl(st.r, 1) + Bit(n, 2 * W - 1 - i))
    IN  [q |-> 2 * st.q + (IF r > d THEN 1 ELSE 0),
         r |-> IF r > d THEN r - d ELSE r]

\* One bit of the long division: the remainder takes the next bit of n.
DivideBit(st, n, d, i) ==
    LET r == U(2 * W, Shl(st.r, 1) + Bit(n, 2 * W - 1 - i))
    IN  [q |-> 2 * st.q + (IF r >= d THEN 1 ELSE 0),
         r |-> IF r >= d THEN r - d ELSE r]

\* Quotient and remainder of unsigned values; a division by 0 is defined.
udiv32(n, d) ==
    LET step[i \in 0 .. 2 * W] ==
            IF i = 0 THEN [q |-> 0, r |-> 0]
            ELSE DivideBit(step[i - 1], n, d, i - 1)
    IN  IF d = 0 THEN [q |-> 2^(2 * W) - 1, r |-> n] ELSE step[2 * W]

\* The signs are removed and put back; the quotient wraps for MIN / -1.
sdiv32(n, d) ==
    LET q == udiv32(U(2 * W, Abs(n)), U(2 * W, Abs(d))).q
    IN  S(2 * W, IF (n < 0) # (d < 0) THEN -q ELSE q)

\* The root, two bits of x per step, from the largest power of 4 <= x.
isqrt32(x) ==
    LET Root[i \in 0 .. W] ==
            \* x, res after the steps with bit = 4^(W-1) .. 4^(W-i)
            IF i = 0 THEN <<x, 0>>
            ELSE LET bit == 2^(2 * (W - i))
                     last == Root[i - 1]
                     res == last[2]
                 IN  IF bit > x THEN last
                     ELSE IF last[1] >= res + bit
                          THEN <<last[1] - (res + bit), Shr(res, 1) + bit>>
                          ELSE <<last[1], Shr(res, 1)>>
    IN  Root[W][2]

-----------------------------------------------------------------------------
(* math32.c *)

\* val_a is any 32-bit value, val_b one shifted right until it may be 0.
math32_generate(hiA, hiB, shift) ==
    LET b == Shr(hiB, shift) IN <<hiA, IF b = 0 THEN 7 ELSE b>>

k_alu(a, b) ==
    LET sum == S(2 * W, a + b)
        diff == S(2 * W, a - S(2 * W, Shl(U(2 * W, b), 2)))
    IN  S(2 * W, BitXor(2 * W, U(2 * W, Shr(sum, 3)), U(2 * W, diff)))

k_mul(a, b) == S(2 * W, a * b)
k_q16mul(a, b) == q16_mul(a, b)
k_div(a, b) == sdiv32(a, b)
k_sqrt(a) == S(2 * W, isqrt32(U(2 * W, a)))

-----------------------------------------------------------------------------
(* What the functions promise. *)

Sign(x) == IF x < 0 THEN -1 ELSE 1

\* For all 32-bit values: the product is exact modulo 2^32, the quotient is
\* that of C, rounded to 0 (a division by 0 gives -1 or 1, and MIN / -1
\* wraps), the remainder completes it, and the root is the integer root.
FixedExact(a, b) ==
    LET ua == U(2 * W, a)
        ub == U(2 * W, b)
        div == udiv32(ua, ub)
        root == k_sqrt(a)
    IN  /\ k_q16mul(a, b) = S(2 * W, (a * b) \div 2^W)
        /\ b # 0 => /\ ua = div.q * ub + div.r /\ div.r < ub
                    /\ k_div(a, b) = S(2 * W, Sign(a) * Sign(b) * (Abs(a) \div Abs(b)))
        /\ b = 0 => k_div(a, b) = -Sign(a) /\ div.r = ua
        /\ root * root <= ua /\ ua < (root + 1) * (root + 1)
        /\ k_mul(a, b) = S(2 * W, a * b)
=============================================================================
