------------------------------ MODULE MathF16 ------------------------------
(***************************************************************************)
(* math_f16.h: dot and cross products of vectors of 16-bit values, with    *)
(* the halfword multiplications of the ARM9.  A vector is a tuple.         *)
(***************************************************************************)
EXTENDS CInt

CONSTANT W  \* bits of int16_t, 16 in the code

\* SMULBB and SMLABB use the low halves of their operands; the sum of the
\* second one wraps.
dsp16i_smulbb(a, b) == S(W, a) * S(W, b)
dsp16i_smlabb(a, b, acc) == S(2 * W, dsp16i_smulbb(a, b) + acc)

\* SMLALBB adds to a 64-bit value held in two registers.
dsp16i_smlalbb(a, b, acc) ==
    LET product == dsp16i_smulbb(a, b)
        lo == U(2 * W, acc) + U(2 * W, product)
        hi == S(2 * W, Shr(acc, 2 * W) + (IF product < 0 THEN -1 ELSE 0) + Shr(lo, 2 * W))
    IN  Shl(hi, 2 * W) + U(2 * W, lo)

dotf16_fast(a, b) ==
    dsp16i_smlabb(a[3], b[3], dsp16i_smlabb(a[2], b[2], dsp16i_smulbb(a[1], b[1])))

dotf16_safe(a, b) ==
    dsp16i_smlalbb(a[3], b[3], dsp16i_smlalbb(a[2], b[2], dsp16i_smulbb(a[1], b[1])))

\* One component of the cross product before the shift: two SMULBB and a
\* subtraction.
CrossTerm(a, b, i, j) ==
    S(2 * W, dsp16i_smulbb(a[i], b[j]) - dsp16i_smulbb(a[j], b[i]))

f16_shift_clamp(raw, shift) == Clamp(Shr(raw, shift), -(2^(W - 1)), 2^(W - 1) - 1)

crossf16(a, b, shift) ==
    << f16_shift_clamp(CrossTerm(a, b, 2, 3), shift),
       f16_shift_clamp(CrossTerm(a, b, 3, 1), shift),
       f16_shift_clamp(CrossTerm(a, b, 1, 2), shift) >>

-----------------------------------------------------------------------------
(* What the header promises. *)

\* The safe dot product is exact for all vectors; the fast one is when its sum
\* fits in 32 bits; the cross product has no special case, the most negative
\* value included, and saturates.
MathF16Exact(a, b, shift) ==
    LET dot == a[1] * b[1] + a[2] * b[2] + a[3] * b[3]
        Sat(x) == Clamp(x \div 2^shift, -(2^(W - 1)), 2^(W - 1) - 1)
    IN  /\ dotf16_safe(a, b) = dot
        /\ dot \in Signed(2 * W) => dotf16_fast(a, b) = dot
        /\ crossf16(a, b, shift) = << Sat(a[2] * b[3] - a[3] * b[2]),
                                      Sat(a[3] * b[1] - a[1] * b[3]),
                                      Sat(a[1] * b[2] - a[2] * b[1]) >>
=============================================================================
