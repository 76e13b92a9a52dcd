------------------------------ MODULE Skinning ------------------------------
(***************************************************************************)
(* skinning.c: a vertex transformed by two bones and blended with its      *)
(* weight.  Q3.12 values have W - 4 fractional bits and Q16.16 values W.   *)
(***************************************************************************)
EXTENDS Fixed

One == 2^(W - 4)        \* 1.0 in Q3.12, 4096 in the code

\* What skinning_generate() makes: rotations in [-1, 1), translations in
\* [-0.5, 0.5), positions in [-2, 2), weights in [0, 1).
Rotations == -One .. One - 1
Translations == -(One \div 2) .. One \div 2 - 1
Positions == -2 * One .. 2 * One - 1
Weights == 0 .. One - 1

\* The rows of a bone are its rotation (1..3) and translation (4).
transform_row(row, v) ==
    LET acc == S(2 * W, row[1] * v[1] + row[2] * v[2] + row[3] * v[3]
                        + Shl(row[4], W - 4))
    IN  S(W, Shr(acc, W - 4))

blend(w0, w1, t0, t1) == S(W, Shr(S(2 * W, w0 * t0 + w1 * t1), W - 4))

\* The weights of the two bones add up to 1.0.
k_skin(v, m0, m1) ==
    LET w1 == S(W, One - v.w0)
    IN  [c \in 1 .. 3 |-> blend(v.w0, w1, transform_row(m0[c], v.p),
                                transform_row(m1[c], v.p))]

transform_row_q16(row, v) ==
    S(2 * W, q16_mul(row[1], v[1]) + q16_mul(row[2], v[2]) + q16_mul(row[3], v[3])
             + row[4])

blend_q16(w0, w1, t0, t1) == S(2 * W, q16_mul(w0, t0) + q16_mul(w1, t1))

k_skin_q16(v, m0, m1) ==
    LET w1 == S(2 * W, 2^W - v.w0)
    IN  [c \in 1 .. 3 |-> blend_q16(v.w0, w1, transform_row_q16(m0[c], v.p),
                                    transform_row_q16(m1[c], v.p))]

\* The same vertex and bones in Q16.16: 4 fractional bits more, chosen by rng()
\* anew for every value except the weight, which keeps its value.
LowBits == LET Bone == [1 .. 3 -> [1 .. 4 -> 0 .. 15]]
           IN  [v : [1 .. 3 -> 0 .. 15], m0 : Bone, m1 : Bone]
to_q16(x, low) == Shl(x, 4) + low
VertQ16(v, low) == [p |-> [c \in 1 .. 3 |-> to_q16(v.p[c], low[c])], w0 |-> Shl(v.w0, 4)]
BoneQ16(m, low) == [c \in 1 .. 3 |-> [k \in 1 .. 4 |-> to_q16(m[c][k], low[c][k])]]

-----------------------------------------------------------------------------
(* What the kernels promise. *)

\* A coordinate of the transformed vertex, times One, without any limit.
Exact(row, v) == row[1] * v[1] + row[2] * v[2] + row[3] * v[3] + row[4] * One

\* The transformed coordinate is the exact one rounded down (it fits in Q3.12
\* without saturation), and the blended one lies between those of the two
\* bones.  The Q16.16 kernel is as close to it as the roundings of both and
\* the low bits allow: 45 units in each of three products, 15 in a translation.
SkinningExact(v, m0, m1, low) ==
    LET out == k_skin(v, m0, m1)
        q16 == k_skin_q16(VertQ16(v, low.v), BoneQ16(m0, low.m0), BoneQ16(m1, low.m1))
    IN  \A c \in 1 .. 3 :
          LET t0 == transform_row(m0[c], v.p)
              t1 == transform_row(m1[c], v.p)
          IN  /\ t0 * One <= Exact(m0[c], v.p) /\ Exact(m0[c], v.p) < (t0 + 1) * One
              /\ t1 * One <= Exact(m1[c], v.p) /\ Exact(m1[c], v.p) < (t1 + 1) * One
              /\ \/ t0 <= out[c] /\ out[c] <= t1
                 \/ t1 <= out[c] /\ out[c] <= t0
              /\ Abs(q16[c] - Shl(out[c], 4)) <= 182
=============================================================================
