------------------------------- MODULE Perlin -------------------------------
(***************************************************************************)
(* perlin.c: gradient noise with 8 fractional bits, and with W of them (16 *)
(* in the code).                                                           *)
(***************************************************************************)
EXTENDS Fixed

CONSTANTS
    perm,       \* the permutation of 0 .. 255 the ARM9 uploads
    grad        \* the unit vectors <<x, y>> in Q8 it uploads

CELL_SHIFT == 4
IMG_MAX == 4095

hash(ix, iy) == perm[(perm[ix % 256] + iy) % 256] % 16

\* The product of two values with 8 fractional bits, or with W.
mul8(a, b) == Shr(a * b, 8)
Mul(f, a, b) == IF f = 8 THEN mul8(a, b) ELSE q16_mul(a, b)

\* 6t^5 - 15t^4 + 10t^3
Fade(f, t) ==
    LET g == Mul(f, t, 6 * t - 15 * 2^f) + 10 * 2^f
    IN  Mul(f, Mul(f, Mul(f, t, t), t), g)

GradDot(f, h, fx, fy) ==
    Mul(f, Shl(grad[h][1], f - 8), fx) + Mul(f, Shl(grad[h][2], f - 8), fy)

Lerp(f, a, b, w) == a + Mul(f, b - a, w)

\* The noise at (x, y) with f fractional bits.
Noise(f, x, y) ==
    LET ix == U(16, Shr(x, f))
        iy == U(16, Shr(y, f))
        fx == x % 2^f
        fy == y % 2^f
        one == 2^f
        n00 == GradDot(f, hash(ix, iy), fx, fy)
        n10 == GradDot(f, hash(U(16, ix + 1), iy), fx - one, fy)
        n01 == GradDot(f, hash(ix, U(16, iy + 1)), fx, fy - one)
        n11 == GradDot(f, hash(U(16, ix + 1), U(16, iy + 1)), fx - one, fy - one)
        u == Fade(f, fx)
    IN  Lerp(f, Lerp(f, n00, n10, u), Lerp(f, n01, n11, u), Fade(f, fy))

noise8(x, y) == Noise(8, x, y)

clamp_gray(g) == Clamp(g, 0, IMG_MAX)
to_gray8(v) == clamp_gray(2048 + Shl(v, 3))
to_gray16(v) == clamp_gray(2048 + Shr(v, W - 11))

\* Octave o at the pixel: its coordinates are doubled and its weight halved.
Octave(f, px, py, o) ==
    Shr(Noise(f, Shl(px, f - CELL_SHIFT + o), Shl(py, f - CELL_SHIFT + o)), o)

k_noise(px, py, octaves) == to_gray8(SumTo(octaves, LAMBDA o : Octave(8, px, py, o)))
k_noise_q16(px, py, octaves) == to_gray16(SumTo(octaves, LAMBDA o : Octave(W, px, py, o)))

-----------------------------------------------------------------------------
(* What the kernels promise. *)

\* The noise is 0 at the corners of the cells, stays about in [-1, 1], has no
\* seam between a pixel and its neighbours, within a cell or across two, and
\* the two formats agree, for one octave and for four.
NoiseSmooth(px, py) ==
    LET At(x, y) == noise8(Shl(x, 4), Shl(y, 4))
    IN  /\ px % 16 = 0 /\ py % 16 = 0 => k_noise(px, py, 1) = 2048
        /\ Abs(At(px, py)) <= 260
        /\ Abs(At(px + 1, py) - At(px, py)) <= 40
        /\ Abs(At(px, py + 1) - At(px, py)) <= 40
        /\ Abs(k_noise_q16(px, py, 1) - k_noise(px, py, 1)) <= 64
        /\ Abs(k_noise_q16(px, py, 4) - k_noise(px, py, 4)) <= 128
=============================================================================
