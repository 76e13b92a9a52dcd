-------------------------------- MODULE Blur --------------------------------
(***************************************************************************)
(* blur.c: the separable 5x5 Gaussian with clamped edges and the 3x3       *)
(* convolution with a copied border, on an image of Width x Height pixels  *)
(* of 12 bits.  An image is a function of the row and the column.          *)
(***************************************************************************)
EXTENDS CInt

CONSTANTS Width, Height     \* IMG_W, IMG_H

IMG_MAX == 4095
Rows == 0 .. Height - 1
Columns == 0 .. Width - 1

\* A pixel of blur_generate(): squares, a gradient, and noise of rng().
blur_generate(x, y, noise) ==
    LET v == U(16, Shl(x + y, 5)) + (IF (Shr(x, 3) + Shr(y, 3)) % 2 = 1 THEN 1500 ELSE 0)
    IN  Clamp(v + noise, 0, IMG_MAX)

sharpen == << <<-1, -2, -1>>, <<-2, 16, -2>>, <<-1, -2, -1>> >>
SharpenShift == 2

clamp_coord(v, max) == Clamp(v, 0, max)

\* The sum is one of 16-bit unsigned integers on the DSP.
gauss_tap(a, b, c, d, e) ==
    Shr(U(16, a + e + Shl(b + d, 2) + Shl(c, 2) + Shl(c, 1) + 8), 4)

k_gauss5(src) ==
    LET X(x) == clamp_coord(x, Width - 1)
        Y(y) == clamp_coord(y, Height - 1)
        tmp == [y \in Rows |-> [x \in Columns |->
                  gauss_tap(src[y][X(x - 2)], src[y][X(x - 1)], src[y][x],
                            src[y][X(x + 1)], src[y][X(x + 2)])]]
    IN  [y \in Rows |-> [x \in Columns |->
                  gauss_tap(tmp[Y(y - 2)][x], tmp[Y(y - 1)][x], tmp[y][x],
                            tmp[Y(y + 1)][x], tmp[Y(y + 2)][x])]]

\* The pixels conv3x3_copy_border() copies: first and last row and column.
conv3x3_copy_border == {p \in Rows \X Columns :
                            p[1] \in {0, Height - 1} \/ p[2] \in {0, Width - 1}}

k_conv3x3(src, k, shift) ==
    [y \in Rows |-> [x \in Columns |->
        IF <<y, x>> \in conv3x3_copy_border THEN src[y][x]
        ELSE LET acc == SumTo(3, LAMBDA j :
                            k[j + 1][1] * S(16, src[y - 1 + j][x - 1])
                          + k[j + 1][2] * S(16, src[y - 1 + j][x])
                          + k[j + 1][3] * S(16, src[y - 1 + j][x + 1]))
             IN  Clamp(Shr(acc, shift), 0, IMG_MAX)]]

-----------------------------------------------------------------------------
(* What the kernels promise. *)

\* Coefficient of the distance "i" in the Gaussian, as a weight of 16.
Weight(i) == <<6, 4, 1>>[Abs(i) + 1]

\* Both passes of the Gaussian at once, with weights of 256.
Gauss2(src, y, x) ==
    SumTo(5, LAMBDA i : SumTo(5, LAMBDA j :
        Weight(i - 2) * Weight(j - 2)
        * src[clamp_coord(y + i - 2, Height - 1)][clamp_coord(x + j - 2, Width - 1)]))

\* The Gaussian is exact but for the rounding of its two passes (the sums of
\* 16-bit unsigned integers don't wrap), the convolution is exact, clamped,
\* and leaves the border alone, and both keep pixels in 12 bits.
BlurExact(src) ==
    LET gauss == k_gauss5(src)
        conv == k_conv3x3(src, sharpen, SharpenShift)
        In(y, x) == src[y][x]
    IN  \A y \in Rows, x \in Columns :
          /\ Abs(256 * gauss[y][x] - Gauss2(src, y, x)) <= 256
          /\ gauss[y][x] \in 0 .. IMG_MAX
          /\ IF y \in {0, Height - 1} \/ x \in {0, Width - 1}
             THEN conv[y][x] = src[y][x]
             ELSE LET exact == 16 * In(y, x)
                          - 2 * (In(y - 1, x) + In(y + 1, x) + In(y, x - 1) + In(y, x + 1))
                          - (In(y - 1, x - 1) + In(y - 1, x + 1)
                             + In(y + 1, x - 1) + In(y + 1, x + 1))
                  IN  conv[y][x] = Clamp(exact \div 4, 0, IMG_MAX)
=============================================================================
