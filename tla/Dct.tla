-------------------------------- MODULE Dct --------------------------------
(***************************************************************************)
(* dct.c: the 8x8 DCT of an image, block by block, and its inverse.  An    *)
(* image is a function of the row and the column of its blocks, and of the *)
(* row and the column of the pixel in the block.                           *)
(***************************************************************************)
EXTENDS CInt

Eight == 0 .. 7
IMG_MAX == 4095

\* round(s(u) * cos((2x + 1) u pi / 16) * 2^14), s(0) = sqrt(1/8), else 1/2
DctRow == << <<5793, 5793, 5793, 5793>>, <<8035, 6811, 4551, 1598>>,
             <<7568, 3135, -3135, -7568>>, <<6811, -1598, -8035, -4551>>,
             <<5793, -5793, -5793, 5793>>, <<4551, -8035, 1598, 6811>>,
             <<3135, -7568, 7568, -3135>>, <<1598, -4551, 6811, -8035>> >>
dct_matrix == [u \in Eight |-> [x \in Eight |->
                IF x < 4 THEN DctRow[u + 1][x + 1]
                ELSE (IF u % 2 = 0 THEN 1 ELSE -1) * DctRow[u + 1][8 - x]]]

idct_matrix == [x \in Eight |-> [u \in Eight |-> dct_matrix[u][x]]]

DCT_SHIFT_1 == 12
DCT_SHIFT_2 == 16

\* One pixel of the image dct_generate() draws, with noise of rng().
dct_generate(x, y, noise) ==
    LET edge == IF x > 20 /\ x < 44 /\ y > 12 /\ y < 40 THEN 1200 ELSE 0
    IN  Clamp(1024 + Shl(x, 4) + Shl(y, 3) + edge + noise, 0, IMG_MAX)

dct8(mat, vec, shift) ==
    [u \in Eight |->
        S(16, Shr(2^(shift - 1) + SumTo(8, LAMBDA x : mat[u][x] * vec[x]), shift))]

\* The rows, stored transposed, then the rows of that, transposed again.
block_2d(mat, in) ==
    LET tmp == [r \in Eight |-> dct8(mat, in[r], DCT_SHIFT_1)]
        out == [u \in Eight |-> dct8(mat, [r \in Eight |-> tmp[r][u]], DCT_SHIFT_2)]
    IN  [v \in Eight |-> [u \in Eight |-> out[u][v]]]

k_dct_image(src) ==
    [b \in DOMAIN src |->
        block_2d(dct_matrix, [y \in Eight |-> [x \in Eight |-> S(16, src[b][y][x] - 2048)]])]

k_idct_image(coef) ==
    [b \in DOMAIN coef |->
        LET out == block_2d(idct_matrix, coef[b])
        IN  [y \in Eight |-> [x \in Eight |-> Clamp(out[y][x] + 2048, 0, IMG_MAX)]]]

-----------------------------------------------------------------------------
(* What the kernels promise. *)

\* The inverse transform gives back the image, within 2 of every pixel: the
\* two bits that the first pass keeps more never overflow 16 bits.  A flat
\* block has no coefficient but its first.
DctInverts(src) ==
    LET coef == k_dct_image(src)
        recon == k_idct_image(coef)
        Flat(b) == \A y, x \in Eight : src[b][y][x] = src[b][0][0]
    IN  \A b \in DOMAIN src, y, x \in Eight :
          /\ Abs(recon[b][y][x] - src[b][y][x]) <= 2
          /\ Flat(b) /\ x + y > 0 => Abs(coef[b][y][x]) <= 1
=============================================================================
