------------------------------ MODULE Texture ------------------------------
(***************************************************************************)
(* texture.c: one pixel of the animated plasma, from a table of sines.     *)
(***************************************************************************)
EXTENDS CInt

\* 5-bit color channel from a phase: 16 + sin(phase) * 15
channel(sin_table, phase) == U(16, 16 + Shr(sin_table[phase % 256], 11))

\* The sum of the four sines, divided by 4, which "v" holds.
PlasmaSum(sin_table, x, y, t) ==
    LET sin(phase) == sin_table[U(16, phase) % 256]
        sy == sin(3 * y - 2 * t)
        sx == sin(4 * x + t)
        sd == sin(2 * (x + y) + 3 * t)
        sm == sin(Shr(sx, 9) + Shr(sy, 10) + t)
    IN  <<sx, sy, sd, sm>>

\* The pixel at (x, y) of frame t, as its four fields.
k_plasma(sin_table, x, y, t) ==
    LET s == PlasmaSum(sin_table, x, y, t)
        v == S(16, Shr(s[1], 2) + Shr(s[2], 2) + Shr(s[3], 2) + Shr(s[4], 2))
        phase == U(16, Shr(v, 8))
        r == channel(sin_table, phase)
        g == U(16, Shl(channel(sin_table, U(16, phase + 85)), 5))
        b == U(16, Shl(channel(sin_table, U(16, phase + 170)), 10))
    IN  BitOr(16, BitOr(16, r, g), BitOr(16, b, 2^15))

-----------------------------------------------------------------------------
(* What the kernel promises. *)

\* The three channels don't touch each other's bits, the sum of the sines
\* doesn't wrap, and the animation is periodic, also where the 16-bit frame
\* number wraps.
PlasmaPacked(sin_table, x, y, t) ==
    LET s == PlasmaSum(sin_table, x, y, t)
        phase == (Shr(s[1], 2) + Shr(s[2], 2) + Shr(s[3], 2) + Shr(s[4], 2)) \div 2^8
        level(offset) == 16 + sin_table[(phase + offset) % 256] \div 2^11
        pixel == k_plasma(sin_table, x, y, t)
    IN  /\ pixel = 2^15 + level(0) + 2^5 * level(85) + 2^10 * level(170)
        /\ \A offset \in {0, 85, 170} : level(offset) \in 0 .. 31
        /\ k_plasma(sin_table, x, y, U(16, t + 256)) = pixel
=============================================================================
