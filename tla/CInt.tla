-------------------------------- MODULE CInt --------------------------------
(***************************************************************************)
(* Integers of C at a given width.  "int16_t" is w bits wide and "int32_t" *)
(* 2 * w, so that the kernels can be checked at small widths; "int" is w   *)
(* bits wide on the DSP and 2 * w on the ARM9.                             *)
(***************************************************************************)
EXTENDS Integers, Sequences

\* Conversion to the unsigned and to the signed type of "w" bits.
U(w, x) == x % 2^w
S(w, x) == ((x + 2^(w - 1)) % 2^w) - 2^(w - 1)

Signed(w) == -(2^(w - 1)) .. 2^(w - 1) - 1

\* x >> n of a signed or an unsigned value, x << n before its conversion.
Shr(x, n) == x \div 2^n
Shl(x, n) == x * 2^n

\* f(0) + ... + f(n - 1)
SumTo(n, f(_)) == LET s[i \in 0 .. n] == IF i = 0 THEN 0 ELSE s[i - 1] + f(i - 1)
                  IN  s[n]

\* The word of w bits whose bit i is f(i), and operations on such words.
Bit(x, i) == (x \div 2^i) % 2
FromBits(w, f(_)) == SumTo(w, LAMBDA i : f(i) * 2^i)
BitAnd(w, x, y) == FromBits(w, LAMBDA i : Bit(x, i) * Bit(y, i))
BitOr(w, x, y) == FromBits(w, LAMBDA i : IF Bit(x, i) + Bit(y, i) > 0 THEN 1 ELSE 0)
BitXor(w, x, y) == FromBits(w, LAMBDA i : (Bit(x, i) + Bit(y, i)) % 2)

Abs(x) == IF x < 0 THEN -x ELSE x
Clamp(x, low, high) == IF x < low THEN low ELSE IF x > high THEN high ELSE x
=============================================================================
