------------------------------ MODULE Checksum ------------------------------
(***************************************************************************)
(* The checksum of an output (proto.h), on words of W bits, 16 in the      *)
(* code.                                                                   *)
(***************************************************************************)
EXTENDS CInt

CONSTANT W

checksum_init == [a |-> 1, b |-> 0]

\* Mutant: "b" adds up the words, not the sums of words.
checksum_add16Plain(c, v) == [a |-> U(2 * W, c.a + v), b |-> U(2 * W, c.b + v)]

checksum_add16(c, v) ==
    LET a == U(2 * W, c.a + v) IN [a |-> a, b |-> U(2 * W, c.b + a)]

checksum_add32(c, v) == checksum_add16(checksum_add16(c, U(W, v)), Shr(v, W))

checksum_get(c) == BitXor(2 * W, U(2 * W, Shl(c.b, W)), c.a)

\* The checksum of a buffer of 16-bit words.
ChecksumOf(words) ==
    LET c[i \in 0 .. Len(words)] ==
            IF i = 0 THEN checksum_init ELSE checksum_add16(c[i - 1], words[i])
    IN  checksum_get(c[Len(words)])

-----------------------------------------------------------------------------
(* What the checksum promises. *)

\* Two outputs that differ in one word, or in the order of two neighbours,
\* have different checksums, and a 32-bit value counts as its two words.
ChecksumDetects(words, i, v) ==
    LET sum == ChecksumOf(words)
        next == IF i < Len(words) THEN i + 1 ELSE i
        swapped == [words EXCEPT ![i] = words[next], ![next] = words[i]]
    IN  /\ v # words[i] => ChecksumOf([words EXCEPT ![i] = v]) # sum
        /\ swapped # words => ChecksumOf(swapped) # sum
        /\ checksum_add32(checksum_init, Shl(v, W) + words[i])
              = checksum_add16(checksum_add16(checksum_init, words[i]), v)
=============================================================================
