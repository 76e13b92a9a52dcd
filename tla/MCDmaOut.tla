------------------------------ MODULE MCDmaOut ------------------------------
(* Pages of four words; addresses are clamped to four pages. *)
EXTENDS DmaOut

\* Both sides of the page boundary at Wrap, and of the one before it.
MCAddresses == {0, 5, 6} \cup 22 .. 34

MCAsync(channel, src, len) == [channel |-> channel, src |-> src, len |-> len]

\* A whole page, the end of the last page before Wrap, one word at an odd
\* address; and calls that are refused for every reason.
MCAsyncCalls ==
    {MCAsync(2, 8, 4), MCAsync(2, 28, 2), MCAsync(3, 5, 1),
     MCAsync(2, 8, 0), MCAsync(2, 8, 5), MCAsync(0, 8, 2), MCAsync(2, 30, 2)}
=============================================================================
