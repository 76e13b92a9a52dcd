----------------------------- MODULE MCDspProto -----------------------------
(* Table and job 0 exist, operand 1 names nothing; tables have four words. *)
EXTENDS DspProto

MCCall(op, operand, n) == [op |-> op, operand |-> operand, n |-> n]

\* Uploads that fit (none, an even and an odd number of words), one too long
\* and one to no table; jobs that exist, don't, and are not repeated at all.
MCCalls ==
    {MCCall("UPLOAD_SELECT", 0, n) : n \in {0, 3, 4, 5}}
    \cup {MCCall("UPLOAD_SELECT", 1, 2), MCCall("UPLOAD_DATA", 0, 2),
          MCCall("RUN", 0, 1), MCCall("RUN", 1, 1), MCCall("RUN", 1, 0),
          MCCall("SEND", 0, 1), MCCall("PARAM", 1, 2), MCCall("STATS", 0, 0)}
=============================================================================
