----------------------------- MODULE ProtoServer -----------------------------
(***************************************************************************)
(* What the dsp-bench protocol promises its caller: a remote call.  A      *)
(* command asked by the ARM9 is served by the DSP exactly once, with the   *)
(* argument it was asked with, and the ARM9 gets the answer of that very   *)
(* command.  Nothing here knows of registers, flags, sequence numbers or   *)
(* of the two replies of a RUN command.                                    *)
(***************************************************************************)
EXTENDS Naturals

CONSTANTS
    Operands,   \* table, job, buffer and parameter ids a command can carry
    Tables,     \* the ids app_upload_buffer() knows
    Jobs,       \* the ids app_job() knows
    BufWords,   \* words of every table
    NoTable     \* stands for the NULL pointer

VARIABLES
    stage,      \* "idle", "asked" or "answered"
    ask,        \* the command, its operand and its argument
    ans,        \* the answer of the DSP
    got,        \* the answer as returned to the caller
    served,     \* number of commands served
    up,         \* the table being uploaded, its next word and the words left
    buf         \* contents of the tables in DSP memory

serverVars == <<stage, ask, ans, got, served, up, buf>>

Ops == {"UPLOAD_SELECT", "UPLOAD_DATA", "RUN", "SEND", "PARAM", "STATS"}
Statuses == {"OK", "BAD_CMD", "BAD_ARG", "DMA_ERROR"}

\* The value of the reply "part" of the n-th command (n = 0: no command).
Value(n, part) == [of |-> n, part |-> part]
NoValue == Value(0, 0)
NoAnswer == [status |-> "OK", values |-> <<NoValue, NoValue>>]

NoAsk == [op |-> "STATS", operand |-> NoTable, hi |-> 0, lo |-> 0]
NoUpload == [table |-> NoTable, next |-> 0, left |-> 0]

Init ==
    /\ stage = "idle"
    /\ ask = NoAsk
    /\ ans = NoAnswer
    /\ got = NoAnswer
    /\ served = 0
    /\ up = NoUpload
    /\ buf = [t \in Tables |-> [i \in 0 .. BufWords - 1 |-> 0]]

\* The ARM9 starts a command.
Ask ==
    /\ stage = "idle"
    /\ stage' = "asked"
    /\ ask' \in [op : Ops, operand : Operands, hi : Nat, lo : Nat]
    /\ got' = NoAnswer
    /\ UNCHANGED <<ans, served, up, buf>>

\* UPLOAD_SELECT: the table must exist and hold the words.
Select(status) ==
    /\ ask.op = "UPLOAD_SELECT"
    /\ IF ask.operand \in Tables /\ ask.lo <= BufWords
       THEN /\ status = "OK"
            /\ up' = [table |-> ask.operand, next |-> 0, left |-> ask.lo]
       ELSE status = "BAD_ARG" /\ up' = NoUpload
    /\ buf' = buf

\* UPLOAD_DATA: the next two words of the table, or its last one.
Data(status) ==
    LET n == IF up.left = 1 THEN 1 ELSE 2
    IN  /\ ask.op = "UPLOAD_DATA"
        /\ up.left > 0
        /\ status = "OK"
        /\ up' = [up EXCEPT !.next = @ + n, !.left = @ - n]
        /\ buf' = [buf EXCEPT ![up.table] = [i \in DOMAIN @ |->
                     IF i = up.next THEN ask.hi
                     ELSE IF n = 2 /\ i = up.next + 1 THEN ask.lo ELSE @[i]]]

\* UPLOAD_DATA with nothing left to upload.
Excess(status) ==
    /\ ask.op = "UPLOAD_DATA"
    /\ up.left = 0
    /\ status = "BAD_ARG"
    /\ UNCHANGED <<up, buf>>

\* RUN, SEND, PARAM, STATS: jobs and buffers are not modelled.
Other(status) ==
    /\ ask.op \in {"RUN", "SEND", "PARAM", "STATS"}
    /\ ask.op = "RUN" =>
         status = IF ask.lo > 0 /\ ask.operand \notin Jobs THEN "BAD_ARG" ELSE "OK"
    /\ ask.op = "STATS" => status = "OK"
    /\ UNCHANGED <<up, buf>>

\* The DSP serves the command; both values of a RUN are those of this run.
Serve ==
    /\ stage = "asked"
    /\ stage' = "answered"
    /\ served' = served + 1
    /\ \E status \in Statuses :
         /\ Select(status) \/ Data(status) \/ Excess(status) \/ Other(status)
         /\ ans' = [status |-> status,
                    values |-> <<Value(served', 0),
                       IF ask.op = "RUN" THEN Value(served', 1) ELSE NoValue>>]
    /\ UNCHANGED <<ask, got>>

\* The caller gets the answer.
Take ==
    /\ stage = "answered"
    /\ stage' = "idle"
    /\ got' = ans
    /\ ans' = NoAnswer
    /\ UNCHANGED <<ask, served, up, buf>>

Next == Ask \/ Serve \/ Take

Spec == Init /\ [][Next]_serverVars
=============================================================================
