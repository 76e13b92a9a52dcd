----------------------------- MODULE SeqExamples -----------------------------
(***************************************************************************)
(* The examples codegen_check and benchmark.  The ARM9 makes the DSP run   *)
(* every test (kernel), shows the results and starts again when asked to.  *)
(* Commands and replies carry a sequence number, as in DspProto, but each  *)
(* example has a loop and a format of its own: codegen_check sends no      *)
(* argument, and only a RUN of benchmark has a second reply.               *)
(*                                                                         *)
(* Here too the DSP may see a command twice and the ARM9 read a reply that *)
(* isn't new.  Both halves of a value carry what the value is.             *)
(***************************************************************************)
EXTENDS Frames

CONSTANTS
    SeqCount,       \* sequence numbers 1 .. SeqCount, 15 in the code
    Tests,          \* tests of codegen_check, kernels and variants of benchmark
    MaxRuns,        \* bound on the runs that the user starts
    MaxRepeated,    \* bound: how often the DSP sees a command again
    MaxStale        \* bound: how many replies the ARM9 ignores

ASSUME SeqExamplesAssumption ==
    /\ SeqCount \in Nat \ {0, 1} /\ Tests \in Nat \ {0}
    /\ MaxRuns \in Nat /\ MaxRepeated \in Nat /\ MaxStale \in Nat

\* What the ARM9 sends to its DSP: benchmark also an argument, the address of
\* the buffers or the number of repetitions.
First == IF ex = "benchmark" THEN "LOAD" ELSE "INIT"
Argument(op) ==
    IF ex # "benchmark" THEN "none"
    ELSE CASE op = "LOAD" -> "buffers" [] op = "RUN" -> "repeat" [] OTHER -> "zero"
Script == <<[op |-> First, test |-> 0]>> \o [t \in 1 .. Tests |-> [op |-> "RUN", test |-> t]]
          \o <<[op |-> "STATS", test |-> 0]>>

\* last_seq before the first command, and the command in CMD0 by then.
NoSeq == SeqCount + 1
NoCommand == [op |-> "NONE", test |-> 0, seq |-> 0]
NoValue == [of |-> "NONE", test |-> 0, arg |-> <<"none", "none">>, count |-> 0]
NoRep == [seq |-> 0, part |-> 0, status |-> "OK"]

SeqInit ==
    /\ a = [pc |-> "prepare", at |-> 1, seq |-> 0, part |-> 0, rep0 |-> NoRep,
            high |-> NoValue, stale |-> 0, runs |-> 0, count |-> 0,
            results |-> [t \in 1 .. Tests |-> [status |-> "NONE", value |-> <<NoValue, NoValue>>]]]
    /\ d = [pc |-> "receive", cmd |-> NoCommand, arg |-> <<"none", "none">>,
            lastSeq |-> NoSeq, repeated |-> 0, status |-> "OK", part |-> 0]
    /\ toDsp = {} /\ toArm = {}
    /\ ApbpInit([i \in Channels |-> IF i = 0 THEN NoCommand ELSE "none"],
                [i \in Channels |-> IF i = 0 THEN NoRep ELSE NoValue])

-----------------------------------------------------------------------------
(* ARM9 *)

ArmPc(from, to) == a.pc = from /\ a' = [a EXCEPT !.pc = to]

\* dsp_command(), dsp_send(): the argument, if any, is written first.
PrepareCommand ==
    /\ a.pc = "prepare"
    /\ a' = [a EXCEPT !.seq = (@ % SeqCount) + 1, !.part = 0,
                      !.pc = IF ex = "benchmark" THEN "send1" ELSE "send0"]
    /\ UNCHANGED <<apbpVars, semVars, d>>
SendWords ==
    LET command == Script[a.at]
    IN  /\ \/ ArmPc("send1", "send2") /\ dspSendData(1, Argument(command.op))
           \/ ArmPc("send2", "send0") /\ dspSendData(2, Argument(command.op))
           \/ /\ ArmPc("send0", "rep0")
              /\ dspSendData(0, [op |-> command.op, test |-> command.test, seq |-> a.seq])
        /\ UNCHANGED <<semVars, d>>

\* Mutant of Awaited: the sequence number isn't looked at.
AwaitedAnySeq(rep0) == ex = "benchmark" => rep0.part = a.part

\* benchmark: run_benchmark() waits for a second reply.
Awaited(rep0) == rep0.seq = a.seq /\ (ex = "benchmark" => rep0.part = a.part)
HasSecond(op) == ex = "benchmark" /\ op = "RUN"

\* The next command, or the results after the last one.  codegen_check stops
\* unless the DSP has the tests.
AfterReply(status, value) ==
    IF a.at = Len(Script) THEN "show"
    ELSE IF Script[a.at].op = "INIT" /\ (status # "OK" \/ value[1].count # Tests) THEN "failed"
    ELSE "prepare"

TakeReply(rep0, value) ==
    LET command == Script[a.at]
        got == IF command.op = "RUN" /\ a.part = 0
               THEN [a.results EXCEPT ![command.test] = [status |-> rep0.status, value |-> value]]
               ELSE a.results
    IN  IF ~Awaited(rep0) THEN a' = [a EXCEPT !.stale = @ + 1, !.pc = "rep0"]
        ELSE IF HasSecond(command.op) /\ a.part = 0
        THEN a' = [a EXCEPT !.results = got, !.part = 1, !.pc = "rep0"]
        ELSE a' = [a EXCEPT !.results = got, !.pc = AfterReply(rep0.status, value),
                            !.count = IF command.op = "STATS" THEN value[1].count ELSE @,
                            !.at = IF @ = Len(Script) THEN @ ELSE @ + 1]

ReadWords ==
    /\ \/ a.pc = "rep0" /\ dspReceiveData(0) /\ a' = [a EXCEPT !.pc = "rep1", !.rep0 = rep[0]]
       \/ a.pc = "rep1" /\ dspReceiveData(1) /\ a' = [a EXCEPT !.pc = "rep2", !.high = rep[1]]
       \/ a.pc = "rep2" /\ dspReceiveData(2) /\ TakeReply(a.rep0, <<a.high, rep[2]>>)
    /\ UNCHANGED <<semVars, d>>

\* Fault: a reply is read that isn't new.
ReadOldWords ==
    /\ a.pc = "rep0" /\ a.stale < MaxStale
    /\ \A i \in Channels : ~repUnread[i]
    /\ TakeReply(rep[0], <<rep[1], rep[2]>>)
    /\ UNCHANGED <<apbpVars, semVars, d>>

\* The A key, or B in benchmark.
RunAgain ==
    /\ a.pc = "show" /\ a.runs < MaxRuns
    /\ a' = [a EXCEPT !.pc = "prepare", !.at = 2, !.runs = @ + 1]
    /\ UNCHANGED <<apbpVars, semVars, d>>

SeqArm9 == PrepareCommand \/ SendWords \/ ReadWords

-----------------------------------------------------------------------------
(* DSP *)

IsRepeated(c) == c.seq = d.lastSeq

Dispatch(c) ==
    d' = IF IsRepeated(c) THEN [d EXCEPT !.repeated = @ + 1]
         ELSE [d EXCEPT !.lastSeq = c.seq, !.cmd = c,
                        !.pc = IF ex = "benchmark" THEN "arg1" ELSE "execute"]
SeqReceive ==
    /\ d.pc = "receive"
    /\ apbpReceiveData(0) /\ Dispatch(cmd[0])
    /\ UNCHANGED <<semVars, a>>

\* Fault: the DSP sees what is in CMD0 again.
SeqReceiveAgain ==
    /\ d.pc = "receive" /\ ~cmdNew[0] /\ d.repeated < MaxRepeated
    /\ Dispatch(cmd[0])
    /\ UNCHANGED <<apbpVars, semVars, a>>

\* The argument is there already, and isn't waited for.
ReadArgument ==
    /\ \/ d.pc = "arg1" /\ LoadCmd(1) /\ d' = [d EXCEPT !.pc = "arg2", !.arg[1] = cmd[1]]
       \/ d.pc = "arg2" /\ LoadCmd(2) /\ d' = [d EXCEPT !.pc = "execute", !.arg[2] = cmd[2]]
    /\ UNCHANGED <<semVars, a>>

\* The commands and tests that the DSP has.
Known(command) ==
    /\ command.op \in {First, "RUN", "STATS"}
    /\ command.op = "RUN" /\ ex = "benchmark" => command.test \in 1 .. Tests

\* load_buffers() finds that the DMA works, that it doesn't start or that it
\* changes the words.
Execute ==
    /\ d.pc = "execute"
    /\ \E status \in IF ~Known(d.cmd) THEN {"BAD_CMD"}
                     ELSE IF d.cmd.op = "LOAD" THEN {"OK", "DMA_ERROR", "DMA_MISMATCH"}
                     ELSE {"OK"} :
         d' = [d EXCEPT !.pc = "rep0", !.part = 0, !.status = status]
    /\ UNCHANGED <<apbpVars, semVars, a>>

SeqValue ==
    [of |-> IF d.part = 0 THEN d.cmd.op ELSE "CYCLES", test |-> d.cmd.test,
     arg |-> IF d.cmd.op = "RUN" THEN d.arg ELSE <<"none", "none">>,
     count |-> CASE d.cmd.op = "INIT" -> Tests [] d.cmd.op = "STATS" -> d.repeated [] OTHER -> 0]
SeqReply ==
    /\ \/ /\ d.pc = "rep0"
          /\ apbpSendData(0, [seq |-> d.cmd.seq, part |-> d.part, status |-> d.status])
          /\ d' = [d EXCEPT !.pc = "rep1"]
       \/ d.pc = "rep1" /\ apbpSendData(1, SeqValue) /\ d' = [d EXCEPT !.pc = "rep2"]
       \/ /\ d.pc = "rep2" /\ apbpSendData(2, SeqValue)
          /\ d' = IF HasSecond(d.cmd.op) /\ d.part = 0 THEN [d EXCEPT !.pc = "rep0", !.part = 1]
                  ELSE [d EXCEPT !.pc = "receive"]
    /\ UNCHANGED <<semVars, a>>

SeqDsp == SeqReceive \/ ReadArgument \/ Execute \/ SeqReply

-----------------------------------------------------------------------------

\* When the results are shown, every test has run and its value is that of the
\* test, computed with the argument that was sent, in both halves; the count is
\* one the DSP has had.
SeqShown ==
    /\ \A t \in 1 .. Tests :
          LET right == [of |-> "RUN", test |-> t, count |-> 0,
                        arg |-> <<Argument("RUN"), Argument("RUN")>>]
          IN  a.results[t] = [status |-> "OK", value |-> <<right, right>>]
    /\ a.count <= d.repeated
=============================================================================
