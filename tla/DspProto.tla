------------------------------ MODULE DspProto ------------------------------
(***************************************************************************)
(* The ARM9 <-> DSP protocol of the dsp-bench examples (proto_arm9.c and   *)
(* proto_teak.c), register by register, over the APBP mailbox.             *)
(*                                                                         *)
(* The two CPUs interleave freely.  The hardware misbehaves in the two     *)
(* ways the readme files describe: the DSP can see the same command twice  *)
(* (ReceiveAgain) and the ARM9 can read a reply that isn't new             *)
(* (ReadOldReply).  In both, a wait for a flag ends although nothing new   *)
(* was written, and the old contents of the register are read.             *)
(*                                                                         *)
(* The words of a command or reply register are abstracted to records; a   *)
(* 32-bit argument stays split in the halves that CMD1 and CMD2 carry.     *)
(* The value of a reply is identified by the command that computed it, and *)
(* REP1 and REP2 carry that identity, so that halves of different replies  *)
(* can be told apart.                                                      *)
(***************************************************************************)
EXTENDS Apbp

CONSTANTS
    SeqCount,       \* sequence numbers 1 .. SeqCount, 15 in the code
    Operands,       \* table, job, buffer and parameter ids
    Tables,         \* ids app_upload_buffer() knows
    Jobs,           \* ids app_job() knows
    BufWords,       \* words of every table
    Calls,          \* calls of the ARM9 program: operation, operand, argument
    NoTable,        \* the NULL pointer
    MaxCmds,        \* bound: no call starts after this many commands
    MaxRepeated,    \* bound: how often the DSP sees a command again
    MaxStale        \* bound: how many replies the ARM9 ignores

Ops == {"UPLOAD_SELECT", "UPLOAD_DATA", "RUN", "SEND", "PARAM", "STATS"}

\* A call is proto_upload(operand, data, n) for UPLOAD_SELECT, proto_run(
\* operand, n) for RUN, and proto_cmd(op | operand, n) for the others.
ASSUME ProtoAssumption ==
    /\ SeqCount \in Nat /\ SeqCount >= 2
    /\ Tables \subseteq Operands
    /\ Jobs \subseteq Operands
    /\ Operands \subseteq Nat /\ 0 \in Operands
    /\ NoTable \notin Operands
    /\ BufWords \in Nat
    /\ Calls \subseteq [op : Ops, operand : Operands, n : Nat]
    /\ MaxCmds \in Nat /\ MaxRepeated \in Nat /\ MaxStale \in Nat

VARIABLES
    aPc,        \* ARM9: the next access of send() or receive(), or "idle"
    aCall,      \* ARM9: the call in progress: proto_upload, proto_run, ...
    aIndex,     \* ARM9: "i" of proto_upload(), the next word to send
    aCmd,       \* ARM9: the command, operand and argument of send()
    seq,        \* ARM9: sequence number of the last command (cmd_seq)
    aPart,      \* ARM9: the part of the reply receive() waits for
    aRep0,      \* ARM9: rep0 of receive()
    aHigh,      \* ARM9: the half of the value read from REP1
    aGot,       \* ARM9: what the calls of receive() returned
    stale,      \* ARM9: stale_replies
    dPc,        \* DSP: the next access of main()
    dCmd,       \* DSP: cmd of main()
    dArg,       \* DSP: arg of main(), as its two halves
    lastSeq,    \* DSP: last_seq
    repeated,   \* DSP: repeated_cmds
    up,         \* DSP: upload_ptr (a table and the next word) and upload_left
    buf,        \* DSP: contents of the tables
    dStatus,    \* DSP: status of the replies being sent
    dPart,      \* DSP: which reply is being sent
    sent,       \* history: commands started by the ARM9
    served      \* history: commands executed by the DSP

armVars == <<aPc, aCall, aIndex, aCmd, seq, aPart, aRep0, aHigh, aGot, stale,
             sent>>
dspVars == <<dPc, dCmd, dArg, lastSeq, repeated, up, buf, dStatus, dPart,
             served>>
vars == <<apbpVars, armVars, dspVars>>

Statuses == {"OK", "BAD_CMD", "BAD_ARG", "DMA_ERROR"}

\* last_seq before the first command: matches no sequence number.
NoSeq == SeqCount + 1

\* The value of reply "part" of the n-th command; of n = 0 if no command.
Value(n, part) == [of |-> n, part |-> part]
NoValue == Value(0, 0)
Values == [of : Nat, part : {0, 1}]
NoPair == <<NoValue, NoValue>>
NoReply == [seq |-> 0, part |-> 0, status |-> "OK"]
Nothing == [op |-> "NONE", seq |-> 0, operand |-> NoTable]
NoUpload == [table |-> NoTable, next |-> 0, left |-> 0]

Init ==
    /\ ApbpInit([i \in Channels |-> IF i = 0 THEN Nothing ELSE 0],
                [i \in Channels |-> IF i = 0 THEN NoReply ELSE NoValue])
    /\ aPc = "idle" /\ aCall = [op |-> "STATS", operand |-> NoTable, n |-> 0]
    /\ aIndex = 0
    /\ aCmd = [op |-> "STATS", operand |-> NoTable, hi |-> 0, lo |-> 0]
    /\ seq = 0 /\ aPart = 0 /\ aRep0 = NoReply /\ aHigh = NoValue
    /\ aGot = [status |-> "OK", first |-> NoPair, second |-> NoPair]
    /\ stale = 0 /\ sent = 0
    /\ dPc = "receive" /\ dCmd = Nothing /\ dArg = [hi |-> 0, lo |-> 0]
    /\ lastSeq = NoSeq /\ repeated = 0
    /\ up = NoUpload /\ buf = [t \in Tables |-> [i \in 0 .. BufWords - 1 |-> 0]]
    /\ dStatus = "OK" /\ dPart = 0 /\ served = 0

-----------------------------------------------------------------------------
(* ARM9: send() *)

\* Mutants of NextSeq: the numbers do not wrap; they do not advance.
NextSeqNoWrap(n) == n + 1
NextSeqStuck(n) == IF n = 0 THEN 1 ELSE n

\* The sequence number of the next command.
NextSeq(n) == (n % SeqCount) + 1

\* send(): a new sequence number, then the writes of the three registers.
Send(op, operand, hi, lo) ==
    /\ aPc' = "send1"
    /\ aCmd' = [op |-> op, operand |-> operand, hi |-> hi, lo |-> lo]
    /\ seq' = NextSeq(seq)
    /\ aPart' = 0
    /\ sent' = sent + 1
    /\ UNCHANGED <<aRep0, aHigh, stale>>

\* A call of proto_upload() (its first command), proto_run_start() or
\* proto_cmd().
Call ==
    /\ aPc = "idle"
    /\ sent < MaxCmds
    /\ \E c \in Calls :
         /\ aCall' = c
         /\ Send(c.op, c.operand, 0, c.n)
    /\ aIndex' = 0
    /\ aGot' = [status |-> "OK", first |-> NoPair, second |-> NoPair]
    /\ UNCHANGED <<apbpVars, dspVars>>

SendArgHigh ==
    /\ aPc = "send1"
    /\ dspSendData(1, aCmd.hi)
    /\ aPc' = "send2"
    /\ UNCHANGED <<aCall, aIndex, aCmd, seq, aPart, aRep0, aHigh, aGot, stale,
                   sent, dspVars>>

SendArgLow ==
    /\ aPc = "send2"
    /\ dspSendData(2, aCmd.lo)
    /\ aPc' = "send0"
    /\ UNCHANGED <<aCall, aIndex, aCmd, seq, aPart, aRep0, aHigh, aGot, stale,
                   sent, dspVars>>

SendCmd ==
    /\ aPc = "send0"
    /\ dspSendData(0, [op |-> aCmd.op, seq |-> seq, operand |-> aCmd.operand])
    /\ aPc' = "rep0"
    /\ UNCHANGED <<aCall, aIndex, aCmd, seq, aPart, aRep0, aHigh, aGot, stale,
                   sent, dspVars>>

-----------------------------------------------------------------------------
(* ARM9: receive() and its callers *)

\* Mutants of IsAwaited: PROTO_REPLY_SECOND is not compared; neither is the
\* sequence number.
IsAwaitedAnyPart(rep0) == rep0.seq = seq
IsAwaitedAnySeq(rep0) == rep0.part = aPart

\* The reply is the one receive() waits for.
IsAwaited(rep0) == rep0.seq = seq /\ rep0.part = aPart

\* receive() has read a reply, which is ignored unless it is the awaited one.
\* The caller of a RUN waits for a second one.
Deliver(rep0, high, low) ==
    IF IsAwaited(rep0)
    THEN /\ IF aPart = 0
            THEN aGot' = [aGot EXCEPT !.status = rep0.status,
                                      !.first = <<high, low>>]
            ELSE aGot' = [aGot EXCEPT !.second = <<high, low>>]
         /\ IF aCmd.op = "RUN" /\ aPart = 0
            THEN aPart' = 1 /\ aPc' = "rep0"
            ELSE aPart' = aPart /\ aPc' = "return"
         /\ stale' = stale
    ELSE /\ stale' = stale + 1
         /\ aPc' = "rep0"
         /\ UNCHANGED <<aGot, aPart>>

ReceiveRep0 ==
    /\ aPc = "rep0"
    /\ dspReceiveData(0)
    /\ aRep0' = rep[0]
    /\ aPc' = "rep1"
    /\ UNCHANGED <<aCall, aIndex, aCmd, seq, aPart, aHigh, aGot, stale, sent,
                   dspVars>>

ReceiveRep1 ==
    /\ aPc = "rep1"
    /\ dspReceiveData(1)
    /\ aHigh' = rep[1]
    /\ aPc' = "rep2"
    /\ UNCHANGED <<aCall, aIndex, aCmd, seq, aPart, aRep0, aGot, stale, sent,
                   dspVars>>

ReceiveRep2 ==
    /\ aPc = "rep2"
    /\ dspReceiveData(2)
    /\ Deliver(aRep0, aHigh, rep[2])
    /\ UNCHANGED <<aCall, aIndex, aCmd, seq, aRep0, aHigh, sent, dspVars>>

\* Fault: the ARM9 reads a reply that isn't new, all of it.
ReadOldReply ==
    /\ aPc = "rep0"
    /\ \A i \in Channels : ~repUnread[i]
    /\ stale < MaxStale
    /\ Deliver(rep[0], rep[1], rep[2])
    /\ UNCHANGED <<apbpVars, aCall, aIndex, aCmd, seq, aRep0, aHigh, sent,
                   dspVars>>

\* Word i of the data of an upload, and 0 past its end.
Word(i) == IF i < aCall.n THEN 10 * aCall.n + i + 1 ELSE 0

\* proto_cmd() has returned to proto_upload() and there are words left.
UploadNext ==
    /\ aPc = "return"
    /\ aCall.op = "UPLOAD_SELECT" /\ aGot.status = "OK" /\ aIndex < aCall.n
    /\ Send("UPLOAD_DATA", 0, Word(aIndex), Word(aIndex + 1))
    /\ aIndex' = aIndex + 2
    /\ UNCHANGED <<apbpVars, aCall, aGot, dspVars>>

\* The call returns.
Return ==
    /\ aPc = "return"
    /\ aCall.op = "UPLOAD_SELECT" /\ aGot.status = "OK" => aIndex >= aCall.n
    /\ aPc' = "idle"
    /\ UNCHANGED <<apbpVars, aCall, aIndex, aCmd, seq, aPart, aRep0, aHigh,
                   aGot, stale, sent, dspVars>>

-----------------------------------------------------------------------------
(* DSP: main() *)

\* Mutant of IsRepeated: the DSP does not look at the sequence number.
IsRepeatedNever(c) == FALSE

\* The same command seen twice.
IsRepeated(c) == c.seq = lastSeq

\* main() has read CMD0: a repeated command is skipped without a reply.
Dispatch(c) ==
    IF IsRepeated(c)
    THEN /\ repeated' = repeated + 1
         /\ UNCHANGED <<lastSeq, dCmd, dPc>>
    ELSE /\ lastSeq' = c.seq
         /\ dCmd' = c
         /\ dPc' = "arg1"
         /\ UNCHANGED repeated

Receive ==
    /\ dPc = "receive"
    /\ apbpReceiveData(0)
    /\ Dispatch(cmd[0])
    /\ UNCHANGED <<armVars, dArg, up, buf, dStatus, dPart, served>>

\* Fault: the DSP sees the contents of CMD0 again (or before the ARM9 has
\* written it at all).
ReceiveAgain ==
    /\ dPc = "receive"
    /\ ~cmdNew[0]
    /\ repeated < MaxRepeated
    /\ Dispatch(cmd[0])
    /\ UNCHANGED <<apbpVars, armVars, dArg, up, buf, dStatus, dPart, served>>

\* The argument is read without waiting.
ReadArgHigh ==
    /\ dPc = "arg1"
    /\ LoadCmd(1)
    /\ dArg' = [dArg EXCEPT !.hi = cmd[1]]
    /\ dPc' = "arg2"
    /\ UNCHANGED <<armVars, dCmd, lastSeq, repeated, up, buf, dStatus, dPart,
                   served>>

ReadArgLow ==
    /\ dPc = "arg2"
    /\ LoadCmd(2)
    /\ dArg' = [dArg EXCEPT !.lo = cmd[2]]
    /\ dPc' = "execute"
    /\ UNCHANGED <<armVars, dCmd, lastSeq, repeated, up, buf, dStatus, dPart,
                   served>>

\* One case of the switch of main(), up to its first reply().
Case(op, status) ==
    /\ dPc = "execute"
    /\ dCmd.op = op
    /\ dStatus' = status
    /\ dPart' = 0
    /\ dPc' = "rep0"
    /\ served' = IF op = "NONE" THEN served ELSE served + 1
    /\ UNCHANGED <<apbpVars, armVars, dCmd, dArg, lastSeq, repeated>>

\* app_upload_buffer() does not return NULL.
Fits(table, words) == table \in Tables /\ words <= BufWords

UploadSelect ==
    LET fits == Fits(dCmd.operand, dArg.lo)
    IN  /\ Case("UPLOAD_SELECT", IF fits THEN "OK" ELSE "BAD_ARG")
        /\ up' = IF fits
                 THEN [table |-> dCmd.operand, next |-> 0, left |-> dArg.lo]
                 ELSE NoUpload
        /\ UNCHANGED buf

UploadNothing ==
    /\ up.left = 0
    /\ Case("UPLOAD_DATA", "BAD_ARG")
    /\ UNCHANGED <<up, buf>>

\* Mutants of DataWords: off by one; always two.
DataWordsFewer == IF up.left > 2 THEN 2 ELSE 1
DataWordsTwo == 2

\* The words a command stores: two, or the last one of an odd number.
DataWords == IF up.left > 1 THEN 2 ELSE 1

UploadData ==
    /\ up.left > 0
    /\ Case("UPLOAD_DATA", "OK")
    /\ up' = [up EXCEPT !.next = @ + DataWords, !.left = @ - DataWords]
    /\ buf' = [buf EXCEPT ![up.table] = [i \in DOMAIN @ |->
                 IF i = up.next THEN dArg.hi
                 ELSE IF DataWords = 2 /\ i = up.next + 1 THEN dArg.lo ELSE @[i]]]

\* The job runs dArg.lo times; app_job() fails for an unknown job.
Run ==
    /\ Case("RUN", IF dArg.lo > 0 /\ dCmd.operand \notin Jobs
                   THEN "BAD_ARG" ELSE "OK")
    /\ UNCHANGED <<up, buf>>

\* app_send(), app_param(): any status the examples return.
SendOrParam ==
    /\ \E status \in {"OK", "BAD_ARG", "DMA_ERROR"} :
         \/ Case("SEND", status)
         \/ status # "DMA_ERROR" /\ Case("PARAM", status)
    /\ UNCHANGED <<up, buf>>

Stats == Case("STATS", "OK") /\ UNCHANGED <<up, buf>>

BadCommand == Case("NONE", "BAD_CMD") /\ UNCHANGED <<up, buf>>

\* reply(): the values sent are those of the command being executed.
ReplyValue == IF dCmd.op = "NONE" THEN NoValue ELSE Value(served, dPart)

Reply0 ==
    /\ dPc = "rep0"
    /\ apbpSendData(0, [seq |-> dCmd.seq, part |-> dPart, status |-> dStatus])
    /\ dPc' = "rep1"
    /\ UNCHANGED <<armVars, dCmd, dArg, lastSeq, repeated, up, buf, dStatus,
                   dPart, served>>

Reply1 ==
    /\ dPc = "rep1"
    /\ apbpSendData(1, ReplyValue)
    /\ dPc' = "rep2"
    /\ UNCHANGED <<armVars, dCmd, dArg, lastSeq, repeated, up, buf, dStatus,
                   dPart, served>>

\* After the first reply of a RUN comes its second one.
Reply2 ==
    /\ dPc = "rep2"
    /\ apbpSendData(2, ReplyValue)
    /\ IF dCmd.op = "RUN" /\ dPart = 0
       THEN dPart' = 1 /\ dPc' = "rep0"
       ELSE dPart' = dPart /\ dPc' = "receive"
    /\ UNCHANGED <<armVars, dCmd, dArg, lastSeq, repeated, up, buf, dStatus,
                   served>>

-----------------------------------------------------------------------------
\* The ARM9 inside a call.
Arm9 == \/ SendArgHigh \/ SendArgLow \/ SendCmd
        \/ ReceiveRep0 \/ ReceiveRep1 \/ ReceiveRep2 \/ UploadNext \/ Return

Dsp == \/ Receive \/ ReadArgHigh \/ ReadArgLow
       \/ UploadSelect \/ UploadNothing \/ UploadData \/ Run \/ SendOrParam
       \/ Stats \/ BadCommand
       \/ Reply0 \/ Reply1 \/ Reply2

Fault == ReceiveAgain \/ ReadOldReply

Next == Call \/ Arm9 \/ Dsp \/ Fault

Spec == Init /\ [][Next]_vars

\* Both CPUs keep running; the ARM9 need not make another call.
FairSpec == Spec /\ WF_vars(Arm9) /\ WF_vars(Dsp)

-----------------------------------------------------------------------------
(* Properties *)

\* The states of the ARM9 and of the DSP.
Sending == {"send1", "send2", "send0"}
Awaiting == {"rep0", "rep1", "rep2"}
Between == {"idle", "return"}
Reading == {"arg1", "arg2", "execute"}
Replying == {"rep0", "rep1", "rep2"}

\* What CMD0 and REP0 can hold.
Cmd0Values == [op : Ops \cup {"NONE"}, seq : 0 .. SeqCount,
               operand : Operands \cup {NoTable}]
Rep0Values == [seq : 0 .. SeqCount, part : {0, 1}, status : Statuses]

ApbpTypeOK ==
    /\ DOMAIN cmd = Channels /\ DOMAIN rep = Channels
    /\ cmd[0] \in Cmd0Values /\ cmd[1] \in Nat /\ cmd[2] \in Nat
    /\ rep[0] \in Rep0Values /\ rep[1] \in Values /\ rep[2] \in Values
    /\ cmdNew \in [Channels -> BOOLEAN] /\ repUnread \in [Channels -> BOOLEAN]

ArmTypeOK ==
    /\ aPc \in Sending \cup Awaiting \cup Between
    /\ aCall \in [op : Ops, operand : Operands \cup {NoTable}, n : Nat]
    /\ aCmd \in [op : Ops, operand : Operands \cup {NoTable}, hi : Nat, lo : Nat]
    /\ aRep0 \in Rep0Values /\ aHigh \in Values
    /\ aGot \in [status : Statuses, first : Values \X Values,
                 second : Values \X Values]
    /\ seq \in 0 .. SeqCount /\ aPart \in {0, 1} /\ aIndex \in Nat
    /\ stale \in Nat /\ sent \in Nat

DspTypeOK ==
    /\ dPc \in {"receive"} \cup Reading \cup Replying
    /\ dCmd \in Cmd0Values /\ dArg \in [hi : Nat, lo : Nat]
    /\ lastSeq \in 0 .. NoSeq /\ dStatus \in Statuses /\ dPart \in {0, 1}
    /\ up \in [table : Operands \cup {NoTable}, next : Nat, left : Nat]
    /\ buf \in [Tables -> [0 .. BufWords - 1 -> Nat]]
    /\ served \in Nat /\ repeated \in Nat

\* Every variable holds a value of its type.
TypeOK == ApbpTypeOK /\ ArmTypeOK /\ DspTypeOK

\* While the ARM9 is not sending, its calls have been served or the last one
\* is the next to be: no command is served twice and none is skipped, although
\* the DSP sees commands again (the sequence numbers of main()).
ExactlyOnce ==
    /\ served \in {sent - 1, sent} \cap Nat
    /\ aPc \in Between => served = sent
    /\ aPc \in Sending => served = sent - 1

\* When main() switches on a command it holds the argument that was sent with
\* it, although it reads CMD1 and CMD2 without waiting for their flags.
ArgumentMatches ==
    dPc = "execute" /\ dCmd.op # "NONE" =>
        /\ dCmd = [op |-> aCmd.op, seq |-> seq, operand |-> aCmd.operand]
        /\ dArg = [hi |-> aCmd.hi, lo |-> aCmd.lo]

\* What receive() returned is the reply of the command that was sent: status
\* and both halves of every value, for both replies of a RUN.
ReplyMatches ==
    aPc = "return" =>
        /\ aGot.status = dStatus
        /\ aGot.first = <<Value(sent, 0), Value(sent, 0)>>
        /\ aGot.second = IF aCmd.op = "RUN"
                         THEN <<Value(sent, 1), Value(sent, 1)>> ELSE NoPair

\* When proto_upload() has returned PROTO_STATUS_OK the table in the DSP holds
\* the data.
UploadIntact ==
    aPc = "idle" /\ aCall.op = "UPLOAD_SELECT" /\ aGot.status = "OK" /\ sent > 0
        => \A i \in 0 .. aCall.n - 1 : buf[aCall.operand][i] = Word(i)

\* main() never stores past the end of a table.
UploadInBounds ==
    up.left > 0 => up.table \in Tables /\ up.next + up.left <= BufWords

\* A word of a table changes only while the ARM9 waits inside proto_upload(),
\* in the table it named and within the number of words it announced.
UploadConfined ==
    [][\A t \in Tables : \A i \in 0 .. BufWords - 1 :
         buf'[t][i] # buf[t][i] =>
            /\ aPc = "rep0" /\ aCall.op = "UPLOAD_SELECT"
            /\ t = aCall.operand /\ i < aCall.n]_vars

\* Every call returns: neither a repeated command nor an old reply makes the
\* two CPUs wait for each other.
CallReturns == aPc # "idle" ~> aPc = "idle"

\* The protocol implements the remote call of ProtoServer.
Joined(pair) == IF pair[1] = pair[2] THEN pair[1] ELSE pair
Server == INSTANCE ProtoServer WITH
    stage <- IF aPc \in Between THEN "idle"
             ELSE IF served = sent THEN "answered" ELSE "asked",
    ask <- aCmd,
    ans <- IF aPc \in Between \/ served # sent
           THEN [status |-> "OK", values |-> <<NoValue, NoValue>>]
           ELSE [status |-> dStatus,
                 values |-> <<Value(served, 0),
                   IF aCmd.op = "RUN" THEN Value(served, 1) ELSE NoValue>>],
    got <- IF aPc \in Between
           THEN [status |-> aGot.status,
                 values |-> <<Joined(aGot.first), Joined(aGot.second)>>]
           ELSE [status |-> "OK", values |-> <<NoValue, NoValue>>]
RemoteCall == Server!Spec

-----------------------------------------------------------------------------
(* The inductive invariant: how far each CPU is, told by the registers. *)

\* The command as written to CMD0.
SentCmd == [op |-> aCmd.op, seq |-> seq, operand |-> aCmd.operand]

\* The DSP executes what it saw in CMD0 before the first command.
Spurious == dPc # "receive" /\ dCmd.op = "NONE"

\* CMD0 holds the last command or, while the next one is being sent, the one
\* before it; CMD1 and CMD2 hold what has been written of the argument.
CommandInv ==
    /\ sent = 0 => seq = 0 /\ aPc = "idle"
    /\ sent > 0 => seq > 0
    /\ aPc \in Sending => seq = NextSeq(cmd[0].seq)
    /\ aPc \notin Sending => seq = cmd[0].seq
    /\ aPc \in Awaiting => cmd[0] = SentCmd
    /\ aPc \in {"send2", "send0"} \cup Awaiting => cmd[1] = aCmd.hi
    /\ aPc \in {"send0"} \cup Awaiting => cmd[2] = aCmd.lo
    /\ cmd[0].op = "NONE" <=> cmd[0].seq = 0
    /\ cmd[0].op = "NONE" => served = 0
    /\ aPc \notin Awaiting /\ served = 0 => cmd[0].op = "NONE"

\* What the DSP has seen of the last command.
ServeInv ==
    /\ ExactlyOnce
    /\ cmdNew[0] => aPc \in Awaiting /\ served = sent - 1 /\ lastSeq # seq
    /\ ~cmdNew[0] /\ dPc = "receive" =>
         /\ aPc \in Awaiting => served = sent
         /\ lastSeq # cmd[0].seq => lastSeq = NoSeq /\ cmd[0].op = "NONE"
    /\ Spurious =>
         /\ served = 0 /\ lastSeq = 0 /\ dCmd.seq = 0
         /\ aPc \in Awaiting => cmdNew[0]
    /\ dPc # "receive" /\ ~Spurious =>
         /\ aPc \in Awaiting /\ ~cmdNew[0] /\ lastSeq = seq /\ dCmd = SentCmd
         /\ dPc \in Reading => served = sent - 1
         /\ dPc \in Replying => served = sent
         /\ dPc \in {"arg2", "execute"} => dArg.hi = aCmd.hi
         /\ dPc = "execute" => dArg.lo = aCmd.lo
    /\ aPc \in Awaiting /\ served = sent => dCmd = SentCmd /\ lastSeq = seq
    /\ dPart = 1 /\ dPc \in Replying => dCmd.op = "RUN"

\* How many registers of a reply the ARM9 has read and the DSP has written.
Read == CASE aPc = "rep1" -> 1 [] aPc = "rep2" -> 2 [] OTHER -> 0
Written == CASE dPc = "rep1" -> 1 [] dPc = "rep2" -> 2 [] OTHER -> 0

\* The ARM9 reads the reply that the DSP is writing ...
SameReply ==
    /\ Read <= Written
    /\ \A i \in Channels : repUnread[i] <=> Read <= i /\ i < Written

\* ... or the one before it, which the DSP has written completely.
ReplyBefore ==
    /\ Written <= Read
    /\ \A i \in Channels : repUnread[i] <=> i < Written \/ Read <= i

\* REP0 of the reply that the DSP is writing, and of the one the ARM9 reads.
WrittenRep0 == [seq |-> dCmd.seq, part |-> dPart, status |-> dStatus]
ReadRep0 == IF Read = 0 THEN rep[0] ELSE aRep0

\* The reply the ARM9 is reading, when it is complete: that of the spurious
\* command, or a reply to the command sent, and the one it waits for.
CompleteInv ==
    \/ /\ ReadRep0.seq = 0
       /\ aPc \in Between => served = 0
       /\ aPc \in Awaiting /\ served = sent => dPc \in Replying /\ dPart = aPart
    \/ /\ ReadRep0.seq = seq /\ seq > 0
       /\ aPc \in Awaiting /\ served = sent
       /\ ReadRep0.part = aPart /\ ReadRep0.status = dStatus
       /\ rep[2] = Value(sent, aPart)
       /\ \/ dPc = "receive" /\ dPart = aPart
          \/ dPc \in Replying /\ dPart = 1 /\ aPart = 0
       /\ dPc = "receive" => (aCmd.op = "RUN" => aPart = 1)

ReplyInv ==
    /\ SameReply \/ ReplyBefore
    /\ Written >= 1 => rep[0] = WrittenRep0
    /\ Written = 2 => rep[1] = ReplyValue
    /\ SameReply =>
         /\ Read >= 1 => aRep0 = WrittenRep0
         /\ Read = 2 => aHigh = ReplyValue
         /\ dPc \in Replying /\ ~Spurious => dPart = aPart
         /\ aPc \in Awaiting /\ Written = 0 => ~IsAwaited(rep[0])
         /\ aPc \in Awaiting /\ served = sent => dPc \in Replying
    /\ ReplyBefore =>
         /\ ~Spurious /\ lastSeq # NoSeq
         /\ Written = 0 => rep[0] = ReadRep0
         /\ Written <= 1 => rep[1] = rep[2]
         /\ Read = 2 => aHigh = rep[2]
         /\ CompleteInv
    /\ aPc \in Between => rep[0].seq = seq
    /\ aPc \in Sending => rep[0].seq # seq

\* What the calls of receive() have returned so far.
GotInv ==
    /\ ReplyMatches
    /\ aPart = 0 => aGot.second = NoPair
    /\ aPart = 1 =>
         /\ aCmd.op = "RUN" /\ sent > 0 /\ served = sent
         /\ aGot.first = <<Value(sent, 0), Value(sent, 0)>>
         /\ aGot.status = dStatus
    /\ aCall.op = "UPLOAD_SELECT" => aCmd.op # "RUN"

Inv == UploadInBounds /\ CommandInv /\ ServeInv /\ ReplyInv /\ GotInv
=============================================================================
