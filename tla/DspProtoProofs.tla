--------------------------- MODULE DspProtoProofs ---------------------------
(***************************************************************************)
(* Proofs about DspProto, for every number of sequence numbers (at least   *)
(* two), every set of tables, jobs and calls and every bound.              *)
(*                                                                         *)
(* First type correctness.  Then the inductive invariant Inv is preserved  *)
(* by every step of the two CPUs and by both faults; it implies that       *)
(* commands are served exactly once with their own argument and that       *)
(* replies reach the call they belong to.  One lemma per part of Inv, each *)
(* with one step per action.  The argument that carries the others is in   *)
(* ReplyInv: the DSP is at most one reply ahead of the ARM9, because       *)
(* apbpSendData() waits for REP0, REP1 and REP2 in turn (SameReply or      *)
(* ReplyBefore).                                                           *)
(*                                                                         *)
(* Then what the protocol promises the program on the ARM9: uploads        *)
(* arrive, and change nothing but their table, and the protocol implements *)
(* the remote calls of ProtoServer.  Both follow from Inv; the uploads     *)
(* need UploadInv besides: what a sequence of commands that are served     *)
(* once has stored.                                                        *)
(***************************************************************************)
EXTENDS DspProto, TLAPS

\* The next sequence number is a valid one and differs from the last.
LEMMA NextSeqDiffers ==
    ASSUME NEW n \in 0 .. SeqCount
    PROVE  NextSeq(n) \in 1 .. SeqCount /\ NextSeq(n) # n
<1>1. SeqCount \in Nat /\ SeqCount >= 2
  BY ProtoAssumption
<1>2. CASE n < SeqCount
  <2>1. n % SeqCount = n
    BY <1>1, <1>2
  <2>2. QED
    BY <1>1, <1>2, <2>1 DEF NextSeq
<1>3. CASE n = SeqCount
  <2>1. n % SeqCount = 0
    BY <1>1, <1>3
  <2>2. QED
    BY <1>1, <1>3, <2>1 DEF NextSeq
<1>4. QED
  BY <1>1, <1>2, <1>3

\* The values the ARM9 uploads are words.
LEMMA WordType ==
    ASSUME ArmTypeOK, NEW i \in Nat
    PROVE  Word(i) \in Nat
  BY DEF ArmTypeOK, Word

\* The variables have their types after both CPUs have started.
LEMMA InitTypeOK == Init => TypeOK
<1> SUFFICES ASSUME Init PROVE TypeOK
  OBVIOUS
<1> USE DEF Init, Ops, Statuses, Values, Value, NoValue, NoPair, NoReply,
        Nothing, Cmd0Values, Rep0Values
<1>1. ApbpTypeOK
  BY ProtoAssumption DEF ApbpInit, ApbpTypeOK, Channels
<1>2. ArmTypeOK
  BY ProtoAssumption DEF ArmTypeOK, Sending, Awaiting, Between
<1>3. DspTypeOK
  BY ProtoAssumption DEF DspTypeOK, Reading, Replying, NoUpload, NoSeq
<1>4. QED
  BY <1>1, <1>2, <1>3 DEF TypeOK

\* The accesses of the mailbox keep the types of its registers.
LEMMA ApbpTypes ==
    ASSUME ApbpTypeOK
    PROVE  /\ UNCHANGED apbpVars => ApbpTypeOK'
           /\ \A id \in Channels : LoadCmd(id) \/ dspReceiveData(id) => ApbpTypeOK'
           /\ \A c \in Cmd0Values : dspSendData(0, c) => ApbpTypeOK'
           /\ \A w \in Nat : dspSendData(1, w) \/ dspSendData(2, w) => ApbpTypeOK'
           /\ \A r \in Rep0Values : apbpSendData(0, r) => ApbpTypeOK'
           /\ \A v \in Values :
                apbpSendData(1, v) \/ apbpSendData(2, v) => ApbpTypeOK'
<1> USE DEF ApbpTypeOK, Channels
<1>1. UNCHANGED apbpVars => ApbpTypeOK'
  BY DEF apbpVars
<1>2. ASSUME NEW id \in Channels, LoadCmd(id) PROVE ApbpTypeOK'
  BY <1>2 DEF LoadCmd
<1>3. ASSUME NEW id \in Channels, dspReceiveData(id) PROVE ApbpTypeOK'
  BY <1>3 DEF dspReceiveData
<1>4. ASSUME NEW c \in Cmd0Values, dspSendData(0, c) PROVE ApbpTypeOK'
  BY <1>4 DEF dspSendData
<1>5. ASSUME NEW w \in Nat, dspSendData(1, w) PROVE ApbpTypeOK'
  BY <1>5 DEF dspSendData
<1>6. ASSUME NEW w \in Nat, dspSendData(2, w) PROVE ApbpTypeOK'
  BY <1>6 DEF dspSendData
<1>7. ASSUME NEW r \in Rep0Values, apbpSendData(0, r) PROVE ApbpTypeOK'
  BY <1>7 DEF apbpSendData
<1>8. ASSUME NEW v \in Values, apbpSendData(1, v) PROVE ApbpTypeOK'
  BY <1>8 DEF apbpSendData
<1>9. ASSUME NEW v \in Values, apbpSendData(2, v) PROVE ApbpTypeOK'
  BY <1>9 DEF apbpSendData
<1>10. QED
  BY <1>1, <1>2, <1>3, <1>4, <1>5, <1>6, <1>7, <1>8, <1>9

\* Delivering a reply keeps the types of the ARM9.
LEMMA DeliverType ==
    ASSUME ArmTypeOK, NEW r \in Rep0Values, NEW hi \in Values, NEW lo \in Values,
           Deliver(r, hi, lo),
           UNCHANGED <<aCall, aIndex, aCmd, seq, aRep0, aHigh, sent>>
    PROVE  ArmTypeOK'
<1>1. r.status \in Statuses /\ <<hi, lo>> \in Values \X Values
  BY DEF Rep0Values
<1>2. CASE IsAwaited(r) /\ aPart = 0
  BY <1>1, <1>2 DEF ArmTypeOK, Deliver, Awaiting, Between
<1>3. CASE IsAwaited(r) /\ aPart # 0
  BY <1>1, <1>3 DEF ArmTypeOK, Deliver, Awaiting, Between
<1>4. CASE ~IsAwaited(r)
  BY <1>4 DEF ArmTypeOK, Deliver, Awaiting
<1>5. QED
  BY <1>2, <1>3, <1>4

\* So does the start of a command.
LEMMA SendType ==
    ASSUME ArmTypeOK, NEW op \in Ops, NEW operand \in Operands, NEW hi \in Nat,
           NEW lo \in Nat, Send(op, operand, hi, lo),
           aCall' \in [op : Ops, operand : Operands \cup {NoTable}, n : Nat],
           aIndex' \in Nat,
           aGot' \in [status : Statuses, first : Values \X Values,
                      second : Values \X Values]
    PROVE  ArmTypeOK'
  BY NextSeqDiffers, ProtoAssumption DEF ArmTypeOK, Send, Sending

\* Every step of the ARM9 keeps the types.
LEMMA ArmSteps == TypeOK /\ (Call \/ Arm9 \/ ReadOldReply) => TypeOK'
<1> SUFFICES ASSUME TypeOK, Call \/ Arm9 \/ ReadOldReply PROVE TypeOK'
  OBVIOUS
<1>1. ApbpTypeOK /\ ArmTypeOK /\ DspTypeOK
  BY DEF TypeOK
<1>2. UNCHANGED dspVars => DspTypeOK'
  BY <1>1 DEF dspVars, DspTypeOK
<1>3. 0 \in Channels /\ 1 \in Channels /\ 2 \in Channels
  BY DEF Channels
<1>4. CASE Call
  <2> PICK c \in Calls : aCall' = c /\ Send(c.op, c.operand, 0, c.n)
    BY <1>4 DEF Call
  <2>1. c \in [op : Ops, operand : Operands, n : Nat]
    BY ProtoAssumption
  <2>2. aGot' \in [status : Statuses, first : Values \X Values,
                   second : Values \X Values]
    BY <1>4 DEF Call, NoPair, NoValue, Value, Values, Statuses
  <2>3. ArmTypeOK'
    BY <1>1, <1>4, <2>1, <2>2, SendType DEF Call
  <2>4. QED
    BY <1>1, <1>2, <1>4, <2>3, ApbpTypes DEF Call, TypeOK
<1>5. CASE SendArgHigh
  <2>1. ArmTypeOK'
    BY <1>1, <1>5 DEF SendArgHigh, ArmTypeOK, Sending
  <2>2. aCmd.hi \in Nat
    BY <1>1 DEF ArmTypeOK
  <2>3. QED
    BY <1>1, <1>2, <1>5, <2>1, <2>2, ApbpTypes DEF SendArgHigh, TypeOK
<1>6. CASE SendArgLow
  <2>1. ArmTypeOK'
    BY <1>1, <1>6 DEF SendArgLow, ArmTypeOK, Sending
  <2>2. aCmd.lo \in Nat
    BY <1>1 DEF ArmTypeOK
  <2>3. QED
    BY <1>1, <1>2, <1>6, <2>1, <2>2, ApbpTypes DEF SendArgLow, TypeOK
<1>7. CASE SendCmd
  <2>1. ArmTypeOK'
    BY <1>1, <1>7 DEF SendCmd, ArmTypeOK, Awaiting
  <2>2. [op |-> aCmd.op, seq |-> seq, operand |-> aCmd.operand] \in Cmd0Values
    BY <1>1 DEF ArmTypeOK, Cmd0Values
  <2>3. QED
    BY <1>1, <1>2, <1>7, <2>1, <2>2, ApbpTypes DEF SendCmd, TypeOK
<1>8. CASE ReceiveRep0
  <2>1. ArmTypeOK'
    BY <1>1, <1>8 DEF ReceiveRep0, ApbpTypeOK, ArmTypeOK, Awaiting
  <2>2. QED
    BY <1>1, <1>2, <1>3, <1>8, <2>1, ApbpTypes DEF ReceiveRep0, TypeOK
<1>9. CASE ReceiveRep1
  <2>1. ArmTypeOK'
    BY <1>1, <1>9 DEF ReceiveRep1, ApbpTypeOK, ArmTypeOK, Awaiting
  <2>2. QED
    BY <1>1, <1>2, <1>3, <1>9, <2>1, ApbpTypes DEF ReceiveRep1, TypeOK
<1>10. CASE ReceiveRep2
  <2>1. aRep0 \in Rep0Values /\ aHigh \in Values /\ rep[2] \in Values
    BY <1>1 DEF ArmTypeOK, ApbpTypeOK
  <2>2. ArmTypeOK'
    BY <1>1, <1>10, <2>1, DeliverType DEF ReceiveRep2
  <2>3. QED
    BY <1>1, <1>2, <1>3, <1>10, <2>2, ApbpTypes DEF ReceiveRep2, TypeOK
<1>11. CASE ReadOldReply
  <2>1. rep[0] \in Rep0Values /\ rep[1] \in Values /\ rep[2] \in Values
    BY <1>1 DEF ApbpTypeOK
  <2>2. ArmTypeOK'
    BY <1>1, <1>11, <2>1, DeliverType DEF ReadOldReply
  <2>3. QED
    BY <1>1, <1>2, <1>11, <2>2, ApbpTypes DEF ReadOldReply, TypeOK
<1>12. CASE UploadNext
  <2>1. Word(aIndex) \in Nat /\ Word(aIndex + 1) \in Nat /\ aIndex' \in Nat
    BY <1>1, <1>12, WordType DEF UploadNext, ArmTypeOK
  <2>2. "UPLOAD_DATA" \in Ops /\ 0 \in Operands
    BY ProtoAssumption DEF Ops
  <2>3. ArmTypeOK'
    BY <1>1, <1>12, <2>1, <2>2, SendType DEF UploadNext, ArmTypeOK
  <2>4. QED
    BY <1>1, <1>2, <1>12, <2>3, ApbpTypes DEF UploadNext, TypeOK
<1>13. CASE Return
  <2>1. ArmTypeOK'
    BY <1>1, <1>13 DEF Return, ArmTypeOK, Between
  <2>2. QED
    BY <1>1, <1>2, <1>13, <2>1, ApbpTypes DEF Return, TypeOK
<1>14. QED
  BY <1>4, <1>5, <1>6, <1>7, <1>8, <1>9, <1>10, <1>11, <1>12, <1>13 DEF Arm9

\* Every case of the switch keeps the types.
LEMMA CaseType ==
    ASSUME DspTypeOK, NEW op, NEW status \in Statuses, Case(op, status),
           up' \in [table : Operands \cup {NoTable}, next : Nat, left : Nat],
           buf' \in [Tables -> [0 .. BufWords - 1 -> Nat]]
    PROVE  DspTypeOK'
  BY DEF DspTypeOK, Case, Replying

\* Dispatching a command keeps the types of the DSP.
LEMMA DispatchType ==
    ASSUME DspTypeOK, NEW c \in Cmd0Values, Dispatch(c),
           UNCHANGED <<dArg, up, buf, dStatus, dPart, served>>
    PROVE  DspTypeOK'
  BY ProtoAssumption DEF DspTypeOK, Dispatch, Cmd0Values, NoSeq, Reading

\* Every step of the DSP keeps the types.
LEMMA DspSteps == TypeOK /\ (Dsp \/ ReceiveAgain) => TypeOK'
<1> SUFFICES ASSUME TypeOK, Dsp \/ ReceiveAgain PROVE TypeOK'
  OBVIOUS
<1>1. ApbpTypeOK /\ ArmTypeOK /\ DspTypeOK
  BY DEF TypeOK
<1>2. UNCHANGED armVars => ArmTypeOK'
  BY <1>1 DEF armVars, ArmTypeOK
<1>3. 0 \in Channels /\ 1 \in Channels /\ 2 \in Channels
  BY DEF Channels
<1>4. Statuses = {"OK", "BAD_CMD", "BAD_ARG", "DMA_ERROR"}
  BY DEF Statuses
<1>5. /\ up \in [table : Operands \cup {NoTable}, next : Nat, left : Nat]
      /\ buf \in [Tables -> [0 .. BufWords - 1 -> Nat]]
  BY <1>1 DEF DspTypeOK
<1>6. ASSUME NEW op, NEW status \in Statuses, Case(op, status), DspTypeOK'
      PROVE  TypeOK'
  BY <1>1, <1>2, <1>6, ApbpTypes DEF Case, TypeOK
<1>7. ASSUME NEW op, NEW status \in Statuses, Case(op, status),
             UNCHANGED <<up, buf>>
      PROVE  TypeOK'
  BY <1>1, <1>5, <1>6, <1>7, CaseType
<1>8. cmd[0] \in Cmd0Values
  BY <1>1 DEF ApbpTypeOK
<1>9. CASE Receive
  <2>1. LoadCmd(0) /\ Dispatch(cmd[0])
    BY <1>9 DEF Receive, apbpReceiveData
  <2>2. DspTypeOK'
    BY <1>1, <1>8, <1>9, <2>1, DispatchType DEF Receive
  <2>3. QED
    BY <1>1, <1>2, <1>3, <1>9, <2>1, <2>2, ApbpTypes DEF Receive, TypeOK
<1>10. CASE ReceiveAgain
  <2>1. DspTypeOK'
    BY <1>1, <1>8, <1>10, DispatchType DEF ReceiveAgain
  <2>2. QED
    BY <1>1, <1>2, <1>10, <2>1, ApbpTypes DEF ReceiveAgain, TypeOK
<1>11. CASE ReadArgHigh
  <2>1. DspTypeOK'
    BY <1>1, <1>11 DEF ReadArgHigh, ApbpTypeOK, DspTypeOK, Reading
  <2>2. QED
    BY <1>1, <1>2, <1>3, <1>11, <2>1, ApbpTypes DEF ReadArgHigh, TypeOK
<1>12. CASE ReadArgLow
  <2>1. DspTypeOK'
    BY <1>1, <1>12 DEF ReadArgLow, ApbpTypeOK, DspTypeOK, Reading
  <2>2. QED
    BY <1>1, <1>2, <1>3, <1>12, <2>1, ApbpTypes DEF ReadArgLow, TypeOK
<1>13. CASE UploadSelect
  <2>1. PICK status \in Statuses : Case("UPLOAD_SELECT", status)
    BY <1>4, <1>13 DEF UploadSelect
  <2>2. up' \in [table : Operands \cup {NoTable}, next : Nat, left : Nat]
    <3>1. dArg.lo \in Nat /\ Tables \subseteq Operands
      BY <1>1, ProtoAssumption DEF DspTypeOK
    <3>2. QED
      BY <1>13, <3>1 DEF UploadSelect, Fits, NoUpload
  <2>3. QED
    BY <1>1, <1>5, <1>6, <1>13, <2>1, <2>2, CaseType DEF UploadSelect
<1>14. CASE UploadNothing
  BY <1>4, <1>7, <1>14 DEF UploadNothing
<1>15. CASE UploadData
  <2>1. Case("UPLOAD_DATA", "OK") /\ "OK" \in Statuses
    BY <1>4, <1>15 DEF UploadData
  <2>2. up' \in [table : Operands \cup {NoTable}, next : Nat, left : Nat]
    <3>1. up.next \in Nat /\ up.left \in Nat /\ up.left > 0
      BY <1>5, <1>15 DEF UploadData
    <3>2. up.next + DataWords \in Nat /\ up.left - DataWords \in Nat
      BY <3>1 DEF DataWords
    <3>3. up' = [up EXCEPT !.next = up.next + DataWords,
                           !.left = up.left - DataWords]
      BY <1>15 DEF UploadData
    <3>4. QED
      BY <1>5, <3>2, <3>3
  <2>3. buf' \in [Tables -> [0 .. BufWords - 1 -> Nat]]
    <3>1. dArg.hi \in Nat /\ dArg.lo \in Nat
      BY <1>1 DEF DspTypeOK
    <3>2. CASE up.table \in Tables
      <4> DEFINE row == [i \in DOMAIN buf[up.table] |->
                   IF i = up.next THEN dArg.hi
                   ELSE IF DataWords = 2 /\ i = up.next + 1 THEN dArg.lo
                        ELSE buf[up.table][i]]
      <4>1. row \in [0 .. BufWords - 1 -> Nat]
        BY <1>5, <3>1, <3>2
      <4>2. buf' = [buf EXCEPT ![up.table] = row]
        BY <1>15 DEF UploadData
      <4>3. QED
        BY <1>5, <4>1, <4>2
    <3>3. CASE up.table \notin Tables
      BY <1>5, <1>15, <3>3 DEF UploadData
    <3>4. QED
      BY <3>2, <3>3
  <2>4. QED
    BY <1>1, <1>6, <2>1, <2>2, <2>3, CaseType
<1>16. CASE Run
  <2>1. PICK status \in Statuses : Case("RUN", status)
    BY <1>4, <1>16 DEF Run
  <2>2. QED
    BY <1>7, <1>16, <2>1 DEF Run
<1>17. CASE SendOrParam
  <2>1. PICK op \in Ops, status \in Statuses : Case(op, status)
    <3>1. {"OK", "BAD_ARG", "DMA_ERROR"} \subseteq Statuses
      BY <1>4
    <3>2. "SEND" \in Ops /\ "PARAM" \in Ops
      BY DEF Ops
    <3>3. QED
      BY <1>17, <3>1, <3>2, Zenon DEF SendOrParam
  <2>2. QED
    BY <1>7, <1>17, <2>1 DEF SendOrParam
<1>18. CASE Stats
  BY <1>4, <1>7, <1>18 DEF Stats
<1>19. CASE BadCommand
  BY <1>4, <1>7, <1>19 DEF BadCommand
<1>20. CASE Reply0
  <2>1. [seq |-> dCmd.seq, part |-> dPart, status |-> dStatus] \in Rep0Values
    BY <1>1 DEF DspTypeOK, Cmd0Values, Rep0Values
  <2>2. DspTypeOK'
    BY <1>1, <1>20 DEF Reply0, DspTypeOK, Replying
  <2>3. QED
    BY <1>1, <1>2, <1>20, <2>1, <2>2, ApbpTypes DEF Reply0, TypeOK
<1>21. ReplyValue \in Values
  BY <1>1 DEF ReplyValue, DspTypeOK, Values, Value, NoValue
<1>22. CASE Reply1
  <2>1. DspTypeOK'
    BY <1>1, <1>22 DEF Reply1, DspTypeOK, Replying
  <2>2. QED
    BY <1>1, <1>2, <1>21, <1>22, <2>1, ApbpTypes DEF Reply1, TypeOK
<1>23. CASE Reply2
  <2>1. DspTypeOK'
    BY <1>1, <1>23 DEF Reply2, DspTypeOK, Replying
  <2>2. QED
    BY <1>1, <1>2, <1>21, <1>23, <2>1, ApbpTypes DEF Reply2, TypeOK
<1>24. QED
  BY <1>9, <1>10, <1>11, <1>12, <1>13, <1>14, <1>15, <1>16, <1>17, <1>18,
     <1>19, <1>20, <1>22, <1>23 DEF Dsp

\* Type correctness: every register and every variable of both CPUs keeps its
\* type in every behaviour.
THEOREM TypeCorrect == Spec => []TypeOK
<1>1. TypeOK /\ [Next]_vars => TypeOK'
  <2>1. TypeOK /\ Next => TypeOK'
    BY ArmSteps, DspSteps DEF Next, Fault
  <2>2. TypeOK /\ UNCHANGED vars => TypeOK'
    BY DEF TypeOK, ApbpTypeOK, ArmTypeOK, DspTypeOK, vars, armVars, dspVars,
       apbpVars
  <2>3. QED
    BY <2>1, <2>2
<1>2. QED
  BY InitTypeOK, <1>1, PTL DEF Spec

-----------------------------------------------------------------------------
(* The inductive invariant *)

\* A case of the switch for a command of the ARM9.
Serves ==
    /\ dPc = "execute" /\ dCmd.op # "NONE"
    /\ dPc' = "rep0" /\ dPart' = 0 /\ served' = served + 1
    /\ UNCHANGED <<apbpVars, armVars, dCmd, dArg, lastSeq, repeated>>

\* Every case of the switch but the default one.
LEMMA CaseServes ==
    UploadSelect \/ UploadNothing \/ UploadData \/ Run \/ SendOrParam \/ Stats
        => Serves
<1>1. ASSUME NEW op, NEW status, Case(op, status), op # "NONE"
      PROVE  Serves
  BY <1>1 DEF Case, Serves
<1>2. QED
  BY <1>1 DEF UploadSelect, UploadNothing, UploadData, Run, SendOrParam, Stats

\* A reply has three registers.
LEMMA Progress == Read \in 0 .. 2 /\ Written \in 0 .. 2
  BY DEF Read, Written

\* receive() reads REP2: the reply is the complete one before, and when it is
\* the awaited one it is that of the command sent.
LEMMA LastRead ==
    ASSUME TypeOK, Inv, ReceiveRep2
    PROVE  /\ ReplyBefore /\ ~Spurious /\ Read = 2
           /\ aHigh = rep[2] /\ ReadRep0 = aRep0
           /\ IsAwaited(aRep0) <=> aRep0.seq # 0
           /\ IsAwaited(aRep0) =>
                /\ served = sent /\ sent > 0 /\ rep[2] = Value(sent, aPart)
                /\ aRep0.status = dStatus
                /\ \/ dPc = "receive" /\ (aCmd.op = "RUN" => aPart = 1)
                   \/ /\ dPc \in Replying /\ dPart = 1
                      /\ aCmd.op = "RUN" /\ aPart = 0
<1>1. Read = 2 /\ repUnread[2] /\ 2 \in Channels /\ aPc = "rep2"
  BY DEF ReceiveRep2, dspReceiveData, Read, Channels
<1>2. ~SameReply
  BY <1>1, Progress DEF SameReply
<1>3. ReplyBefore /\ ~Spurious /\ aHigh = rep[2] /\ CompleteInv
  BY <1>1, <1>2 DEF Inv, ReplyInv
<1>4. ReadRep0 = aRep0
  BY <1>1 DEF ReadRep0
<1>5. seq # 0
  BY <1>1 DEF Inv, CommandInv, Awaiting, TypeOK, ArmTypeOK
<1>6. QED
  <2>1. CASE ReadRep0.seq = 0
    BY <1>1, <1>3, <1>4, <1>5, <2>1 DEF IsAwaited
  <2>2. CASE ReadRep0.seq # 0
    <3>1. dPc \in Replying /\ dPart = 1 => dCmd = SentCmd /\ dCmd.op = "RUN"
      BY <1>1, <1>3, <2>2 DEF CompleteInv, Inv, ServeInv, Awaiting
    <3>2. dPc \in Replying /\ dPart = 1 => aCmd.op = "RUN"
      BY <3>1 DEF SentCmd
    <3>3. ReadRep0.seq = seq /\ ReadRep0.part = aPart /\ sent > 0
      BY <1>1, <1>3, <2>2 DEF CompleteInv, Inv, CommandInv, TypeOK, ArmTypeOK
    <3>4. QED
      BY <1>1, <1>3, <1>4, <2>2, <3>2, <3>3 DEF CompleteInv, IsAwaited
  <2>3. QED
    BY <2>1, <2>2

\* An old reply is read when the DSP has not begun the next one.
LEMMA OldRead ==
    ASSUME TypeOK, Inv, ReadOldReply
    PROVE  SameReply /\ Read = 0 /\ Written = 0 /\ ~IsAwaited(rep[0])
<1>1. aPc = "rep0" /\ Read = 0 /\ \A i \in 0 .. 2 : ~repUnread[i]
  BY DEF ReadOldReply, Read, Channels
<1>2. SameReply
  BY <1>1 DEF Inv, ReplyInv, ReplyBefore, Channels
<1>3. Written = 0
  BY <1>1, <1>2 DEF SameReply, Written, Channels
<1>4. QED
  BY <1>1, <1>2, <1>3 DEF Inv, ReplyInv, Awaiting

\* The command registers.
LEMMA CommandStep ==
    ASSUME TypeOK, Inv, Next
    PROVE  CommandInv'
<1> USE DEF Inv, CommandInv, ServeInv, ExactlyOnce, Channels, vars, armVars,
        dspVars, apbpVars, Sending, Awaiting, Between, Ops, SentCmd, Spurious
<1>1. /\ sent \in Nat /\ served \in Nat /\ seq \in 0 .. SeqCount
      /\ cmd[0].seq \in 0 .. SeqCount /\ DOMAIN cmd = Channels
      /\ aCmd.op \in Ops /\ SeqCount \in Nat
  BY ProtoAssumption DEF TypeOK, ApbpTypeOK, ArmTypeOK, DspTypeOK, Cmd0Values
<1>2. NextSeq(seq) \in 1 .. SeqCount
  BY NextSeqDiffers DEF TypeOK, ArmTypeOK
<1>3. CASE Call
  BY <1>1, <1>2, <1>3 DEF Call, Send
<1>4. CASE SendArgHigh
  BY <1>1, <1>2, <1>4 DEF SendArgHigh, dspSendData
<1>5. CASE SendArgLow
  BY <1>1, <1>2, <1>5 DEF SendArgLow, dspSendData
<1>6. CASE SendCmd
  BY <1>1, <1>2, <1>6 DEF SendCmd, dspSendData
<1>7. CASE ReceiveRep0
  BY <1>1, <1>2, <1>7 DEF ReceiveRep0, dspReceiveData
<1>8. CASE ReceiveRep1
  BY <1>1, <1>2, <1>8 DEF ReceiveRep1, dspReceiveData
<1>9. CASE ReceiveRep2
  BY <1>1, <1>2, <1>9, LastRead DEF ReceiveRep2, dspReceiveData, Deliver
<1>10. CASE ReadOldReply
  BY <1>1, <1>2, <1>10, OldRead DEF ReadOldReply, Deliver
<1>11. CASE UploadNext
  BY <1>1, <1>2, <1>11 DEF UploadNext, Send
<1>12. CASE Return
  BY <1>1, <1>2, <1>12 DEF Return
<1>13. CASE Receive
  BY <1>1, <1>2, <1>13 DEF Receive, apbpReceiveData, LoadCmd, Dispatch,
     IsRepeated
<1>14. CASE ReceiveAgain
  BY <1>1, <1>2, <1>14 DEF ReceiveAgain, Dispatch, IsRepeated
<1>15. CASE ReadArgHigh
  BY <1>1, <1>2, <1>15 DEF ReadArgHigh, LoadCmd
<1>16. CASE ReadArgLow
  BY <1>1, <1>2, <1>16 DEF ReadArgLow, LoadCmd
<1>17. CASE BadCommand
  BY <1>1, <1>2, <1>17 DEF BadCommand, Case
<1>18. CASE Reply0
  BY <1>1, <1>2, <1>18 DEF Reply0, apbpSendData
<1>19. CASE Reply1
  BY <1>1, <1>2, <1>19 DEF Reply1, apbpSendData
<1>20. CASE Reply2
  BY <1>1, <1>2, <1>20 DEF Reply2, apbpSendData
<1>21. CASE Serves
  BY <1>1, <1>2, <1>21 DEF Serves
<1>22. QED
  BY <1>3, <1>4, <1>5, <1>6, <1>7, <1>8, <1>9, <1>10, <1>11, <1>12, <1>13,
     <1>14, <1>15, <1>16, <1>17, <1>18, <1>19, <1>20, <1>21, CaseServes DEF
     Next, Arm9, Dsp, Fault

\* What the DSP has seen of the command.
LEMMA ServeStep ==
    ASSUME TypeOK, Inv, Next
    PROVE  ServeInv'
<1> USE DEF Inv, CommandInv, ServeInv, ExactlyOnce, Channels, vars, armVars,
        dspVars, apbpVars, Sending, Awaiting, Between, Reading, Replying, Ops,
        SentCmd, Spurious
<1>1. /\ sent \in Nat /\ served \in Nat /\ seq \in 0 .. SeqCount
      /\ cmd[0].seq \in 0 .. SeqCount /\ DOMAIN cmd = Channels
      /\ cmdNew \in [Channels -> BOOLEAN]
      /\ aCmd.op \in Ops /\ SeqCount \in Nat
      /\ lastSeq \in 0 .. NoSeq /\ dPart \in {0, 1}
      /\ dCmd.seq \in 0 .. SeqCount
      /\ dArg \in [hi : Nat, lo : Nat]
  BY ProtoAssumption DEF TypeOK, ApbpTypeOK, ArmTypeOK, DspTypeOK, Cmd0Values
<1>2. /\ NextSeq(seq) \in 1 .. SeqCount /\ NextSeq(seq) # seq
      /\ NextSeq(cmd[0].seq) # cmd[0].seq
  BY <1>1, NextSeqDiffers
<1>3. NoSeq > SeqCount
  BY <1>1 DEF NoSeq
<1>4. CASE Call
  BY <1>1, <1>2, <1>3, <1>4 DEF Call, Send
<1>5. CASE SendArgHigh
  BY <1>1, <1>2, <1>3, <1>5 DEF SendArgHigh, dspSendData
<1>6. CASE SendArgLow
  BY <1>1, <1>2, <1>3, <1>6 DEF SendArgLow, dspSendData
<1>7. CASE SendCmd
  BY <1>1, <1>2, <1>3, <1>7 DEF SendCmd, dspSendData
<1>8. CASE ReceiveRep0
  BY <1>1, <1>2, <1>3, <1>8 DEF ReceiveRep0, dspReceiveData
<1>9. CASE ReceiveRep1
  BY <1>1, <1>2, <1>3, <1>9 DEF ReceiveRep1, dspReceiveData
<1>10. CASE ReceiveRep2
  BY <1>1, <1>2, <1>3, <1>10, LastRead DEF ReceiveRep2, dspReceiveData, Deliver
<1>11. CASE ReadOldReply
  BY <1>1, <1>2, <1>3, <1>11, OldRead DEF ReadOldReply, Deliver
<1>12. CASE UploadNext
  BY <1>1, <1>2, <1>3, <1>12 DEF UploadNext, Send
<1>13. CASE Return
  BY <1>1, <1>2, <1>3, <1>13 DEF Return
<1>14. CASE Receive
  BY <1>1, <1>2, <1>3, <1>14 DEF Receive, apbpReceiveData, LoadCmd, Dispatch,
     IsRepeated
<1>15. CASE ReceiveAgain
  BY <1>1, <1>2, <1>3, <1>15 DEF ReceiveAgain, Dispatch, IsRepeated
<1>16. CASE ReadArgHigh
  BY <1>1, <1>2, <1>3, <1>16 DEF ReadArgHigh, LoadCmd
<1>17. CASE ReadArgLow
  BY <1>1, <1>2, <1>3, <1>17 DEF ReadArgLow, LoadCmd
<1>18. CASE BadCommand
  BY <1>1, <1>2, <1>3, <1>18 DEF BadCommand, Case
<1>19. CASE Reply0
  BY <1>1, <1>2, <1>3, <1>19 DEF Reply0, apbpSendData
<1>20. CASE Reply1
  BY <1>1, <1>2, <1>3, <1>20 DEF Reply1, apbpSendData
<1>21. CASE Reply2
  BY <1>1, <1>2, <1>3, <1>21 DEF Reply2, apbpSendData
<1>22. CASE Serves
  BY <1>1, <1>2, <1>3, <1>22 DEF Serves
<1>23. QED
  BY <1>4, <1>5, <1>6, <1>7, <1>8, <1>9, <1>10, <1>11, <1>12, <1>13, <1>14,
     <1>15, <1>16, <1>17, <1>18, <1>19, <1>20, <1>21, <1>22, CaseServes DEF
     Next, Arm9, Dsp, Fault

\* The reply registers.
LEMMA ReplyStep ==
    ASSUME TypeOK, Inv, Next
    PROVE  ReplyInv'
<1> USE DEF Inv, CommandInv, ServeInv, ReplyInv, GotInv, ExactlyOnce,
        Channels, vars, armVars, dspVars, apbpVars, Sending, Awaiting,
        Between, Reading, Replying, SentCmd, Spurious, Read, Written,
        SameReply, ReplyBefore, WrittenRep0, ReadRep0, CompleteInv, IsAwaited,
        ReplyValue
<1>1. /\ sent \in Nat /\ served \in Nat /\ seq \in 0 .. SeqCount
      /\ DOMAIN rep = Channels /\ DOMAIN repUnread = Channels
      /\ cmdNew \in [Channels -> BOOLEAN]
      /\ SeqCount \in Nat /\ lastSeq \in 0 .. NoSeq
      /\ dPart \in {0, 1} /\ aPart \in {0, 1}
      /\ aPc \in Sending \cup Awaiting \cup Between
      /\ dPc \in {"receive"} \cup Reading \cup Replying
  BY ProtoAssumption DEF TypeOK, ApbpTypeOK, ArmTypeOK, DspTypeOK, Cmd0Values
<1>2. NextSeq(seq) \in 1 .. SeqCount /\ NextSeq(seq) # seq
  BY <1>1, NextSeqDiffers
<1>3. NoSeq > SeqCount
  BY <1>1 DEF NoSeq
<1>4. CASE Call
  BY <1>1, <1>2, <1>3, <1>4 DEF Call, Send
<1>5. CASE SendArgHigh
  BY <1>1, <1>2, <1>3, <1>5 DEF SendArgHigh, dspSendData
<1>6. CASE SendArgLow
  BY <1>1, <1>2, <1>3, <1>6 DEF SendArgLow, dspSendData
<1>7. CASE SendCmd
  BY <1>1, <1>2, <1>3, <1>7 DEF SendCmd, dspSendData
<1>8. CASE ReceiveRep0
  BY <1>1, <1>2, <1>3, <1>8 DEF ReceiveRep0, dspReceiveData
<1>9. CASE ReceiveRep1
  BY <1>1, <1>2, <1>3, <1>9 DEF ReceiveRep1, dspReceiveData
<1>10. CASE ReceiveRep2
  BY <1>1, <1>2, <1>3, <1>10, LastRead DEF ReceiveRep2, dspReceiveData, Deliver
<1>11. CASE ReadOldReply
  BY <1>1, <1>2, <1>3, <1>11, OldRead DEF ReadOldReply, Deliver
<1>12. CASE UploadNext
  BY <1>1, <1>2, <1>3, <1>12 DEF UploadNext, Send
<1>13. CASE Return
  BY <1>1, <1>2, <1>3, <1>13 DEF Return
<1>14. CASE Receive
  BY <1>1, <1>2, <1>3, <1>14 DEF Receive, apbpReceiveData, LoadCmd, Dispatch,
     IsRepeated
<1>15. CASE ReceiveAgain
  BY <1>1, <1>2, <1>3, <1>15 DEF ReceiveAgain, Dispatch, IsRepeated
<1>16. CASE ReadArgHigh
  BY <1>1, <1>2, <1>3, <1>16 DEF ReadArgHigh, LoadCmd
<1>17. CASE ReadArgLow
  BY <1>1, <1>2, <1>3, <1>17 DEF ReadArgLow, LoadCmd
<1>18. CASE BadCommand
  BY <1>1, <1>2, <1>3, <1>18 DEF BadCommand, Case
<1>19. CASE Reply0
  BY <1>1, <1>2, <1>3, <1>19 DEF Reply0, apbpSendData
<1>20. CASE Reply1
  BY <1>1, <1>2, <1>3, <1>20 DEF Reply1, apbpSendData
<1>21. CASE Reply2
  BY <1>1, <1>2, <1>3, <1>21 DEF Reply2, apbpSendData
<1>22. CASE Serves
  BY <1>1, <1>2, <1>3, <1>22 DEF Serves
<1>23. QED
  BY <1>4, <1>5, <1>6, <1>7, <1>8, <1>9, <1>10, <1>11, <1>12, <1>13, <1>14,
     <1>15, <1>16, <1>17, <1>18, <1>19, <1>20, <1>21, <1>22, CaseServes DEF
     Next, Arm9, Dsp, Fault

\* What receive() has returned.
LEMMA GotStep ==
    ASSUME TypeOK, Inv, Next
    PROVE  GotInv'
<1> USE DEF Inv, GotInv, ReplyMatches, CommandInv, ServeInv, Spurious,
        ExactlyOnce, vars, armVars, dspVars, apbpVars, Sending, Awaiting,
        Between, Reading, Replying
<1>1. /\ sent \in Nat /\ served \in Nat /\ dPart \in {0, 1} /\ aPart \in {0, 1}
      /\ aPc \in Sending \cup Awaiting \cup Between
      /\ aGot \in [status : Statuses, first : Values \X Values,
                 second : Values \X Values]
  BY DEF TypeOK, ArmTypeOK, DspTypeOK
<1>2. CASE Call
  BY <1>1, <1>2 DEF Call, Send
<1>3. CASE SendArgHigh
  BY <1>1, <1>3 DEF SendArgHigh, dspSendData
<1>4. CASE SendArgLow
  BY <1>1, <1>4 DEF SendArgLow, dspSendData
<1>5. CASE SendCmd
  BY <1>1, <1>5 DEF SendCmd, dspSendData
<1>6. CASE ReceiveRep0
  BY <1>1, <1>6 DEF ReceiveRep0, dspReceiveData
<1>7. CASE ReceiveRep1
  BY <1>1, <1>7 DEF ReceiveRep1, dspReceiveData
<1>8. CASE ReceiveRep2
  <2>1. CASE IsAwaited(aRep0) /\ aPart = 0
    <3>1. aGot' = [aGot EXCEPT !.status = aRep0.status,
                               !.first = <<aHigh, rep[2]>>]
      BY <1>8, <2>1 DEF ReceiveRep2, Deliver
    <3>2. /\ aGot'.status = aRep0.status /\ aGot'.first = <<aHigh, rep[2]>>
          /\ aGot'.second = aGot.second
      BY <1>1, <3>1
    <3>3. QED
      BY <1>1, <1>8, <2>1, <3>2, LastRead DEF ReceiveRep2, dspReceiveData,
         Deliver
  <2>2. CASE IsAwaited(aRep0) /\ aPart = 1
    <3>1. aGot' = [aGot EXCEPT !.second = <<aHigh, rep[2]>>]
      BY <1>8, <2>2 DEF ReceiveRep2, Deliver
    <3>2. /\ aGot'.status = aGot.status /\ aGot'.first = aGot.first
          /\ aGot'.second = <<aHigh, rep[2]>>
      BY <1>1, <3>1
    <3>3. QED
      BY <1>1, <1>8, <2>2, <3>2, LastRead DEF ReceiveRep2, dspReceiveData,
         Deliver
  <2>3. CASE ~IsAwaited(aRep0)
    BY <1>1, <1>8, <2>3, LastRead DEF ReceiveRep2, dspReceiveData, Deliver
  <2>4. QED
    BY <1>1, <2>1, <2>2, <2>3
<1>9. CASE ReadOldReply
  BY <1>1, <1>9, OldRead DEF ReadOldReply, Deliver
<1>10. CASE UploadNext
  BY <1>1, <1>10 DEF UploadNext, Send
<1>11. CASE Return
  BY <1>1, <1>11 DEF Return
<1>12. CASE Receive
  BY <1>1, <1>12 DEF Receive, apbpReceiveData, LoadCmd, Dispatch, IsRepeated
<1>13. CASE ReceiveAgain
  BY <1>1, <1>13 DEF ReceiveAgain, Dispatch, IsRepeated
<1>14. CASE ReadArgHigh
  BY <1>1, <1>14 DEF ReadArgHigh, LoadCmd
<1>15. CASE ReadArgLow
  BY <1>1, <1>15 DEF ReadArgLow, LoadCmd
<1>16. CASE BadCommand
  BY <1>1, <1>16 DEF BadCommand, Case
<1>17. CASE Reply0
  BY <1>1, <1>17 DEF Reply0, apbpSendData
<1>18. CASE Reply1
  BY <1>1, <1>18 DEF Reply1, apbpSendData
<1>19. CASE Reply2
  BY <1>1, <1>19 DEF Reply2, apbpSendData
<1>20. CASE Serves
  BY <1>1, <1>20 DEF Serves
<1>21. QED
  BY <1>2, <1>3, <1>4, <1>5, <1>6, <1>7, <1>8, <1>9, <1>10, <1>11, <1>12,
     <1>13, <1>14, <1>15, <1>16, <1>17, <1>18, <1>19, <1>20, CaseServes DEF
     Next, Arm9, Dsp, Fault

\* Uploads stay inside their table: only UPLOAD_SELECT, which checks the number
\* of words, and UPLOAD_DATA, which counts them, change the upload.
LEMMA UploadStep ==
    ASSUME TypeOK, Inv, Next
    PROVE  UploadInBounds'
<1>1. /\ up \in [table : Operands \cup {NoTable}, next : Nat, left : Nat]
      /\ dArg.lo \in Nat /\ BufWords \in Nat /\ UploadInBounds
  BY ProtoAssumption DEF TypeOK, DspTypeOK, Inv
<1>2. CASE UNCHANGED up
  BY <1>1, <1>2 DEF UploadInBounds
<1>3. CASE UploadSelect
  BY <1>1, <1>3 DEF UploadSelect, Fits, NoUpload, UploadInBounds
<1>4. CASE UploadData
  <2>1. /\ up'.table = up.table /\ up'.next = up.next + DataWords
        /\ up'.left = up.left - DataWords
    BY <1>1, <1>4 DEF UploadData
  <2>2. DataWords \in 1 .. up.left
    BY <1>1, <1>4 DEF UploadData, DataWords
  <2>3. QED
    BY <1>1, <1>4, <2>1, <2>2 DEF UploadData, UploadInBounds
<1>5. QED
  <2>1. Call \/ Arm9 \/ ReadOldReply => UNCHANGED up
    BY DEF Call, Arm9, SendArgHigh, SendArgLow, SendCmd, ReceiveRep0,
       ReceiveRep1, ReceiveRep2, ReadOldReply, UploadNext, Return, dspVars
  <2>2. Dsp \/ ReceiveAgain => UploadSelect \/ UploadData \/ UNCHANGED up
    BY DEF Dsp, Receive, ReceiveAgain, ReadArgHigh, ReadArgLow, UploadNothing,
       Run, SendOrParam, Stats, BadCommand, Reply0, Reply1, Reply2
  <2>3. QED
    BY <1>2, <1>3, <1>4, <2>1, <2>2 DEF Next, Fault

\* The invariant holds at the start.
LEMMA InitInv == Init => Inv
<1> SUFFICES ASSUME Init PROVE Inv
  OBVIOUS
<1> USE DEF Init, ApbpInit, Channels, Nothing, NoReply, NoUpload
<1>1. UploadInBounds
  BY DEF UploadInBounds
<1>2. CommandInv
  BY DEF CommandInv, Sending, Awaiting
<1>3. ServeInv
  BY DEF ServeInv, ExactlyOnce, Spurious, Sending, Awaiting, Between, Replying
<1>4. Read = 0 /\ Written = 0
  BY DEF Read, Written
<1>5. ReplyInv
  BY <1>4 DEF ReplyInv, SameReply, ReplyBefore, Replying, Awaiting, Between,
     Sending
<1>6. GotInv
  BY DEF GotInv, ReplyMatches
<1>7. QED
  BY <1>1, <1>2, <1>3, <1>5, <1>6 DEF Inv

\* The inductive invariant of the protocol: how the registers, the progress of
\* the two CPUs and the sequence numbers fit together, faults included.
THEOREM ProtoCorrect == Spec => []Inv
<1>1. TypeOK /\ Inv /\ [Next]_vars => Inv'
  <2>1. TypeOK /\ Inv /\ Next => Inv'
    BY CommandStep, ServeStep, ReplyStep, GotStep, UploadStep DEF Inv
  <2>2. ASSUME Inv, UNCHANGED vars PROVE Inv'
    <3> USE <2>2 DEF Inv, vars, armVars, dspVars, apbpVars
    <3>1. UploadInBounds'
      BY DEF UploadInBounds
    <3>2. CommandInv'
      BY DEF CommandInv, SentCmd
    <3>3. ServeInv'
      BY DEF ServeInv, ExactlyOnce, Spurious, SentCmd
    <3>4. ReplyInv'
      BY DEF ReplyInv, SameReply, ReplyBefore, CompleteInv, Spurious, Read,
         Written, ReadRep0, WrittenRep0, ReplyValue, IsAwaited
    <3>5. GotInv'
      BY DEF GotInv, ReplyMatches
    <3>6. QED
      BY <3>1, <3>2, <3>3, <3>4, <3>5
  <2>3. QED
    BY <2>1, <2>2
<1>2. QED
  BY InitInv, TypeCorrect, <1>1, PTL DEF Spec

\* Every command of the ARM9 is executed exactly once, although the DSP can see
\* it again.
THEOREM ServedExactlyOnce == Spec => []ExactlyOnce
<1>1. Inv => ExactlyOnce
  BY DEF Inv, ServeInv
<1>2. QED
  BY ProtoCorrect, <1>1, PTL

\* Every command is executed with the argument that was sent with it.
THEOREM ServedWithArgument == Spec => []ArgumentMatches
<1>1. TypeOK /\ Inv => ArgumentMatches
  <2> SUFFICES ASSUME TypeOK, Inv, dPc = "execute", dCmd.op # "NONE"
               PROVE  /\ dCmd = SentCmd
                      /\ dArg = [hi |-> aCmd.hi, lo |-> aCmd.lo]
    BY DEF ArgumentMatches, SentCmd
  <2>1. dCmd = SentCmd /\ dArg.hi = aCmd.hi /\ dArg.lo = aCmd.lo
    BY DEF Inv, ServeInv, Spurious
  <2>2. dArg \in [hi : Nat, lo : Nat]
    BY DEF TypeOK, DspTypeOK
  <2>3. QED
    BY <2>1, <2>2
<1>2. QED
  BY ProtoCorrect, TypeCorrect, <1>1, PTL

\* Every call returns the reply of its own command: the status and both halves
\* of every value, although the ARM9 can read a reply that isn't new.
THEOREM RepliedToCall == Spec => []ReplyMatches
<1>1. Inv => ReplyMatches
  BY DEF Inv, GotInv
<1>2. QED
  BY ProtoCorrect, <1>1, PTL

\* No upload is stored past the end of its table.
THEOREM UploadsInBounds == Spec => []UploadInBounds
<1>1. Inv => UploadInBounds
  BY DEF Inv
<1>2. QED
  BY ProtoCorrect, <1>1, PTL

-----------------------------------------------------------------------------

\* The first command of proto_upload(): app_upload_buffer() accepts the table, or
\* nothing is left to upload.
Selecting ==
    /\ aCmd.op = "UPLOAD_SELECT" /\ aCmd.operand = aCall.operand
    /\ aCmd.lo = aCall.n /\ aIndex = 0
    /\ IF served = sent /\ dStatus = "OK"
       THEN /\ Fits(aCall.operand, aCall.n)
            /\ up = [table |-> aCall.operand, next |-> 0, left |-> aCall.n]
       ELSE up.left = 0

\* The words of the upload that are in the table.
Stored ==
    IF served # sent THEN aIndex - 2 ELSE IF aIndex <= aCall.n THEN aIndex ELSE aCall.n

\* The others: the DSP has stored all the words of the commands that it served.
Storing ==
    /\ aCmd.op = "UPLOAD_DATA" /\ sent >= 2 /\ Fits(aCall.operand, aCall.n)
    /\ aIndex >= 2 /\ aIndex - 2 < aCall.n
    /\ aCmd.hi = Word(aIndex - 2) /\ aCmd.lo = Word(aIndex - 1)
    /\ up = [table |-> aCall.operand, next |-> Stored, left |-> aCall.n - Stored]
    /\ \A i \in 0 .. Stored - 1 : buf[aCall.operand][i] = Word(i)
    /\ served = sent => dStatus = "OK"

UploadInv ==
    /\ sent = 0 \/ aPc = "idle" \/ aCall.op # "UPLOAD_SELECT" => up.left = 0
    /\ sent > 0 /\ aCall.op # "UPLOAD_SELECT" => aCmd.op = aCall.op
    /\ sent > 0 /\ aCall.op = "UPLOAD_SELECT" =>
         /\ Selecting \/ Storing
         /\ aPc = "idle" /\ aGot.status = "OK" => aIndex >= aCall.n

\* The reply of the spurious command is read before the second command is sent.
SpuriousInv ==
    /\ rep[0].seq = 0 => sent <= 1
    /\ aPc \in {"rep1", "rep2"} /\ aRep0.seq = 0 => sent <= 1

\* The command that the DSP executes.
LEMMA Executed ==
    ASSUME TypeOK, Inv, dPc = "execute", dCmd.op # "NONE"
    PROVE  /\ aPc \in Awaiting /\ sent > 0 /\ served = sent - 1
           /\ dCmd.op = aCmd.op /\ dCmd.operand = aCmd.operand
           /\ dArg.hi = aCmd.hi /\ dArg.lo = aCmd.lo
  <1>1. aPc \in Awaiting /\ dCmd = SentCmd /\ served = sent - 1 /\ served \in Nat
        /\ sent \in Nat /\ dArg.hi = aCmd.hi /\ dArg.lo = aCmd.lo
    BY DEF Inv, ServeInv, Spurious, Reading, TypeOK, ArmTypeOK, DspTypeOK
  <1> QED
    BY <1>1 DEF SentCmd

\* Nothing has been uploaded.
LEMMA InitUpload == Init => UploadInv /\ SpuriousInv
  BY DEF Init, UploadInv, SpuriousInv, NoUpload, ApbpInit

\* Steps that neither start nor serve a command, nor return from a call.
LEMMA QuietUpload ==
    ASSUME UploadInv,
           UNCHANGED <<aCmd, aCall, aIndex, sent, up, buf, served, dStatus>>,
           aPc' = "idle" => aPc = "idle" /\ aGot' = aGot
    PROVE  UploadInv'
  <1>1. (Selecting => Selecting') /\ (Storing => Storing')
    BY DEF Selecting, Storing, Stored, Word, Fits
  <1> QED
    BY <1>1 DEF UploadInv

\* Every step of both CPUs keeps what the words uploaded so far say.
LEMMA UploadInvStep ==
    ASSUME TypeOK, Inv, UploadInv, Next
    PROVE  UploadInv'
  <1>1. /\ sent \in Nat /\ served \in Nat /\ aIndex \in Nat /\ aCall.n \in Nat
        /\ up \in [table : Operands \cup {NoTable}, next : Nat, left : Nat]
        /\ served <= sent
    BY DEF TypeOK, ArmTypeOK, DspTypeOK, Inv, ServeInv, ExactlyOnce
  <1>2. aPc \in Between => served = sent
    BY DEF Inv, ServeInv, ExactlyOnce
  <1>3. CASE Call
    <2>1. PICK c \in Calls : aCall' = c /\ Send(c.op, c.operand, 0, c.n)
      BY <1>3 DEF Call
    <2>2. /\ aPc = "idle" /\ aPc' = "send1" /\ up.left = 0 /\ aIndex' = 0
          /\ sent' = sent + 1 /\ served # sent' /\ UNCHANGED <<up, buf, served, dStatus>>
      BY <1>1, <1>2, <1>3, <2>1 DEF Call, Send, dspVars, UploadInv, Between
    <2>3. /\ aCmd'.op = aCall'.op /\ aCmd'.operand = aCall'.operand /\ aCmd'.lo = aCall'.n
      BY <2>1 DEF Send
    <2>4. aCall'.op = "UPLOAD_SELECT" => Selecting'
      BY <2>2, <2>3 DEF Selecting
    <2> QED
      BY <2>2, <2>3, <2>4 DEF UploadInv
  <1>4. CASE UploadNext
    <2>1. /\ aPc = "return" /\ aCall.op = "UPLOAD_SELECT" /\ aIndex < aCall.n
          /\ aIndex' = aIndex + 2 /\ sent' = sent + 1 /\ served = sent
          /\ UNCHANGED <<aCall, up, buf, served, dStatus>> /\ aPc' = "send1"
          /\ aCmd' = [op |-> "UPLOAD_DATA", operand |-> 0, hi |-> Word(aIndex),
                      lo |-> Word(aIndex + 1)]
      BY <1>2, <1>4 DEF UploadNext, Send, dspVars, Between
    <2>2. dStatus = "OK" /\ sent > 0
      BY <1>1, <1>4, <2>1 DEF UploadNext, Inv, GotInv, ReplyMatches, CommandInv
    <2>3. Selecting \/ Storing
      BY <2>1, <2>2 DEF UploadInv
    <2>4. /\ Fits(aCall.operand, aCall.n)
          /\ up = [table |-> aCall.operand, next |-> aIndex, left |-> aCall.n - aIndex]
          /\ \A i \in 0 .. aIndex - 1 : buf[aCall.operand][i] = Word(i)
      <3>1. CASE Selecting
        BY <1>1, <2>1, <2>2, <3>1 DEF Selecting
      <3>2. CASE Storing
        BY <1>1, <2>1, <2>2, <3>2 DEF Storing, Stored
      <3> QED
        BY <2>3, <3>1, <3>2
    <2>5. Stored' = aIndex /\ \A i : Word(i)' = Word(i)
      BY <1>1, <2>1 DEF Stored, Word
    <2>6. Storing'
      BY <1>1, <2>1, <2>2, <2>4, <2>5 DEF Storing, Fits, Word
    <2> QED
      BY <1>1, <2>1, <2>6 DEF UploadInv
  <1>5. CASE Return
    <2>1. /\ aPc = "return" /\ served = sent
          /\ aCall.op = "UPLOAD_SELECT" /\ aGot.status = "OK" => aIndex >= aCall.n
          /\ UNCHANGED <<aCmd, aCall, aIndex, sent, up, buf, served, dStatus, aGot>>
      BY <1>2, <1>5 DEF Return, dspVars, Between
    <2>2. aGot.status = dStatus
      BY <2>1 DEF Inv, GotInv, ReplyMatches
    <2>3. up.left = 0
      <3>1. CASE sent > 0 /\ aCall.op = "UPLOAD_SELECT" /\ Selecting
        BY <1>1, <2>1, <2>2, <3>1 DEF Selecting
      <3>2. CASE sent > 0 /\ aCall.op = "UPLOAD_SELECT" /\ Storing
        BY <1>1, <2>1, <2>2, <3>2 DEF Storing, Stored
      <3> QED
        BY <1>1, <3>1, <3>2 DEF UploadInv
    <2>4. (Selecting => Selecting') /\ (Storing => Storing')
      BY <2>1 DEF Selecting, Storing, Stored, Word, Fits
    <2> QED
      BY <2>1, <2>3, <2>4 DEF UploadInv
  <1>6. CASE SendArgHigh \/ SendArgLow \/ SendCmd \/ ReceiveRep0 \/ ReceiveRep1
             \/ ReceiveRep2 \/ ReadOldReply
    <2>1. /\ UNCHANGED <<aCmd, aCall, aIndex, sent, up, buf, served, dStatus>>
          /\ aPc' # "idle"
      BY <1>6 DEF SendArgHigh, SendArgLow, SendCmd, ReceiveRep0, ReceiveRep1,
        ReceiveRep2, ReadOldReply, Deliver, dspVars
    <2> QED
      BY <2>1, QuietUpload
  <1>7. CASE Receive \/ ReceiveAgain \/ ReadArgHigh \/ ReadArgLow
             \/ Reply0 \/ Reply1 \/ Reply2
    <2>1. UNCHANGED <<aCmd, aCall, aIndex, sent, up, buf, served, dStatus, aPc, aGot>>
      BY <1>7 DEF Receive, ReceiveAgain, ReadArgHigh, ReadArgLow, Reply0, Reply1,
        Reply2, armVars
    <2> QED
      BY <2>1, QuietUpload
  <1>8. CASE BadCommand
    <2>1. /\ served = 0
          /\ UNCHANGED <<aCmd, aCall, aIndex, sent, up, buf, served, aPc, aGot>>
      BY <1>8 DEF BadCommand, Case, armVars, Inv, ServeInv, Spurious
    <2>2. sent > 0 => (Selecting => Selecting') /\ (Storing => Storing')
      BY <1>1, <2>1 DEF Selecting, Storing, Stored, Word, Fits
    <2> QED
      BY <2>1, <2>2 DEF UploadInv
  <1>9. ASSUME Serves
        PROVE  /\ aPc \in Awaiting /\ sent > 0 /\ served = sent - 1 /\ served' = sent
               /\ dCmd.op = aCmd.op /\ dCmd.operand = aCmd.operand
               /\ dArg.hi = aCmd.hi /\ dArg.lo = aCmd.lo
               /\ UNCHANGED <<aCmd, aCall, aIndex, sent, aPc, aGot>>
    BY <1>1, <1>9, Executed DEF Serves, armVars
  <1>10. CASE UploadSelect
    <2>1. Serves /\ dCmd.op = "UPLOAD_SELECT"
      BY <1>10, CaseServes DEF UploadSelect, Case
    <2>2. aCall.op = "UPLOAD_SELECT" /\ Selecting /\ aPc # "idle"
      BY <1>9, <2>1 DEF UploadInv, Storing, Awaiting
    <2>3. IF Fits(aCall.operand, aCall.n)
          THEN /\ up' = [table |-> aCall.operand, next |-> 0, left |-> aCall.n]
               /\ dStatus' = "OK"
          ELSE up' = NoUpload /\ dStatus' = "BAD_ARG"
      BY <1>9, <1>10, <2>1, <2>2 DEF UploadSelect, Case, Selecting
    <2>4. Selecting'
      BY <1>9, <2>1, <2>2, <2>3 DEF Selecting, Fits, NoUpload
    <2> QED
      BY <1>9, <2>1, <2>2, <2>4 DEF UploadInv
  <1>11. CASE UploadData
    <2>1. Serves /\ dCmd.op = "UPLOAD_DATA" /\ up.left > 0 /\ dStatus' = "OK"
      BY <1>11, CaseServes DEF UploadData, Case
    <2>2. aCall.op = "UPLOAD_SELECT" /\ Storing /\ aPc # "idle"
      BY <1>1, <1>9, <2>1 DEF UploadInv, Selecting, Awaiting
    <2> DEFINE t == aCall.operand  k == aIndex - 2
    <2>3. /\ k \in Nat /\ k < aCall.n /\ t \in Tables /\ aCall.n <= BufWords
          /\ up = [table |-> t, next |-> k, left |-> aCall.n - k]
          /\ \A i \in 0 .. k - 1 : buf[t][i] = Word(i)
          /\ dArg.hi = Word(k) /\ dArg.lo = Word(k + 1)
      BY <1>1, <1>9, <2>1, <2>2 DEF Storing, Stored, Fits
    <2>4. DataWords = IF aCall.n - k > 1 THEN 2 ELSE 1
      BY <2>3 DEF DataWords
    <2>5. Stored' = k + DataWords
      BY <1>1, <1>9, <2>1, <2>3, <2>4 DEF Stored
    <2>6. up' = [table |-> t, next |-> Stored', left |-> aCall.n - Stored']
      <3>1. up' = [up EXCEPT !.next = up.next + DataWords, !.left = up.left - DataWords]
        BY <1>11 DEF UploadData
      <3>2. up.next + DataWords = Stored' /\ up.left - DataWords = aCall.n - Stored'
        BY <1>1, <2>3, <2>4, <2>5
      <3>3. up' = [up EXCEPT !.next = Stored', !.left = aCall.n - Stored']
        BY <3>1, <3>2
      <3> HIDE DEF t, k
      <3> QED
        BY <2>3, <3>3
    <2>7. \A i \in 0 .. Stored' - 1 : buf'[t][i] = Word(i)
      <3>1. buf \in [Tables -> [0 .. BufWords - 1 -> Nat]] /\ BufWords \in Nat
        BY ProtoAssumption DEF TypeOK, DspTypeOK
      <3>2. \A i \in 0 .. BufWords - 1 :
              buf'[t][i] = IF i = k THEN dArg.hi
                           ELSE IF DataWords = 2 /\ i = k + 1 THEN dArg.lo ELSE buf[t][i]
        BY <1>11, <2>3, <3>1 DEF UploadData
      <3> HIDE DEF t, k
      <3>3. \A i \in 0 .. Stored' - 1 :
              i \in 0 .. BufWords - 1 /\ (i \in 0 .. k - 1 \/ i = k \/ i = k + 1)
        BY <1>1, <2>3, <2>4, <2>5, <3>1
      <3>4. ASSUME NEW i \in 0 .. Stored' - 1 PROVE buf'[t][i] = Word(i)
        BY <1>1, <2>3, <2>4, <2>5, <3>2, <3>3
      <3> QED
        BY <3>4
    <2>8. \A i : Word(i)' = Word(i)
      BY <1>9, <2>1 DEF Word
    <2>9. Storing'
      BY <1>1, <1>9, <2>1, <2>2, <2>6, <2>7, <2>8 DEF Storing, Fits
    <2> QED
      BY <1>9, <2>1, <2>2, <2>9 DEF UploadInv
  <1>12. CASE UploadNothing \/ Run \/ SendOrParam \/ Stats
    <2>1. /\ Serves /\ dCmd.op # "UPLOAD_SELECT" /\ UNCHANGED <<up, buf>>
          /\ dCmd.op = "UPLOAD_DATA" => up.left = 0
      BY <1>12, CaseServes DEF UploadNothing, Run, SendOrParam, Stats, Case
    <2>2. ~Selecting /\ ~Storing
      <3>1. ~Selecting
        BY <1>9, <2>1 DEF Selecting
      <3>2. ASSUME Storing PROVE FALSE
        <4>1. Stored = aIndex - 2 /\ up.left = aCall.n - Stored /\ up.left = 0
          BY <1>1, <1>9, <2>1, <3>2 DEF Storing, Stored
        <4> QED
          BY <1>1, <3>2, <4>1 DEF Storing
      <3> QED
        BY <3>1, <3>2
    <2>3. aCall.op # "UPLOAD_SELECT" /\ up.left = 0 /\ aPc # "idle"
      BY <1>9, <2>1, <2>2 DEF UploadInv, Awaiting
    <2> QED
      BY <1>9, <2>1, <2>3 DEF UploadInv
  <1> QED
    BY <1>3, <1>4, <1>5, <1>6, <1>7, <1>8, <1>10, <1>11, <1>12
    DEF Next, Arm9, Dsp, Fault

\* No step lets a second command be sent before the spurious reply was read.
LEMMA SpuriousStep ==
    ASSUME TypeOK, Inv, SpuriousInv, Next
    PROVE  SpuriousInv'
  <1>1. sent \in Nat /\ served \in Nat /\ served \in {sent - 1, sent}
        /\ DOMAIN rep = Channels /\ 0 \in Channels /\ 1 \in Channels /\ 2 \in Channels
    BY DEF TypeOK, ArmTypeOK, DspTypeOK, ApbpTypeOK, Inv, ServeInv, ExactlyOnce, Channels
  <1>2. CASE Call \/ UploadNext
    <2>1. /\ aPc \in Between /\ sent' = sent + 1 /\ rep' = rep /\ aPc' = "send1"
      BY <1>2 DEF Call, UploadNext, Send, apbpVars, Between
    <2>2. rep[0].seq = 0 => sent = 0
      BY <1>1, <2>1 DEF Inv, ReplyInv, CommandInv
    <2> QED
      BY <1>1, <2>1, <2>2 DEF SpuriousInv
  <1>3. CASE SendArgHigh \/ SendArgLow \/ SendCmd \/ Return
    BY <1>3 DEF SendArgHigh, SendArgLow, SendCmd, Return, dspSendData, apbpVars,
      SpuriousInv
  <1>4. CASE ReceiveRep0
    BY <1>4 DEF ReceiveRep0, dspReceiveData, SpuriousInv
  <1>5. CASE ReceiveRep1
    BY <1>5 DEF ReceiveRep1, dspReceiveData, SpuriousInv
  <1>6. CASE ReceiveRep2 \/ ReadOldReply
    BY <1>6 DEF ReceiveRep2, ReadOldReply, Deliver, dspReceiveData, apbpVars, SpuriousInv
  <1>7. CASE Reply0
    <2>1. /\ rep'[0].seq = dCmd.seq /\ UNCHANGED <<sent, aPc, aRep0>>
          /\ dPc = "rep0"
      BY <1>1, <1>7 DEF Reply0, apbpSendData, armVars
    <2>2. dCmd.seq = 0 => served = 0
      BY <2>1 DEF Inv, ServeInv, CommandInv, Spurious, SentCmd, Awaiting, TypeOK, ArmTypeOK
    <2> QED
      BY <1>1, <2>1, <2>2 DEF SpuriousInv
  <1>8. CASE Reply1 \/ Reply2
    <2>1. rep'[0] = rep[0] /\ UNCHANGED <<sent, aPc, aRep0>>
      BY <1>1, <1>8 DEF Reply1, Reply2, apbpSendData, armVars
    <2> QED
      BY <2>1 DEF SpuriousInv
  <1>9. CASE Receive \/ ReceiveAgain \/ ReadArgHigh \/ ReadArgLow
    BY <1>9 DEF Receive, ReceiveAgain, ReadArgHigh, ReadArgLow, apbpReceiveData, LoadCmd,
      armVars, apbpVars, SpuriousInv
  <1>10. CASE BadCommand \/ Serves
    BY <1>10 DEF BadCommand, Case, Serves, armVars, apbpVars, SpuriousInv
  <1> QED
    BY <1>2, <1>3, <1>4, <1>5, <1>6, <1>7, <1>8, <1>9, <1>10, CaseServes
    DEF Next, Arm9, Dsp, Fault

\* The invariant of the calls: all that the theorems below need.
CallInv == TypeOK /\ Inv /\ UploadInv /\ SpuriousInv

\* The invariants of the registers, of the uploads and of their commands hold in
\* every state, whatever the faults.
THEOREM CallInvHolds == Spec => []CallInv
  <1>1. TypeOK /\ Inv /\ UploadInv /\ SpuriousInv /\ [Next]_vars
          => UploadInv' /\ SpuriousInv'
    <2>1. ASSUME UploadInv, SpuriousInv, UNCHANGED vars PROVE UploadInv' /\ SpuriousInv'
      BY <2>1, QuietUpload DEF vars, armVars, dspVars, apbpVars, SpuriousInv
    <2> QED
      BY <2>1, UploadInvStep, SpuriousStep
  <1>2. Spec => [](UploadInv /\ SpuriousInv)
    BY <1>1, InitUpload, TypeCorrect, ProtoCorrect, PTL DEF Spec
  <1> QED
    BY <1>2, TypeCorrect, ProtoCorrect, PTL DEF CallInv

\* When proto_upload() has returned PROTO_STATUS_OK the table in the DSP holds
\* the data, whatever the numbers of words, tables and faults.
THEOREM UploadsArrive == Spec => []UploadIntact
  <1>1. CallInv => UploadIntact
    <2> SUFFICES ASSUME CallInv, aPc = "idle", aCall.op = "UPLOAD_SELECT",
                        aGot.status = "OK", sent > 0, NEW i \in 0 .. aCall.n - 1
                 PROVE  buf[aCall.operand][i] = Word(i)
      BY DEF UploadIntact
    <2>1. /\ served = sent /\ aIndex >= aCall.n
          /\ Selecting \/ Storing
          /\ aIndex \in Nat /\ aCall.n \in Nat
      BY DEF CallInv, UploadInv, Inv, ServeInv, ExactlyOnce, Between, TypeOK, ArmTypeOK
    <2>2. 0 < aCall.n
      BY <2>1
    <2>3. ~Selecting
      BY <2>1, <2>2 DEF Selecting
    <2>4. Storing /\ Stored = aCall.n
      BY <2>1, <2>3 DEF Storing, Stored
    <2> QED
      BY <2>1, <2>4 DEF Storing
  <1> QED
    BY <1>1, CallInvHolds, PTL

\* While the DSP executes a data command of proto_upload() the ARM9 has not begun
\* to read a reply.
LEMMA UploadWaits ==
    ASSUME CallInv, UploadData
    PROVE  /\ aPc = "rep0" /\ aCall.op = "UPLOAD_SELECT" /\ Storing
           /\ served = sent - 1
  <1>1. /\ dPc = "execute" /\ dCmd.op = "UPLOAD_DATA" /\ up.left > 0
        /\ aPc \in Awaiting /\ sent > 0 /\ served = sent - 1 /\ sent \in Nat
        /\ dCmd.op = aCmd.op /\ ~Spurious /\ Written = 0
    BY Executed DEF CallInv, UploadData, Case, TypeOK, ArmTypeOK, Spurious, Written
  <1>2. aCall.op = "UPLOAD_SELECT" /\ Storing
    BY <1>1 DEF CallInv, UploadInv, Selecting
  <1>3. ASSUME aPc \in {"rep1", "rep2"} PROVE FALSE
    <2>1. Read > 0 /\ ~SameReply
      BY <1>1, <1>3 DEF Read, SameReply
    <2>2. CompleteInv
      BY <2>1 DEF CallInv, Inv, ReplyInv
    <2>3. ReadRep0.seq = 0 /\ ReadRep0 = aRep0
      BY <1>1, <2>1, <2>2 DEF CompleteInv, ReadRep0
    <2>4. sent <= 1
      BY <1>3, <2>3 DEF CallInv, SpuriousInv
    <2> QED
      BY <1>1, <1>2, <2>4 DEF Storing
  <1> QED
    BY <1>1, <1>2, <1>3 DEF Awaiting

\* A word of a table in DSP memory changes only while the ARM9 waits inside
\* proto_upload(), in the table it named and within the words it announced.
THEOREM UploadsConfined == Spec => UploadConfined
  <1>1. ASSUME CallInv, [Next]_vars, NEW t \in Tables, NEW i \in 0 .. BufWords - 1,
               buf'[t][i] # buf[t][i]
        PROVE  /\ aPc = "rep0" /\ aCall.op = "UPLOAD_SELECT"
               /\ t = aCall.operand /\ i < aCall.n
    <2>1. UploadData
      BY <1>1 DEF vars, dspVars, Next, Arm9, Dsp, Fault, Call, UploadNext, Return,
        SendArgHigh, SendArgLow, SendCmd, ReceiveRep0, ReceiveRep1, ReceiveRep2,
        ReadOldReply, Receive, ReceiveAgain, ReadArgHigh, ReadArgLow, UploadSelect,
        UploadNothing, Run, SendOrParam, Stats, BadCommand, Reply0, Reply1, Reply2
    <2>2. /\ aPc = "rep0" /\ aCall.op = "UPLOAD_SELECT" /\ Storing
          /\ served = sent - 1
      BY <1>1, <2>1, UploadWaits
    <2>3. /\ buf \in [Tables -> [0 .. BufWords - 1 -> Nat]]
          /\ aIndex \in Nat /\ aCall.n \in Nat /\ sent \in Nat /\ BufWords \in Nat
      BY <1>1, ProtoAssumption DEF CallInv, TypeOK, ArmTypeOK, DspTypeOK
    <2>4. /\ aCall.operand \in Tables /\ aIndex - 2 \in Nat /\ aIndex - 2 < aCall.n
          /\ up.table = aCall.operand /\ up.next = aIndex - 2
          /\ up.left = aCall.n - (aIndex - 2)
      BY <2>2, <2>3 DEF Storing, Stored, Fits
    <2>5. t = up.table
      BY <1>1, <2>1, <2>3, <2>4 DEF UploadData
    <2>6. i = up.next \/ (DataWords = 2 /\ i = up.next + 1)
      <3>1. buf'[t][i] = IF i = up.next THEN dArg.hi
                         ELSE IF DataWords = 2 /\ i = up.next + 1 THEN dArg.lo
                              ELSE buf[t][i]
        BY <1>1, <2>1, <2>3, <2>5 DEF UploadData
      <3> QED
        BY <1>1, <3>1
    <2>7. i < aCall.n
      BY <2>3, <2>4, <2>6 DEF DataWords
    <2> QED
      BY <2>2, <2>4, <2>5, <2>7
  <1>2. CallInv /\ [Next]_vars =>
          [\A t \in Tables : \A i \in 0 .. BufWords - 1 :
             buf'[t][i] # buf[t][i] =>
                /\ aPc = "rep0" /\ aCall.op = "UPLOAD_SELECT"
                /\ t = aCall.operand /\ i < aCall.n]_vars
    BY <1>1
  <1> QED
    BY <1>2, CallInvHolds, PTL DEF Spec, UploadConfined

-----------------------------------------------------------------------------
(* The protocol implements ProtoServer: every step is one of its steps or    *)
(* changes nothing of what the mapping shows of it.                          *)

\* The start of a command is the caller's question.
LEMMA AskStep ==
    ASSUME CallInv, Call \/ UploadNext
    PROVE  Server!Ask
  <1>1. /\ aPc \in Between /\ aPc' \notin Between /\ sent' = sent + 1
        /\ UNCHANGED <<served, up, buf>>
    BY DEF Call, UploadNext, Send, dspVars, Between
  <1>2. served = sent /\ sent \in Nat /\ served' # sent'
    BY <1>1 DEF CallInv, Inv, ServeInv, ExactlyOnce, TypeOK, ArmTypeOK
  <1>3. aCmd' \in [op : Ops, operand : Operands, hi : Nat, lo : Nat]
    <2>1. CASE Call
      BY <2>1, ProtoAssumption DEF Call, Send
    <2>2. CASE UploadNext
      <3>1. Word(aIndex) \in Nat /\ Word(aIndex + 1) \in Nat
        BY WordType DEF CallInv, TypeOK, ArmTypeOK
      <3> QED
        BY <2>2, <3>1, ProtoAssumption DEF UploadNext, Send, Ops
    <2> QED
      BY <2>1, <2>2
  <1> QED
    BY <1>1, <1>2, <1>3
    DEF Server!Ask, Server!NoAnswer, Server!NoValue, Server!Value, NoValue, Value,
        Ops, Server!Ops

\* The case of the switch that executes a command is the service.
LEMMA ServeSim ==
    ASSUME CallInv,
           UploadSelect \/ UploadNothing \/ UploadData \/ Run \/ SendOrParam \/ Stats
    PROVE  Server!Serve
  <1>1. Serves
    BY CaseServes
  <1>2. /\ aPc \in Awaiting /\ sent > 0 /\ served = sent - 1 /\ sent \in Nat
        /\ dCmd.op = aCmd.op /\ dCmd.operand = aCmd.operand
        /\ dArg.hi = aCmd.hi /\ dArg.lo = aCmd.lo
    BY <1>1, Executed DEF Serves, CallInv, TypeOK, ArmTypeOK
  <1>3. /\ served' = sent /\ UNCHANGED <<aPc, aCmd, sent>> /\ aPc \notin Between
        /\ UNCHANGED aGot
    BY <1>1, <1>2 DEF Serves, armVars, Awaiting, Between
  <1>4. dStatus' \in Statuses /\
          (Server!Select(dStatus') \/ Server!Data(dStatus') \/ Server!Excess(dStatus')
             \/ Server!Other(dStatus'))
    <2>1. CASE UploadSelect
      <3>1. Server!Select(dStatus')
        BY <1>2, <2>1 DEF UploadSelect, Case, Fits, NoUpload, Server!Select,
          Server!NoUpload
      <3>2. dStatus' \in Statuses
        BY <2>1 DEF UploadSelect, Case, Statuses
      <3> QED
        BY <3>1, <3>2
    <2>2. CASE UploadData
      <3>1. DataWords = IF up.left = 1 THEN 1 ELSE 2
        BY <2>2 DEF UploadData, DataWords, CallInv, TypeOK, DspTypeOK
      <3>2. Server!Data(dStatus')
        BY <1>2, <2>2, <3>1 DEF UploadData, Case, Server!Data
      <3> QED
        BY <2>2, <3>2 DEF UploadData, Case, Statuses
    <2>3. CASE UploadNothing
      BY <1>2, <2>3 DEF UploadNothing, Case, Server!Excess, Statuses
    <2>4. CASE Run
      BY <1>2, <2>4 DEF Run, Case, Server!Other, Statuses
    <2>5. CASE SendOrParam
      BY <1>2, <2>5 DEF SendOrParam, Case, Server!Other, Statuses
    <2>6. CASE Stats
      BY <1>2, <2>6 DEF Stats, Case, Server!Other, Statuses
    <2> QED
      BY <2>1, <2>2, <2>3, <2>4, <2>5, <2>6
  <1> QED
    BY <1>2, <1>3, <1>4
    DEF Server!Serve, Server!Value, Server!NoValue, Value, NoValue, Server!Statuses,
        Statuses

\* The last register of the last reply hands the answer to the caller.
LEMMA TakeStep ==
    ASSUME CallInv, Inv', ReceiveRep2, aPc' = "return"
    PROVE  Server!Take
  <1>1. aPc = "rep2" /\ UNCHANGED <<aCmd, sent, dspVars>>
    BY DEF ReceiveRep2
  <1>2. IsAwaited(aRep0) /\ served = sent /\ sent \in Nat
    <2>1. IsAwaited(aRep0)
      BY DEF ReceiveRep2, Deliver
    <2> QED
      BY <2>1, LastRead DEF CallInv, Inv, CommandInv, IsAwaited, TypeOK, ArmTypeOK
  <1>3. /\ aGot'.status = dStatus
        /\ aGot'.first = <<Value(sent, 0), Value(sent, 0)>>
        /\ aGot'.second = IF aCmd.op = "RUN"
                          THEN <<Value(sent, 1), Value(sent, 1)>> ELSE NoPair
    BY <1>1 DEF Inv, GotInv, ReplyMatches, dspVars, Value, NoPair, NoValue
  <1>4. /\ Joined(aGot'.first) = Value(sent, 0)
        /\ Joined(aGot'.second) = IF aCmd.op = "RUN" THEN Value(sent, 1) ELSE NoValue
    BY <1>3 DEF Joined, NoPair
  <1> QED
    BY <1>1, <1>2, <1>3, <1>4
    DEF Server!Take, Server!NoAnswer, Server!NoValue, Server!Value, Value, NoValue,
        Between, dspVars, Joined

\* What no other step changes.
LEMMA QuietStep ==
    ASSUME UNCHANGED <<aCmd, sent, served, up, buf>>,
           aPc' \in Between <=> aPc \in Between,
           aPc \in Between => aGot' = aGot,
           aPc \notin Between /\ served = sent => dStatus' = dStatus
    PROVE  UNCHANGED Server!serverVars
  BY DEF Server!serverVars, Value, Joined, NoValue

\* Every step of the protocol is a step of ProtoServer, or nothing.
LEMMA ServerStep ==
    ASSUME CallInv, Inv', [Next]_vars
    PROVE  [Server!Next]_(Server!serverVars)
  <1>1. CASE Call \/ UploadNext
    BY <1>1, AskStep DEF Server!Next
  <1>2. CASE UploadSelect \/ UploadNothing \/ UploadData \/ Run \/ SendOrParam \/ Stats
    BY <1>2, ServeSim DEF Server!Next
  <1>3. CASE ReceiveRep2 /\ aPc' = "return"
    BY <1>3, TakeStep DEF Server!Next
  <1>4. CASE (ReceiveRep2 /\ aPc' # "return") \/ ReadOldReply \/ ReceiveRep0
             \/ ReceiveRep1 \/ SendArgHigh \/ SendArgLow \/ SendCmd
    <2>1. ReadOldReply => ~IsAwaited(rep[0])
      BY OldRead DEF CallInv
    <2>2. /\ aPc \notin Between /\ aPc' \notin Between
          /\ UNCHANGED <<aCmd, sent, served, up, buf, dStatus>>
      BY <1>4, <2>1 DEF ReceiveRep2, ReadOldReply, ReceiveRep0, ReceiveRep1, SendArgHigh,
        SendArgLow, SendCmd, Deliver, dspVars, Between
    <2> QED
      BY <2>2, QuietStep
  <1>5. CASE Return
    <2>1. /\ aPc \in Between /\ aPc' \in Between
          /\ UNCHANGED <<aCmd, sent, served, up, buf, dStatus, aGot>>
      BY <1>5 DEF Return, dspVars, Between
    <2> QED
      BY <2>1, QuietStep
  <1>6. CASE Receive \/ ReceiveAgain \/ ReadArgHigh \/ ReadArgLow \/ Reply0 \/ Reply1
             \/ Reply2 \/ UNCHANGED vars
    <2>1. UNCHANGED <<aCmd, sent, served, up, buf, dStatus, aGot, aPc>>
      BY <1>6 DEF Receive, ReceiveAgain, ReadArgHigh, ReadArgLow, Reply0, Reply1,
        Reply2, armVars, vars, dspVars
    <2> QED
      BY <2>1, QuietStep
  <1>7. CASE BadCommand
    <2>1. UNCHANGED <<aCmd, sent, served, up, buf, aGot, aPc>> /\ Spurious
      BY <1>7 DEF BadCommand, Case, armVars, Spurious
    <2>2. aPc \notin Between => served # sent
      BY <2>1 DEF CallInv, TypeOK, ArmTypeOK, Inv, ServeInv, ExactlyOnce
    <2> QED
      BY <2>1, <2>2, QuietStep
  <1> QED
    BY <1>1, <1>2, <1>3, <1>4, <1>5, <1>6, <1>7 DEF Next, Arm9, Dsp, Fault

\* Refinement: seen by the program on the ARM9, the registers, flags, sequence
\* numbers and faults of the protocol amount to remote calls, each served once
\* with its own argument and answered with its own answer.
THEOREM ProtocolImplementsServer == Spec => RemoteCall
  <1>1. Init => Server!Init
    BY DEF Init, ApbpInit, Server!Init, Server!NoAsk, Server!NoAnswer, Server!NoUpload,
      Server!NoValue, Server!Value, Between, Value, NoValue, NoPair, Joined, NoUpload
  <1>2. CallInv /\ CallInv' /\ [Next]_vars => [Server!Next]_(Server!serverVars)
    BY ServerStep DEF CallInv
  <1> QED
    BY <1>1, <1>2, CallInvHolds, PTL DEF Spec, RemoteCall, Server!Spec
=============================================================================
