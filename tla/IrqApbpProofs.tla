---------------------------- MODULE IrqApbpProofs ----------------------------
(***************************************************************************)
(* The safety properties of the irq_apbp example, for any number of        *)
(* messages, whatever other sources the ICU has, and with messages that    *)
(* are sent before main() is ready or not.                                 *)
(***************************************************************************)
EXTENDS IrqApbp, SequenceTheorems, TLAPS

TypeInv ==
    /\ cmdNew \in [Channels -> BOOLEAN] /\ repUnread \in [Channels -> BOOLEAN]
    /\ cmd \in [Channels -> Nat] /\ rep \in [Channels -> Nat]
    /\ counter \in [Messages -> Nat] /\ snapshot \in [Messages -> Nat]
    /\ sent \in [Messages -> Nat] /\ due \in [Messages -> Nat]
    /\ rep0 \in Nat /\ heartbeat \in {0, 1}

\* The handler reads a channel only after it has counted its message.
CountInv ==
    /\ CountedOnce
    /\ \A n \in Messages : irqPc = <<"read1", "read2">>[n] => cmdNew[n]

\* Past a channel, the handler has counted what was sent there before it started.
DueInv ==
    /\ \A n \in Messages : due[n] <= sent[n]
    /\ irqPc \in {"check2", "read2", "ack", "return"} => counter[1] >= due[1]
    /\ irqPc \in {"ack", "return"} => counter[2] >= due[2]

IInv == TypeInv /\ CountInv /\ DueInv /\ HeartbeatsInOrder

\* Nothing has been sent, and nothing counted.
LEMMA InitInv == Init => IInv
  <1> SUFFICES ASSUME Init PROVE IInv
    OBVIOUS
  <1> USE DEF Channels, Messages, Zero, Init, ApbpInit
  <1>1. TypeInv
    BY DEF TypeInv
  <1>2. CountInv /\ DueInv
    BY DEF CountInv, CountedOnce, DueInv
  <1>3. HeartbeatsInOrder
    BY EmptySeq, ConcatEmptySeq DEF HeartbeatsInOrder
  <1> QED
    BY <1>1, <1>2, <1>3 DEF IInv

-----------------------------------------------------------------------------
(* What the steps of the ARM9 and of main() do to the registers *)

\* A message is sent, or the register isn't free.
LEMMA SendMessageEffect ==
    ASSUME NEW n \in Messages, Arm9, SendMessage(n), TypeInv
    PROVE  /\ UNCHANGED <<heartbeat, shown, owed, dspVars, irqPc, due>>
           /\ \/ UNCHANGED <<apbpVars, sent>>
              \/ /\ ~cmdNew[n] /\ sent' = [sent EXCEPT ![n] = @ + 1]
                 /\ cmdNew' = [cmdNew EXCEPT ![n] = TRUE]
                 /\ cmd' = [cmd EXCEPT ![n] = 0]
                 /\ UNCHANGED <<rep, repUnread>>
  BY DEF Arm9, SendMessage, SendAndRequest, dspSendData, apbpVars

\* Sending a heartbeat either finds CMD0 still full and drops it, or puts it last
\* in what the DSP owes.
LEMMA SendHeartbeatEffect ==
    ASSUME Arm9, SendHeartbeat, TypeInv
    PROVE  /\ heartbeat' \in {0, 1} /\ UNCHANGED <<shown, sent, dspVars, irqPc, due>>
           /\ \/ UNCHANGED <<apbpVars, owed>>
              \/ /\ ~cmdNew[0] /\ owed' = Append(owed, heartbeat')
                 /\ cmdNew' = [cmdNew EXCEPT ![0] = TRUE]
                 /\ cmd' = [cmd EXCEPT ![0] = heartbeat']
                 /\ UNCHANGED <<rep, repUnread>>
  BY DEF Arm9, SendHeartbeat, SendAndRequest, dspSendData, apbpVars, TypeInv

\* Every step is one of these.
LEMMA Cases ==
    ASSUME [Next]_vars
    PROVE  \/ Main /\ (SetUp \/ ReceiveHeartbeat)
           \/ Main /\ \E n \in Messages : LoadCounter(n)
           \/ Main /\ \E id \in Channels : ReplyTo(id)
           \/ Enter \/ AcknowledgeIrq \/ ReturnFromIrq
           \/ \E n \in Messages : Skip(n) \/ Count(n) \/ Read(n)
           \/ Arm9 /\ (SendHeartbeat \/ ReadHeartbeat)
           \/ Arm9 /\ \E n \in Messages : SendMessage(n) \/ ReadCounter(n)
           \/ UNCHANGED vars
  BY DEF Next, Main, Handler, Arm9

\* The registers and flags after an access hold what they should.
LEMMA AccessTypes ==
    ASSUME TypeInv, NEW id \in Channels, NEW v \in Nat,
           \/ LoadCmd(id) \/ apbpSendData(id, v) \/ dspReceiveData(id)
           \/ dspSendData(id, v)
    PROVE  /\ cmdNew' \in [Channels -> BOOLEAN] /\ repUnread' \in [Channels -> BOOLEAN]
           /\ cmd' \in [Channels -> Nat] /\ rep' \in [Channels -> Nat]
  BY DEF TypeInv, LoadCmd, apbpSendData, dspReceiveData, dspSendData

\* No step changes the type of a variable.
LEMMA TypeStep ==
    ASSUME TypeInv, [Next]_vars
    PROVE  TypeInv'
  <1> USE DEF TypeInv, Channels, Messages, apbpVars, armVars, dspVars, vars
  <1>1. ASSUME Main, SetUp \/ ReceiveHeartbeat
        PROVE  TypeInv'
    <2>1. CASE SetUp
      BY <1>1, <2>1 DEF Main, SetUp
    <2>2. CASE ReceiveHeartbeat
      <3>1. LoadCmd(0)
        BY <2>2 DEF ReceiveHeartbeat, apbpReceiveData
      <3> QED
        BY <1>1, <2>2, <3>1, AccessTypes DEF Main, ReceiveHeartbeat
    <2> QED
      BY <1>1, <2>1, <2>2
  <1>2. ASSUME Main, NEW n \in Messages, LoadCounter(n)
        PROVE  TypeInv'
    BY <1>2 DEF Main, LoadCounter
  <1>3. ASSUME Main, NEW id \in Channels, ReplyTo(id)
        PROVE  TypeInv'
    BY <1>3 DEF Main, ReplyTo, apbpSendData
  <1>4. ASSUME Enter \/ AcknowledgeIrq \/ ReturnFromIrq
        PROVE  TypeInv'
    BY <1>4 DEF Enter, AcknowledgeIrq, ReturnFromIrq, Zero
  <1>5. ASSUME NEW n \in Messages, Skip(n) \/ Count(n) \/ Read(n)
        PROVE  TypeInv'
    <2>1. CASE Skip(n) \/ Count(n)
      BY <2>1 DEF Skip, Count
    <2>2. CASE Read(n)
      <3>1. LoadCmd(n)
        BY <2>2 DEF Read, Take, apbpReceiveData
      <3> QED
        BY <2>2, <3>1, AccessTypes DEF Read
    <2> QED
      BY <1>5, <2>1, <2>2
  <1>6. ASSUME Arm9, SendHeartbeat \/ ReadHeartbeat
        PROVE  TypeInv'
    <2>1. CASE SendHeartbeat
      <3> HIDE DEF TypeInv
      <3>1. /\ heartbeat' \in {0, 1} /\ UNCHANGED <<sent, dspVars, due>>
            /\ \/ UNCHANGED apbpVars
               \/ /\ cmdNew' = [cmdNew EXCEPT ![0] = TRUE]
                  /\ cmd' = [cmd EXCEPT ![0] = heartbeat']
                  /\ UNCHANGED <<rep, repUnread>>
        BY <1>6, <2>1, SendHeartbeatEffect
      <3>2. cmdNew' \in [Channels -> BOOLEAN] /\ repUnread' \in [Channels -> BOOLEAN]
        BY <3>1 DEF TypeInv
      <3>3. cmd' \in [Channels -> Nat] /\ rep' \in [Channels -> Nat]
        BY <3>1 DEF TypeInv
      <3>4. UNCHANGED <<counter, snapshot, rep0, due>> /\ sent' \in [Messages -> Nat]
        BY <3>1 DEF TypeInv
      <3> QED
        BY <3>1, <3>2, <3>3, <3>4 DEF TypeInv
    <2>2. CASE ReadHeartbeat
      BY <1>6, <2>2 DEF Arm9, ReadHeartbeat, dspReceiveData
    <2> QED
      BY <1>6, <2>1, <2>2
  <1>7. ASSUME Arm9, NEW n \in Messages, SendMessage(n) \/ ReadCounter(n)
        PROVE  TypeInv'
    <2>1. CASE SendMessage(n)
      <3> HIDE DEF TypeInv
      <3>1. /\ heartbeat' \in {0, 1} /\ UNCHANGED <<dspVars, due>>
            /\ \/ UNCHANGED <<apbpVars, sent>>
               \/ /\ sent' = [sent EXCEPT ![n] = @ + 1]
                  /\ cmdNew' = [cmdNew EXCEPT ![n] = TRUE]
                  /\ cmd' = [cmd EXCEPT ![n] = 0]
                  /\ UNCHANGED <<rep, repUnread>>
        BY <1>7, <2>1, SendMessageEffect DEF TypeInv
      <3>2. cmdNew' \in [Channels -> BOOLEAN] /\ repUnread' \in [Channels -> BOOLEAN]
        BY <3>1 DEF TypeInv
      <3>3. cmd' \in [Channels -> Nat] /\ rep' \in [Channels -> Nat]
        BY <3>1 DEF TypeInv
      <3>4. UNCHANGED <<counter, snapshot, rep0, due>> /\ sent' \in [Messages -> Nat]
        BY <3>1 DEF TypeInv
      <3> QED
        BY <3>1, <3>2, <3>3, <3>4 DEF TypeInv
    <2>2. CASE ReadCounter(n)
      BY <1>7, <2>2 DEF Arm9, ReadCounter, dspReceiveData
    <2> QED
      BY <1>7, <2>1, <2>2
  <1> QED
    BY <1>1, <1>2, <1>3, <1>4, <1>5, <1>6, <1>7, Cases

\* The counters.  The handler runs to its end before main() goes on, but the
\* ARM9 sends at any time.
LEMMA CountStep ==
    ASSUME TypeInv, CountInv, DueInv, [Next]_vars
    PROVE  CountInv' /\ DueInv'
  <1> USE DEF TypeInv, CountInv, CountedOnce, DueInv, Channels, Messages, apbpVars,
        armVars, dspVars, vars
  <1>1. ASSUME Main, SetUp \/ ReceiveHeartbeat
        PROVE  CountInv' /\ DueInv'
    BY <1>1 DEF Main, SetUp, ReceiveHeartbeat, apbpReceiveData, LoadCmd
  <1>2. ASSUME Main, NEW n \in Messages, LoadCounter(n)
        PROVE  CountInv' /\ DueInv'
    BY <1>2 DEF Main, LoadCounter
  <1>3. ASSUME Main, NEW id \in Channels, ReplyTo(id)
        PROVE  CountInv' /\ DueInv'
    BY <1>3 DEF Main, ReplyTo, apbpSendData
  <1>4. ASSUME Enter \/ AcknowledgeIrq \/ ReturnFromIrq
        PROVE  CountInv' /\ DueInv'
    BY <1>4 DEF Enter, AcknowledgeIrq, ReturnFromIrq, Zero
  <1>5. ASSUME NEW n \in Messages, Skip(n)
        PROVE  CountInv' /\ DueInv'
    BY <1>5 DEF Skip, AfterCheck
  <1>6. ASSUME NEW n \in Messages, Count(n)
        PROVE  CountInv' /\ DueInv'
    BY <1>6 DEF Count
  <1>7. ASSUME NEW n \in Messages, Read(n)
        PROVE  CountInv' /\ DueInv'
    BY <1>7 DEF Read, Take, apbpReceiveData, LoadCmd, AfterCheck
  <1>8. ASSUME Arm9, SendHeartbeat \/ ReadHeartbeat
        PROVE  CountInv' /\ DueInv'
    <2>1. CASE SendHeartbeat
      <3> HIDE DEF TypeInv
      <3>1. /\ UNCHANGED <<counter, sent, due, irqPc>>
            /\ \/ UNCHANGED cmdNew
               \/ cmdNew' = [cmdNew EXCEPT ![0] = TRUE]
        BY <1>8, <2>1, SendHeartbeatEffect
      <3> QED
        BY <3>1 DEF TypeInv
    <2>2. CASE ReadHeartbeat
      BY <1>8, <2>2 DEF Arm9, ReadHeartbeat, dspReceiveData
    <2> QED
      BY <1>8, <2>1, <2>2
  <1>9. ASSUME Arm9, NEW n \in Messages, SendMessage(n) \/ ReadCounter(n)
        PROVE  CountInv' /\ DueInv'
    <2>1. CASE SendMessage(n)
      BY <1>9, <2>1, SendMessageEffect
    <2>2. CASE ReadCounter(n)
      BY <1>9, <2>2 DEF Arm9, ReadCounter, dspReceiveData
    <2> QED
      BY <1>9, <2>1, <2>2
  <1>10. CASE UNCHANGED vars
    BY <1>10
  <1> QED
    BY <1>1, <1>2, <1>3, <1>4, <1>5, <1>6, <1>7, <1>8, <1>9, <1>10, Cases

-----------------------------------------------------------------------------
(* The heartbeats *)

One(condition, h) == IF condition THEN <<h>> ELSE <<>>

\* What is in a place is a sequence of at most one heartbeat.
LEMMA OneType ==
    ASSUME NEW h \in Nat, NEW condition
    PROVE  One(condition, h) \in Seq(Nat)
  BY DEF One

\* Where the heartbeats are: in REP0, in main() and in CMD0.
InRep == One(repUnread[0], rep[0])
InMain == One(pc \in {"load1", "load2", "reply0"}, rep0)
InCmd == One(cmdNew[0], cmd[0])

\* HeartbeatsInOrder says that what is owed is what the three places hold.
LEMMA Places == HeartbeatsInOrder <=> owed = InRep \o InMain \o InCmd
  BY DEF HeartbeatsInOrder, One, InRep, InMain, InCmd

\* A heartbeat is received and passed on by main(), sent and read by the ARM9.
LEMMA Sequences ==
    ASSUME NEW s \in Seq(Nat), NEW h \in Nat
    PROVE  /\ <<h>> \in Seq(Nat) /\ <<>> \in Seq(Nat)
           /\ s \o <<>> = s /\ <<>> \o s = s /\ s \o <<h>> \in Seq(Nat)
  <1>1. <<h>> \in Seq(Nat) /\ <<>> \in Seq(Nat)
    OBVIOUS
  <1> QED
    BY <1>1, ConcatEmptySeq, ConcatProperties

\* main() takes a heartbeat out of CMD0: it stays last of those owed.
LEMMA Received ==
    ASSUME NEW s \in Seq(Nat), NEW h \in Nat
    PROVE  s \o <<>> \o <<h>> = s \o <<h>> \o <<>>
  BY Sequences

\* main() writes a heartbeat to REP0: it stays the oldest.
LEMMA Replied ==
    ASSUME NEW t \in Seq(Nat), NEW h \in Nat
    PROVE  <<>> \o <<h>> \o t = <<h>> \o <<>> \o t
  BY Sequences

\* The ARM9 writes a heartbeat to CMD0: it is the newest.
LEMMA Sent ==
    ASSUME NEW s \in Seq(Nat), NEW t \in Seq(Nat), NEW h \in Nat
    PROVE  Append(s \o t \o <<>>, h) = s \o t \o <<h>>
  <1>1. s \o t \in Seq(Nat)
    BY ConcatProperties
  <1> QED
    BY <1>1, Sequences, AppendIsConcat

\* The ARM9 reads the oldest heartbeat back: the others stay in order.
LEMMA ReadBack ==
    ASSUME NEW s \in Seq(Nat), NEW t \in Seq(Nat), NEW h \in Nat
    PROVE  Tail(<<h>> \o s \o t) = <<>> \o s \o t
  <1>1. <<h>> \o s \o t = <<h>> \o (s \o t) /\ s \o t \in Seq(Nat)
    BY Sequences, ConcatAssociative, ConcatProperties
  <1>2. ASSUME NEW u \in Seq(Nat) PROVE Tail(<<h>> \o u) = u
    <2>1. /\ <<h>> \o u \in Seq(Nat) /\ <<h>> \o u # <<>>
          /\ Len(<<h>> \o u) = 1 + Len(u)
          /\ \A i \in 1 .. Len(u) : (<<h>> \o u)[i + 1] = u[i]
      OBVIOUS
    <2>2. /\ Tail(<<h>> \o u) \in Seq(Nat) /\ Len(Tail(<<h>> \o u)) = Len(u)
          /\ \A i \in 1 .. Len(u) : Tail(<<h>> \o u)[i] = u[i]
      BY <2>1, HeadTailProperties
    <2> QED
      BY <2>2, SeqEqual
  <1> QED
    BY <1>1, <1>2, Sequences

\* Every step of the ARM9, of main() and of the handler keeps the places in order.
LEMMA HeartbeatStep ==
    ASSUME TypeInv, HeartbeatsInOrder, [Next]_vars
    PROVE  HeartbeatsInOrder'
  <1>1. owed = InRep \o InMain \o InCmd
    BY Places
  <1>2. InRep \in Seq(Nat) /\ InMain \in Seq(Nat) /\ InCmd \in Seq(Nat)
    BY OneType DEF TypeInv, Channels, InRep, InMain, InCmd
  <1>3. SUFFICES owed' = InRep' \o InMain' \o InCmd'
    BY DEF HeartbeatsInOrder, One, InRep, InMain, InCmd
  <1> DEFINE Same == InRep' = InRep /\ InMain' = InMain /\ InCmd' = InCmd /\ owed' = owed
  <1>4. Same => owed' = InRep' \o InMain' \o InCmd'
    BY <1>1
  <1> USE DEF TypeInv, Channels, Messages, apbpVars, armVars, dspVars, vars
  <1>5. ASSUME Main, SetUp
        PROVE  Same
    BY <1>5 DEF Main, SetUp, One, InRep, InMain, InCmd
  <1>6. ASSUME Main, ReceiveHeartbeat
        PROVE  owed' = InRep' \o InMain' \o InCmd'
    <2>1. /\ InMain = <<>> /\ InCmd = <<cmd[0]>> /\ InRep' = InRep
          /\ InMain' = <<cmd[0]>> /\ InCmd' = <<>> /\ owed' = owed
      BY <1>6 DEF Main, ReceiveHeartbeat, apbpReceiveData, LoadCmd, One, InRep, InMain,
        InCmd
    <2>2. cmd[0] \in Nat
      OBVIOUS
    <2> QED
      BY <1>1, <1>2, <2>1, <2>2, Received
  <1>7. ASSUME Main, NEW n \in Messages, LoadCounter(n)
        PROVE  Same
    BY <1>7 DEF Main, LoadCounter, One, InRep, InMain, InCmd
  <1>8. ASSUME Main, ReplyTo(0)
        PROVE  owed' = InRep' \o InMain' \o InCmd'
    <2>1. /\ InRep = <<>> /\ InMain = <<rep0>> /\ InRep' = <<rep0>>
          /\ InMain' = <<>> /\ InCmd' = InCmd /\ owed' = owed
      BY <1>8 DEF Main, ReplyTo, apbpSendData, One, InRep, InMain, InCmd
    <2> QED
      BY <1>1, <1>2, <2>1, Replied
  <1>9. ASSUME Main, NEW id \in Messages, ReplyTo(id)
        PROVE  Same
    <2>1. /\ repUnread'[0] <=> repUnread[0]
          /\ rep'[0] = rep[0] /\ UNCHANGED <<cmd, cmdNew, rep0, owed>>
          /\ pc \in {"reply1", "reply2"} /\ pc' \in {"reply2", "receive"}
      BY <1>9 DEF Main, ReplyTo, apbpSendData
    <2> QED
      BY <2>1 DEF One, InRep, InMain, InCmd
  <1>10. ASSUME Enter \/ AcknowledgeIrq \/ ReturnFromIrq
         PROVE  Same
    BY <1>10 DEF Enter, AcknowledgeIrq, ReturnFromIrq, One, InRep, InMain, InCmd
  <1>11. ASSUME NEW n \in Messages, Skip(n) \/ Count(n) \/ Read(n)
         PROVE  Same
    <2>1. /\ cmdNew'[0] <=> cmdNew[0]
          /\ UNCHANGED <<cmd, rep, repUnread, rep0, pc, owed>>
      BY <1>11 DEF Skip, Count, Read, Take, apbpReceiveData, LoadCmd
    <2> QED
      BY <2>1 DEF One, InRep, InMain, InCmd
  <1>12. ASSUME Arm9, SendHeartbeat
         PROVE  owed' = InRep' \o InMain' \o InCmd'
    <2>1. InRep' = InRep /\ InMain' = InMain
      BY <1>12, SendHeartbeatEffect DEF One, InRep, InMain
    <2>2. CASE UNCHANGED <<apbpVars, owed>>
      BY <1>4, <2>1, <2>2 DEF InCmd
    <2>3. CASE /\ ~cmdNew[0] /\ owed' = Append(owed, heartbeat')
               /\ cmdNew' = [cmdNew EXCEPT ![0] = TRUE]
               /\ cmd' = [cmd EXCEPT ![0] = heartbeat']
      <3>1. InCmd = <<>> /\ InCmd' = <<heartbeat'>>
        BY <2>3 DEF One, InCmd
      <3>2. heartbeat' \in Nat
        BY <1>12, SendHeartbeatEffect
      <3>3. owed = InRep \o InMain \o <<>> /\ owed' = Append(owed, heartbeat')
        BY <1>1, <2>3, <3>1
      <3> QED
        BY <1>2, <2>1, <3>1, <3>2, <3>3, Sent
    <2> QED
      BY <1>12, <2>2, <2>3, SendHeartbeatEffect
  <1>13. ASSUME Arm9, ReadHeartbeat
         PROVE  owed' = InRep' \o InMain' \o InCmd'
    <2>1. CASE repUnread[0]
      <3>1. /\ InRep = <<rep[0]>> /\ InRep' = <<>> /\ InMain' = InMain
            /\ InCmd' = InCmd /\ owed' = Tail(owed)
        BY <1>13, <2>1 DEF Arm9, ReadHeartbeat, dspReceiveData, One, InRep, InMain, InCmd
      <3>2. rep[0] \in Nat
        OBVIOUS
      <3> QED
        BY <1>1, <1>2, <3>1, <3>2, ReadBack
    <2>2. CASE ~repUnread[0]
      BY <1>4, <1>13, <2>2 DEF Arm9, ReadHeartbeat, One, InRep, InMain, InCmd
    <2> QED
      BY <2>1, <2>2
  <1>14. ASSUME Arm9, NEW n \in Messages, SendMessage(n) \/ ReadCounter(n)
         PROVE  Same
    <2>1. CASE SendMessage(n)
      BY <1>14, <2>1, SendMessageEffect DEF One, InRep, InMain, InCmd
    <2>2. CASE ReadCounter(n)
      BY <1>14, <2>2 DEF Arm9, ReadCounter, dspReceiveData, One, InRep, InMain, InCmd
    <2> QED
      BY <1>14, <2>1, <2>2
  <1>15. CASE UNCHANGED vars
    BY <1>4, <1>15 DEF One, InRep, InMain, InCmd
  <1>16. ASSUME Main, NEW id \in Channels, ReplyTo(id)
         PROVE  owed' = InRep' \o InMain' \o InCmd'
    <2>1. id = 0 \/ id \in Messages
      BY <1>16
    <2> HIDE DEF Same
    <2> QED
      BY <1>4, <1>8, <1>9, <1>16, <2>1
  <1> HIDE DEF Same
  <1> QED
    BY <1>4, <1>5, <1>6, <1>7, <1>10, <1>11, <1>12, <1>13, <1>14, <1>15, <1>16, Cases

-----------------------------------------------------------------------------

\* The inductive invariant: messages that were sent are either counted or in their
\* register, where the handler has still to look, and heartbeats are in order.
THEOREM InvHolds == Spec => []IInv
  <1>1. ASSUME IInv, [Next]_vars PROVE IInv'
    BY <1>1, TypeStep, CountStep, HeartbeatStep DEF IInv
  <1> QED
    BY <1>1, InitInv, PTL DEF Spec

\* irq_apbp: a message is counted exactly once, however the ARM9 sends while the
\* handler runs and whenever the interrupt comes.
THEOREM CountedOnceHolds == Spec => []CountedOnce
  <1>1. IInv => CountedOnce
    BY DEF IInv, CountInv
  <1> QED
    BY <1>1, InvHolds, PTL

\* When irqHandlerInt0() returns it has counted every message that was sent before
\* it started: none waits for the next interrupt.
THEOREM HandlerTakesAllHolds == Spec => []HandlerTakesAll
  <1>1. IInv => HandlerTakesAll
    BY DEF IInv, DueInv, HandlerTakesAll, Messages
  <1> QED
    BY <1>1, InvHolds, PTL

\* The heartbeats that main() echoes between interrupts come back once each and in
\* the order they were sent.
THEOREM HeartbeatsInOrderHolds == Spec => []HeartbeatsInOrder
  <1>1. IInv => HeartbeatsInOrder
    BY DEF IInv
  <1> QED
    BY <1>1, InvHolds, PTL
=============================================================================
