------------------------------ MODULE IrqApbp ------------------------------
(***************************************************************************)
(* The irq_apbp example.  The ARM9 sends a heartbeat through channel 0,    *)
(* which the DSP's main() echoes, and messages through channels 1 and 2,   *)
(* which an interrupt handler of the DSP counts; main() replies with the   *)
(* counters.                                                               *)
(*                                                                         *)
(* The ARM9 never waits: it skips a channel that isn't ready.              *)
(***************************************************************************)
EXTENDS Icu, Apbp

CONSTANTS
    Apbp,           \* ICU_IRQ_MASK_APBP
    MaxMessages,    \* bound on the messages of channels 1 and 2 together
    EarlyMessages   \* can the ARM9 send messages before main() is ready?

ASSUME IrqApbpAssumption ==
    /\ Apbp \in Sources /\ MaxMessages \in Nat /\ EarlyMessages \in BOOLEAN

VARIABLES
    todo,       \* main(): writes left before the loop
    pc,         \* main(): what its loop does next
    rep0,       \* main(): the heartbeat it has received
    snapshot,   \* main(): rep1 and rep2
    counter,    \* counter1 and counter2
    irqPc,      \* irqHandlerInt0(): what it does next, or "none"
    aPc,        \* ARM9: what it does next
    heartbeat,  \* ARM9: cmd0
    shown,      \* ARM9: rep1 and rep2
    owed,       \* history: heartbeats sent, and not yet read back
    sent,       \* history: messages sent through channels 1 and 2
    due         \* history: messages sent when the handler started

dspVars == <<todo, pc, rep0, snapshot, counter>>
armVars == <<aPc, heartbeat, shown, owed, sent>>
vars == <<reg, apbpVars, dspVars, irqPc, armVars, due>>

Messages == {1, 2}
Zero == [n \in Messages |-> 0]
Control == [n \in Channels |-> <<"CMD0", "CMD1", "CMD2">>[n + 1]]

\* main() up to its loop: teakInit(), and the interrupt of the APBP.
Setup == icuInit \o << Assign("control", {"CMD0"}) >> \o icuIrqSetup(Apbp, 0)
         \o << OrIn("cpu", {Irqs}), OrIn("cpu", {"int0"}) >>

Init ==
    /\ reg = [r \in Registers |-> {}]
    /\ ApbpInit([n \in Channels |-> 0], [n \in Channels |-> 0])
    /\ todo = Setup /\ pc = "setup" /\ rep0 = 0 /\ snapshot = Zero
    /\ counter = Zero /\ irqPc = "none"
    /\ aPc = "send0" /\ heartbeat = 0 /\ shown = Zero
    /\ owed = <<>> /\ sent = Zero /\ due = Zero

-----------------------------------------------------------------------------
(* DSP: main() *)

SetUp ==
    /\ pc = "setup"
    /\ Write(Head(todo)) /\ todo' = Tail(todo)
    /\ pc' = IF Len(todo) = 1 THEN "receive" ELSE "setup"
    /\ UNCHANGED <<rep0, snapshot, counter, apbpVars>>

ReceiveHeartbeat ==
    /\ pc = "receive" /\ apbpReceiveData(0)
    /\ rep0' = cmd[0]
    /\ pc' = "load1"
    /\ UNCHANGED <<todo, snapshot, counter, reg>>

LoadCounter(n) ==
    /\ pc = <<"load1", "load2">>[n]
    /\ snapshot' = [snapshot EXCEPT ![n] = counter[n]]
    /\ pc' = <<"load2", "reply0">>[n]
    /\ UNCHANGED <<todo, rep0, counter, reg, apbpVars>>

ReplyTo(id) ==
    /\ pc = <<"reply0", "reply1", "reply2">>[id + 1]
    /\ apbpSendData(id, IF id = 0 THEN rep0 ELSE snapshot[id])
    /\ pc' = <<"reply1", "reply2", "receive">>[id + 1]
    /\ UNCHANGED <<todo, rep0, snapshot, counter, reg>>

Main ==
    /\ irqPc = "none"
    /\ \/ SetUp \/ ReceiveHeartbeat
       \/ \E n \in Messages : LoadCounter(n)
       \/ \E id \in Channels : ReplyTo(id)
    /\ UNCHANGED <<irqPc, armVars, due>>

-----------------------------------------------------------------------------
(* DSP: irqHandlerInt0() *)

Enter ==
    /\ irqPc = "none" /\ Accept(0)
    /\ irqPc' = "check1"
    /\ due' = sent
    /\ UNCHANGED <<apbpVars, dspVars, armVars>>

\* Mutant of AfterCheck: only one of the channels is looked at.
AfterCheckFirst(n) == "ack"

\* What follows the test of a channel.
AfterCheck(n) == IF n = 1 THEN "check2" ELSE "ack"

\* Nothing in channel n.
Skip(n) ==
    /\ irqPc = <<"check1", "check2">>[n] /\ ~cmdNew[n]
    /\ irqPc' = AfterCheck(n)
    /\ UNCHANGED <<reg, apbpVars, dspVars, armVars, due>>

\* A message in channel n is counted, then read.
Count(n) ==
    /\ irqPc = <<"check1", "check2">>[n] /\ cmdNew[n]
    /\ counter' = [counter EXCEPT ![n] = @ + 1]
    /\ irqPc' = <<"read1", "read2">>[n]
    /\ UNCHANGED <<reg, apbpVars, todo, pc, rep0, snapshot, armVars, due>>

\* Mutant of Take: the message is left in the register.
TakeNothing(n) == cmdNew[n] /\ UNCHANGED apbpVars

Take(n) == apbpReceiveData(n)

Read(n) ==
    /\ irqPc = <<"read1", "read2">>[n]
    /\ Take(n)
    /\ irqPc' = AfterCheck(n)
    /\ UNCHANGED <<reg, dspVars, armVars, due>>

\* Mutant of AcknowledgeIrq: the interrupt isn't acknowledged.
AcknowledgeNothing ==
    /\ irqPc = "ack"
    /\ irqPc' = "return"
    /\ UNCHANGED <<reg, apbpVars, dspVars, armVars, due>>

AcknowledgeIrq ==
    /\ irqPc = "ack"
    /\ Write(Ack({Apbp}))
    /\ irqPc' = "return"
    /\ UNCHANGED <<apbpVars, dspVars, armVars, due>>

ReturnFromIrq ==
    /\ irqPc = "return"
    /\ Write(OrIn("cpu", {Irqs}))
    /\ irqPc' = "none" /\ due' = Zero
    /\ UNCHANGED <<apbpVars, dspVars, armVars>>

Handler ==
    \/ Enter \/ AcknowledgeIrq \/ ReturnFromIrq
    \/ \E n \in Messages : Skip(n) \/ Count(n) \/ Read(n)

-----------------------------------------------------------------------------
(* ARM9: main() *)

\* A write to a command register requests an interrupt, unless REG_APBP_CONTROL
\* disables it.
SendAndRequest(id, data) ==
    /\ dspSendData(id, data)
    /\ IF Control[id] \in reg["control"] THEN UNCHANGED reg ELSE Request(Apbp)

\* The heartbeat changes when the user presses A.  Only whether it is the same
\* matters.
SendHeartbeat ==
    /\ aPc = "send0"
    /\ \E h \in {heartbeat, 1 - heartbeat} :
         /\ heartbeat' = h
         /\ IF ~cmdNew[0]
            THEN SendAndRequest(0, h) /\ owed' = Append(owed, h)
            ELSE UNCHANGED <<reg, apbpVars, owed>>
    /\ aPc' = "send1"
    /\ UNCHANGED <<shown, sent>>

\* The user presses X or Y, or doesn't.
SendMessage(n) ==
    /\ aPc = <<"send1", "send2">>[n]
    /\ \/ /\ ~cmdNew[n] /\ sent[1] + sent[2] < MaxMessages
          /\ EarlyMessages \/ pc # "setup"
          /\ SendAndRequest(n, 0)
          /\ sent' = [sent EXCEPT ![n] = @ + 1]
       \/ UNCHANGED <<reg, apbpVars, sent>>
    /\ aPc' = <<"send2", "read0">>[n]
    /\ UNCHANGED <<heartbeat, shown, owed>>

ReadHeartbeat ==
    /\ aPc = "read0"
    /\ IF repUnread[0] THEN dspReceiveData(0) /\ owed' = Tail(owed)
       ELSE UNCHANGED <<apbpVars, owed>>
    /\ aPc' = "read1"
    /\ UNCHANGED <<reg, heartbeat, shown, sent>>

ReadCounter(n) ==
    /\ aPc = <<"read1", "read2">>[n]
    /\ IF repUnread[n]
       THEN dspReceiveData(n) /\ shown' = [shown EXCEPT ![n] = rep[n]]
       ELSE UNCHANGED <<apbpVars, shown>>
    /\ aPc' = <<"read2", "send0">>[n]
    /\ UNCHANGED <<reg, heartbeat, owed, sent>>

Arm9 ==
    /\ \/ SendHeartbeat \/ ReadHeartbeat
       \/ \E n \in Messages : SendMessage(n) \/ ReadCounter(n)
    /\ UNCHANGED <<dspVars, irqPc, due>>

-----------------------------------------------------------------------------
Next == Main \/ Handler \/ Arm9

Spec == Init /\ [][Next]_vars

\* Both CPUs run, and the DSP takes its interrupts.
FairSpec == Spec /\ WF_vars(Main) /\ WF_vars(Handler) /\ WF_vars(Arm9)

-----------------------------------------------------------------------------
(* Properties *)

\* Every heartbeat is echoed once and in order: those that haven't been read
\* back are in the registers and in main(), oldest first.
HeartbeatsInOrder ==
    LET one(condition, h) == IF condition THEN <<h>> ELSE <<>>
    IN  owed = one(repUnread[0], rep[0])
               \o one(pc \in {"load1", "load2", "reply0"}, rep0)
               \o one(cmdNew[0], cmd[0])

\* A message is counted exactly once: those that haven't been counted are in
\* the register.
CountedOnce ==
    \A n \in Messages :
        sent[n] = counter[n]
                  + IF cmdNew[n] /\ irqPc # <<"read1", "read2">>[n] THEN 1 ELSE 0

\* The handler doesn't return before it has counted every message that had
\* been sent when it started.
HandlerTakesAll ==
    irqPc = "return" => \A n \in Messages : counter[n] >= due[n]

\* What was counted is shown by the ARM9 at last.
CountsShown ==
    \A n \in Messages, v \in 1 .. MaxMessages :
        counter[n] >= v ~> shown[n] >= v

\* readme.md of examples/dsp, line 10, "Sets up a DSP IRQ when data is received":
\* the handler receives every message.
EveryMessageReceived == \A n \in Messages : cmdNew[n] ~> ~cmdNew[n]
=============================================================================
