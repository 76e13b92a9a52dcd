----------------------------- MODULE SpeakersMic -----------------------------
(***************************************************************************)
(* The example speakers_and_microphone.  The ARM9 sends a command, and a   *)
(* count that says whether it is a new one, in every frame.  main() of the *)
(* DSP starts it, and an interrupt handler records or plays two words at a *)
(* time until the end of two buffers.                                      *)
(*                                                                         *)
(* Heartbeats and replies are only printed, and have no value here.        *)
(***************************************************************************)
EXTENDS Icu, Apbp, FiniteSets

CONSTANTS
    MemoryWords,            \* words of the DSP's memory, 2^16
    BUFFER_BASE_1, BUFFER_END_1, BUFFER_BASE_2, BUFFER_END_2,
    FifoWords,              \* words of a transmit FIFO, 16
    MaxPresses              \* bound: no key is pressed after so many

ASSUME SpeakersMicAssumption ==
    /\ {MemoryWords, FifoWords, MaxPresses} \subseteq Nat
    /\ {BUFFER_BASE_1, BUFFER_END_1, BUFFER_BASE_2, BUFFER_END_2} \subseteq 0 .. MemoryWords - 1

\* Two buffers of pairs of words; the second one ends where the memory does.
ASSUME BuffersAssumption ==
    /\ 0 < BUFFER_BASE_1 /\ BUFFER_BASE_1 < BUFFER_END_1 /\ BUFFER_END_1 <= BUFFER_BASE_2
    /\ BUFFER_END_2 = 0
    /\ \A n \in {BUFFER_BASE_1, BUFFER_END_1, BUFFER_BASE_2, MemoryWords} : n % 2 = 0

VARIABLES
    pc,         \* main(): what it does next
    data,       \* main(): data0, data1, data2
    oldCount,   \* main(): old_command_count
    command,    \* command
    current,    \* BUFFER_CURRENT
    irqPc,      \* irqHandlerInt1(): what it does next, or "none"
    room,       \* words that the transmit FIFO takes
    aPc,        \* ARM9: what it does next
    aCommand,   \* ARM9: command
    aCount      \* ARM9: command_count

mainVars == <<pc, data, oldCount>>
armVars == <<aPc, aCommand, aCount>>
vars == <<reg, apbpVars, mainVars, command, current, irqPc, room, armVars>>

Source == Btdmp[0]

\* The registers after some writes: a flag is set if a write set it, or it was
\* set at first, and the writes that follow keep it or set it again.  Those of a
\* function that is called with interrupts disabled are one step: only the BTDMP
\* could act between them, and what it asks for is acknowledged before
\* interrupts are enabled again.
After(start, writes) ==
    [r \in Registers |->
        LET at == {i \in DOMAIN writes : writes[i].reg = r}
            Left(i, f) == \A j \in at : j > i => f \in writes[j].keep \cup writes[j].add
        IN  {f \in start[r] : Left(0, f)}
            \cup UNION {{f \in writes[i].add : Left(i, f)} : i \in at}]

\* What a channel, and data0 to data2 outside of the loop's body, hold at first.
NoData == [i \in Channels |-> IF i = 1 THEN "NONE" ELSE 0]

\* teakInit() and cpuEnableInt1() are over.
Init ==
    /\ reg = After([r \in Registers |-> {}], icuInit \o <<OrIn("cpu", {"int1"})>>)
    /\ ApbpInit(NoData, [i \in Channels |-> 0])
    /\ pc = "receive0"
    /\ data = NoData
    /\ oldCount = 0 /\ command = "NONE"
    /\ current = BUFFER_BASE_1 /\ irqPc = "none" /\ room = FifoWords
    /\ aPc = "keys" /\ aCommand = "NONE" /\ aCount = 0

\* The output is disabled with an empty FIFO.
WriteAll(writes) ==
    /\ reg' = After(reg, writes)
    /\ room' = IF \E i \in DOMAIN writes : writes[i].reg = "transmit" THEN FifoWords ELSE room

-----------------------------------------------------------------------------
(* DSP: main() *)

MainAt(here, next) == pc = here /\ pc' = next

ReceiveWord(id) ==
    /\ MainAt(<<"receive0", "receive1", "receive2">>[id + 1],
              <<"receive1", "receive2", "decide">>[id + 1])
    /\ apbpReceiveData(id)
    /\ data' = [data EXCEPT ![id] = cmd[id]]
    /\ UNCHANGED <<reg, room, oldCount, command, current>>

IsNew == data[2] # oldCount
Ignore ==
    /\ ~IsNew /\ MainAt("decide", "reply0")
    /\ UNCHANGED <<reg, room, data, oldCount, apbpVars, command, current>>
Accepted ==
    /\ IsNew /\ MainAt("decide", "stop")
    /\ oldCount' = data[2] /\ command' = data[1]
    /\ UNCHANGED <<reg, room, data, apbpVars, current>>

StopAll ==
    /\ MainAt("stop", "restart")
    /\ WriteAll(<<AndNot("cpu", {Irqs})>> \o btdmpDisableOutput(Source) \o btdmpDisableInput(Source))
    /\ UNCHANGED <<data, oldCount, apbpVars, command, current>>

\* Mutant of DirectionOf: the microphone is set up as the speakers are.
DirectionOfBoth(kind) == "transmit"

DirectionOf(kind) == IF kind = "RECORD" THEN "receive" ELSE "transmit"

Restart ==
    /\ MainAt("restart", "reply0")
    /\ current' = BUFFER_BASE_1
    /\ WriteAll(IF command = "NONE" THEN <<>>
                ELSE BtdmpSetup(DirectionOf(command), Source, 1) \o <<OrIn("cpu", {Irqs})>>)
    /\ UNCHANGED <<data, oldCount, apbpVars, command>>

Reply(id) ==
    /\ MainAt(<<"reply0", "reply1", "reply2">>[id + 1],
              <<"reply1", "reply2", "receive0">>[id + 1])
    /\ apbpSendData(id, 0)
    /\ data' = IF id = 2 THEN NoData ELSE data
    /\ UNCHANGED <<reg, room, oldCount, command, current>>

Main ==
    /\ irqPc = "none"
    /\ \/ Ignore \/ Accepted \/ StopAll \/ Restart
       \/ \E id \in Channels : ReceiveWord(id) \/ Reply(id)
    /\ UNCHANGED <<irqPc, armVars>>

-----------------------------------------------------------------------------
(* DSP: irqHandlerInt1() *)

IrqAt(here, next) == irqPc = here /\ irqPc' = next

Enter ==
    /\ irqPc = "none" /\ Accept(1)
    /\ irqPc' = CASE command = "RECORD" -> "record left" [] command = "PLAY" -> "load"
                  [] OTHER -> "ack"
    /\ UNCHANGED <<command, current, room>>

\* A word comes while the input is enabled; it is stored.
NextWord(address) == (address + 1) % MemoryWords
CanReceive == Source \in reg["receive"]
Record(here, next) ==
    /\ IrqAt(here, next) /\ CanReceive
    /\ current' = NextWord(current)
    /\ UNCHANGED <<reg, command, room>>

LoadTwo ==
    /\ IrqAt("load", "play left")
    /\ current' = NextWord(NextWord(current))
    /\ UNCHANGED <<reg, command, room>>
Play(here, next) ==
    /\ IrqAt(here, next) /\ room > 0
    /\ room' = room - 1
    /\ UNCHANGED <<reg, command, current>>

\* Mutant of AtSecondEnd: the end that the comment names, which has 17 bits.
AtSecondEndNever == current = MemoryWords

AtSecondEnd == current = BUFFER_END_2

\* The end of the first buffer goes on with the second one; after that, it stops.
AtEnd ==
    /\ irqPc \in {"recorded", "played"} /\ irqPc' = "ack"
    /\ IF current = BUFFER_END_1
       THEN current' = BUFFER_BASE_2 /\ UNCHANGED <<reg, room, command>>
       ELSE IF AtSecondEnd
       THEN /\ WriteAll((IF irqPc = "recorded" THEN btdmpDisableInput(Source)
                         ELSE btdmpDisableOutput(Source)) \o <<AndNot("cpu", {Irqs})>>)
            /\ command' = "NONE"
            /\ UNCHANGED current
       ELSE UNCHANGED <<reg, room, command, current>>

AcknowledgeIrq ==
    /\ IrqAt("ack", "return") /\ Write(Ack({Source}))
    /\ UNCHANGED <<command, current, room>>
ReturnFromIrq ==
    /\ IrqAt("return", "none") /\ Write(OrIn("cpu", {Irqs}))
    /\ UNCHANGED <<command, current, room>>

Handler ==
    /\ \/ Enter \/ LoadTwo \/ AtEnd \/ AcknowledgeIrq \/ ReturnFromIrq
       \/ Record("record left", "record right") \/ Record("record right", "recorded")
       \/ Play("play left", "play right") \/ Play("play right", "played")
    /\ UNCHANGED <<apbpVars, mainVars, armVars>>

\* The BTDMP asks for words while a direction is enabled, and plays those it has.
Hardware ==
    /\ \/ /\ Source \in reg["transmit"] \cup reg["receive"]
          /\ Request(Source) /\ UNCHANGED room
       \/ /\ Source \in reg["transmit"] /\ room < FifoWords
          /\ room' = FifoWords /\ UNCHANGED reg
    /\ UNCHANGED <<apbpVars, mainVars, command, current, irqPc, armVars>>

-----------------------------------------------------------------------------
(* ARM9: main() *)

\* X, A, or both in a frame, which count twice.
Keys ==
    /\ aPc = "keys" /\ aPc' = "send0"
    /\ \/ UNCHANGED <<aCommand, aCount>>
       \/ \E pressed \in SUBSET {"RECORD", "PLAY"} \ {{}} :
               /\ aCount' = aCount + Cardinality(pressed) /\ aCount' <= MaxPresses
               /\ aCommand' = IF "PLAY" \in pressed THEN "PLAY" ELSE "RECORD"
    /\ UNCHANGED apbpVars
SendIfReady(id) ==
    /\ aPc = <<"send0", "send1", "send2">>[id + 1]
    /\ \/ dspSendData(id, CASE id = 0 -> 0 [] id = 1 -> aCommand [] id = 2 -> aCount)
       \/ cmdNew[id] /\ UNCHANGED apbpVars
    /\ aPc' = <<"send1", "send2", "read0">>[id + 1]
    /\ UNCHANGED <<aCommand, aCount>>
ReadIfReady(id) ==
    /\ aPc = <<"read0", "read1", "read2">>[id + 1]
    /\ dspReceiveData(id) \/ (~repUnread[id] /\ UNCHANGED apbpVars)
    /\ aPc' = <<"read1", "read2", "keys">>[id + 1]
    /\ UNCHANGED <<aCommand, aCount>>

Arm9 ==
    /\ Keys \/ \E id \in Channels : SendIfReady(id) \/ ReadIfReady(id)
    /\ UNCHANGED <<reg, mainVars, command, current, irqPc, room>>

Next == Main \/ Handler \/ Hardware \/ Arm9

\* Both CPUs go on, the BTDMP plays what it has, and main() gets its turn
\* between interrupts, which come with the audio and not faster.
FairSpec == Init /\ [][Next]_vars /\ SF_vars(Main) /\ WF_vars(Handler) /\ WF_vars(Hardware)
            /\ WF_vars(Arm9)

-----------------------------------------------------------------------------
(* Properties *)

\* The handler only reads and writes the two buffers, whatever main() does to
\* the command and to BUFFER_CURRENT between two interrupts, although the second
\* one ends where addresses wrap to 0.
Buffers == BUFFER_BASE_1 .. BUFFER_END_1 - 1 \cup BUFFER_BASE_2 .. (BUFFER_END_2 - 1) % MemoryWords
StaysInside ==
    /\ irqPc \in {"record left", "record right", "load"} => current \in Buffers
    /\ irqPc = "load" => NextWord(current) \in Buffers

\* The handler waits for a direction that isn't enabled: main() has replaced
\* the command (main.c:101) and not disabled interrupts yet (main.c:103).
HandlerHangs ==
    /\ pc = "stop"
    /\ \/ irqPc \in {"record left", "record right"} /\ ~CanReceive
       \/ irqPc \in {"play left", "play right"} /\ room = 0 /\ Source \notin reg["transmit"]

\* The DSP answers in every frame, and whatever is recorded or played ends, as
\* long as no interrupt comes between the two lines; there it may hang, and
\* nowhere else.
DspAnswers == []<>repUnread[2] \/ <>[]HandlerHangs
=============================================================================
