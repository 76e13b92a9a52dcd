-------------------------- MODULE SpeakersMicProofs --------------------------
(***************************************************************************)
(* The interrupt handler of speakers_and_microphone stays inside of its    *)
(* two buffers, for buffers of any sizes, any number of key presses and    *)
(* every interleaving of main(), the handler, the audio and the ARM9.      *)
(*                                                                         *)
(* Between two interrupts BUFFER_CURRENT is the address of a pair of words *)
(* of a buffer, or the end of the second one; then no interrupt comes,     *)
(* because the function that disabled the channel has masked its source    *)
(* (btdmpDisableInput) or routed it to no interrupt (btdmpDisableOutput).  *)
(***************************************************************************)
EXTENDS SpeakersMic, TLAPS

Pairs == {c \in Buffers : c % 2 = 0}

\* The source cannot interrupt.
Quiet == Source \in reg["disable"] \/ Source \notin reg["int1"]

RegInv ==
    /\ reg = [r \in Registers |-> reg[r]]
    /\ reg["int1"] \subseteq {Source}

PositionInv ==
    /\ irqPc \in {"none", "record left", "record right", "recorded", "load",
                  "play left", "play right", "played", "ack", "return"}
    /\ irqPc \in {"record left", "load"} => current \in Pairs
    /\ irqPc = "record right" => \E c \in Pairs : current = NextWord(c)
    /\ irqPc \in {"recorded", "play left", "play right", "played"} =>
         current \in Pairs \cup {BUFFER_END_1, BUFFER_END_2}
    /\ irqPc \in {"none", "ack", "return"} =>
         current \in Pairs \/ (current = BUFFER_END_2 /\ Quiet)

IInv == RegInv /\ PositionInv

-----------------------------------------------------------------------------
(* Addresses *)

\* The two buffers of speakers_microphone: the second one ends where memory does.
LEMMA BufferSets ==
    /\ MemoryWords \in Nat /\ BUFFER_BASE_1 \in Nat /\ BUFFER_END_1 \in Nat
    /\ BUFFER_BASE_2 \in Nat /\ BUFFER_END_2 = 0
    /\ BUFFER_BASE_2 < MemoryWords
    /\ Buffers = BUFFER_BASE_1 .. BUFFER_END_1 - 1 \cup BUFFER_BASE_2 .. MemoryWords - 1
  <1>1. /\ MemoryWords \in Nat /\ BUFFER_BASE_2 \in 0 .. MemoryWords - 1
        /\ BUFFER_BASE_1 \in 0 .. MemoryWords - 1 /\ BUFFER_END_1 \in 0 .. MemoryWords - 1
    BY SpeakersMicAssumption
  <1>2. BUFFER_END_2 = 0
    BY BuffersAssumption
  <1>3. (0 - 1) % MemoryWords = MemoryWords - 1
    BY <1>1
  <1> QED
    BY <1>1, <1>2, <1>3 DEF Buffers

\* An address of 16 bits wraps after the last word.
LEMMA NextInMemory ==
    ASSUME NEW c \in 0 .. MemoryWords - 1
    PROVE  NextWord(c) = IF c + 1 = MemoryWords THEN 0 ELSE c + 1
  <1>1. MemoryWords \in Nat /\ MemoryWords > 0
    BY SpeakersMicAssumption
  <1>2. CASE c + 1 = MemoryWords
    BY <1>1, <1>2 DEF NextWord
  <1>3. CASE c + 1 # MemoryWords
    <2>1. c + 1 \in 0 .. MemoryWords - 1
      BY <1>1, <1>3
    <2> QED
      BY <1>1, <1>3, <2>1 DEF NextWord
  <1> QED
    BY <1>2, <1>3

\* After a pair of words come another pair or the end of a buffer.
LEMMA NextPair ==
    ASSUME NEW c \in Pairs
    PROVE  /\ c \in Buffers /\ NextWord(c) \in Buffers
           /\ NextWord(NextWord(c)) \in Pairs \cup {BUFFER_END_1, BUFFER_END_2}
  <1>1. /\ BUFFER_BASE_1 % 2 = 0 /\ BUFFER_END_1 % 2 = 0 /\ BUFFER_BASE_2 % 2 = 0
        /\ MemoryWords % 2 = 0 /\ BUFFER_END_1 <= BUFFER_BASE_2
    BY BuffersAssumption
  <1>2. c \in Buffers /\ c % 2 = 0 /\ c \in Nat
    BY BufferSets DEF Pairs
  <1>3. /\ c \in 0 .. MemoryWords - 1
        /\ \/ BUFFER_BASE_1 <= c /\ c < BUFFER_END_1
           \/ BUFFER_BASE_2 <= c /\ c < MemoryWords
    BY <1>1, <1>2, BufferSets
  <1>4. /\ c + 1 # MemoryWords /\ c + 1 # BUFFER_END_1
        /\ (c + 2) % 2 = 0
    BY <1>1, <1>2, BufferSets
  <1>5. NextWord(c) = c + 1 /\ c + 1 \in 0 .. MemoryWords - 1 /\ c + 1 \in Buffers
    BY <1>3, <1>4, NextInMemory, BufferSets
  <1>6. NextWord(c + 1) = IF c + 2 = MemoryWords THEN 0 ELSE c + 2
    BY <1>2, <1>5, NextInMemory, BufferSets
  <1>7. CASE c + 2 = MemoryWords
    BY <1>2, <1>5, <1>6, <1>7, BufferSets
  <1>8. CASE c + 2 # MemoryWords
    <2>1. c + 2 = BUFFER_END_1 \/ c + 2 \in Buffers
      BY <1>2, <1>3, <1>4, <1>8, BufferSets
    <2> QED
      BY <1>2, <1>4, <1>5, <1>6, <1>8, <2>1 DEF Pairs
  <1> QED
    BY <1>7, <1>8

\* A buffer starts at an even address, where BUFFER_CURRENT is set to.
LEMMA Bases == BUFFER_BASE_1 \in Pairs /\ BUFFER_BASE_2 \in Pairs
  BY BufferSets, BuffersAssumption DEF Pairs

-----------------------------------------------------------------------------
(* Registers *)

\* INT1 is the interrupt of the example.
LEMMA IntRegOne == IntReg[1] = "int1"
  <1>1. 1 \in 0 .. 2
    OBVIOUS
  <1>2. IntReg[1] = <<"int0", "int1", "int2">>[1 + 1]
    BY <1>1 DEF IntReg
  <1>3. <<"int0", "int1", "int2">>[1 + 1] = "int1"
    OBVIOUS
  <1> QED
    BY <1>2, <1>3


\* A flag that is in none of the values written to a register is only there if it
\* was at first, and all the writes keep it.
LEMMA AfterOut ==
    ASSUME NEW start, NEW writes, NEW r \in Registers, NEW f,
           \A i \in DOMAIN writes : writes[i].reg = r => f \notin writes[i].add,
           DOMAIN writes \subseteq Nat \ {0}
    PROVE  f \in After(start, writes)[r] =>
             /\ f \in start[r]
             /\ \A i \in DOMAIN writes : writes[i].reg = r => f \in writes[i].keep
  BY DEF After

\* A flag that a write sets and no later one clears is there.
LEMMA AfterIn ==
    ASSUME NEW start, NEW writes, NEW r \in Registers, NEW f, NEW i \in DOMAIN writes,
           writes[i].reg = r, f \in writes[i].add,
           \A j \in DOMAIN writes : j > i /\ writes[j].reg = r =>
             f \in writes[j].keep \cup writes[j].add
    PROVE  f \in After(start, writes)[r]
  BY DEF After

\* Writes leave every register a register.
LEMMA AfterRegs ==
    ASSUME NEW start, NEW writes
    PROVE  After(start, writes) = [r \in Registers |-> After(start, writes)[r]]
  BY DEF After

\* Writes that route nothing but Source to CPU interrupt 1.
RoutesSource(writes) ==
    \A i \in DOMAIN writes : writes[i].reg = "int1" => writes[i].add \subseteq {Source}

\* Writes that route nothing but the source of the example to INT1 leave it so.
LEMMA AfterRoutes ==
    ASSUME RegInv, NEW writes, RoutesSource(writes), DOMAIN writes \subseteq Nat \ {0},
           reg' = After(reg, writes)
    PROVE  RegInv'
  <1>1. "int1" \in Registers
    BY DEF Registers
  <1>2. reg' = [r \in Registers |-> reg'[r]]
    BY AfterRegs
  <1>3. ASSUME NEW f \in reg'["int1"], f # Source PROVE FALSE
    BY <1>1, <1>3, AfterOut DEF RoutesSource, RegInv
  <1> QED
    BY <1>2, <1>3 DEF RegInv

\* main() stops both directions: the source is masked.
LEMMA StopWrites ==
    LET w == <<AndNot("cpu", {Irqs})>> \o btdmpDisableOutput(Source)
                \o btdmpDisableInput(Source)
    IN  /\ RoutesSource(w) /\ DOMAIN w \subseteq Nat \ {0}
        /\ \A start : Source \in After(start, w)["disable"]
  <1> DEFINE a == <<AndNot("cpu", {Irqs})>>  b == btdmpDisableOutput(Source)
             c == btdmpDisableInput(Source)  w == a \o b \o c
  <1>1. /\ DOMAIN w = 1 .. 13
        /\ \A i \in 1 .. 13 : w[i] = IF i = 1 THEN a[1] ELSE IF i <= 7 THEN b[i - 1] ELSE c[i - 7]
    BY DEF btdmpDisableOutput, btdmpDisableInput
  <1>2. \A i \in 1 .. 13 : w[i].reg = "int1" => w[i].add \subseteq {Source}
    BY <1>1 DEF btdmpDisableOutput, btdmpDisableInput, AndNot, OrIn, Assign, Ack
  <1>3. /\ w[8].reg = "disable" /\ w[8].add = {Source}
        /\ \A j \in 1 .. 13 : j > 8 => w[j].reg # "disable"
    <2>1. /\ c[1].reg = "disable" /\ c[1].add = {Source}
          /\ \A j \in 2 .. 6 : c[j].reg # "disable"
      BY DEF btdmpDisableInput, AndNot, OrIn, Assign, Ack
    <2> HIDE DEF w, a, b, c
    <2>2. w[8] = c[1]
      BY <1>1
    <2>3. ASSUME NEW j \in 9 .. 13 PROVE w[j] = c[j - 7] /\ j - 7 \in 2 .. 6
      BY <1>1
    <2> QED
      BY <2>1, <2>2, <2>3
  <1> HIDE DEF w
  <1>4. ASSUME NEW start PROVE Source \in After(start, w)["disable"]
    BY <1>1, <1>3, AfterIn DEF Registers
  <1>5. RoutesSource(w) /\ DOMAIN w \subseteq Nat \ {0}
    BY <1>1, <1>2 DEF RoutesSource
  <1> QED
    BY <1>4, <1>5 DEF w

\* The handler stops the microphone: the source is masked.
LEMMA RecordedWrites ==
    LET w == btdmpDisableInput(Source) \o <<AndNot("cpu", {Irqs})>>
    IN  /\ RoutesSource(w) /\ DOMAIN w \subseteq Nat \ {0}
        /\ \A start : Source \in After(start, w)["disable"]
  <1> DEFINE a == <<AndNot("cpu", {Irqs})>>  c == btdmpDisableInput(Source)  w == c \o a
  <1>1. /\ DOMAIN w = 1 .. 7
        /\ \A i \in 1 .. 7 : w[i] = IF i = 7 THEN a[1] ELSE c[i]
    BY DEF btdmpDisableInput
  <1>2. /\ \A i \in 1 .. 7 : w[i].reg = "int1" => w[i].add \subseteq {Source}
        /\ w[1].reg = "disable" /\ w[1].add = {Source}
        /\ \A j \in 1 .. 7 : j > 1 => w[j].reg # "disable"
    BY <1>1 DEF btdmpDisableInput, AndNot, OrIn, Assign, Ack
  <1> HIDE DEF w
  <1>3. ASSUME NEW start PROVE Source \in After(start, w)["disable"]
    BY <1>1, <1>2, AfterIn DEF Registers
  <1>4. RoutesSource(w) /\ DOMAIN w \subseteq Nat \ {0}
    BY <1>1, <1>2 DEF RoutesSource
  <1> QED
    BY <1>3, <1>4 DEF w

\* The handler stops the speakers: the source is routed to no interrupt, although
\* btdmpDisableOutput() masks the others instead of it.
LEMMA PlayedWrites ==
    LET w == btdmpDisableOutput(Source) \o <<AndNot("cpu", {Irqs})>>
    IN  /\ RoutesSource(w) /\ DOMAIN w \subseteq Nat \ {0}
        /\ \A start : Source \notin After(start, w)["int1"]
  <1> DEFINE a == <<AndNot("cpu", {Irqs})>>  b == btdmpDisableOutput(Source)  w == b \o a
  <1>1. /\ DOMAIN w = 1 .. 7
        /\ \A i \in 1 .. 7 : w[i] = IF i = 7 THEN a[1] ELSE b[i]
    BY DEF btdmpDisableOutput
  <1>2. /\ \A i \in 1 .. 7 : w[i].reg = "int1" => w[i].add = {}
        /\ w[5].reg = "int1" /\ Source \notin w[5].keep
    BY <1>1 DEF btdmpDisableOutput, AndNot, OrIn, Assign, Ack
  <1> HIDE DEF w
  <1>3. ASSUME NEW start PROVE Source \notin After(start, w)["int1"]
    BY <1>1, <1>2, AfterOut DEF Registers
  <1>4. RoutesSource(w) /\ DOMAIN w \subseteq Nat \ {0}
    BY <1>1, <1>2 DEF RoutesSource
  <1> QED
    BY <1>3, <1>4 DEF w

\* main() starts a direction.
LEMMA RestartWrites ==
    LET w == IF command = "NONE" THEN <<>>
             ELSE BtdmpSetup(DirectionOf(command), Source, 1) \o <<OrIn("cpu", {Irqs})>>
    IN  RoutesSource(w) /\ DOMAIN w \subseteq Nat \ {0}
  <1> DEFINE b == BtdmpSetup(DirectionOf(command), Source, 1)  a == <<OrIn("cpu", {Irqs})>>
             w == b \o a
  <1>1. /\ DOMAIN w = 1 .. 8
        /\ \A i \in 1 .. 8 : w[i] = IF i = 8 THEN a[1] ELSE b[i]
    BY DEF BtdmpSetup
  <1>2. \A i \in 1 .. 8 : w[i].reg = "int1" => w[i].add \subseteq {Source}
    BY <1>1 DEF BtdmpSetup, DirectionOf, AndNot, OrIn, Assign, Ack
  <1> HIDE DEF w
  <1>3. RoutesSource(w) /\ DOMAIN w \subseteq Nat \ {0}
    BY <1>1, <1>2 DEF RoutesSource
  <1> QED
    BY <1>3 DEF w, RoutesSource

\* So do the writes of the start.
LEMMA InitWrites ==
    LET w == icuInit \o <<OrIn("cpu", {"int1"})>>
    IN  RoutesSource(w) /\ DOMAIN w \subseteq Nat \ {0}
  <1> DEFINE a == <<OrIn("cpu", {"int1"})>>  w == icuInit \o a
  <1>1. /\ DOMAIN w = 1 .. 15
        /\ \A i \in 1 .. 15 : w[i] = IF i = 15 THEN a[1] ELSE icuInit[i]
    BY DEF icuInit
  <1>2. \A i \in 1 .. 15 : w[i].reg = "int1" => w[i].add \subseteq {Source}
    BY <1>1 DEF icuInit, AndNot, OrIn, Assign, Ack
  <1> HIDE DEF w
  <1>3. RoutesSource(w) /\ DOMAIN w \subseteq Nat \ {0}
    BY <1>1, <1>2 DEF RoutesSource
  <1> QED
    BY <1>3 DEF w

-----------------------------------------------------------------------------
(* The invariant *)

\* BUFFER_CURRENT is a buffer's start when main() begins.
LEMMA InitInv == Init => IInv
  <1> SUFFICES ASSUME Init PROVE IInv
    OBVIOUS
  <1> DEFINE start == [r \in Registers |-> {}]  w == icuInit \o <<OrIn("cpu", {"int1"})>>
  <1>1. reg = After(start, w) /\ RoutesSource(w) /\ DOMAIN w \subseteq Nat \ {0}
    BY InitWrites DEF Init
  <1>2. "int1" \in Registers
    BY DEF Registers
  <1> HIDE DEF w
  <1>3. RegInv
    <2>1. reg = [r \in Registers |-> reg[r]]
      BY <1>1, AfterRegs
    <2>2. ASSUME NEW f \in reg["int1"], f # Source PROVE FALSE
      BY <1>1, <1>2, <2>2, AfterOut DEF RoutesSource
    <2> QED
      BY <2>1, <2>2 DEF RegInv
  <1> QED
    BY <1>3, Bases DEF Init, IInv, PositionInv

\* A single write that is not to "disable" or "int1".
LEMMA OtherWrite ==
    ASSUME RegInv, NEW w, Write(w), w.reg \in Registers \ {"disable", "int1"}
    PROVE  RegInv' /\ (Quiet' <=> Quiet)
  BY DEF RegInv, Write, Quiet, Registers

\* main() leaves BUFFER_CURRENT inside, or sets it to the start of a buffer.
LEMMA MainStep == IInv /\ Main => IInv'
  <1> SUFFICES ASSUME IInv, Main PROVE IInv'
    OBVIOUS
  <1>1. irqPc = "none" /\ irqPc' = "none"
        /\ (current \in Pairs \/ (current = BUFFER_END_2 /\ Quiet))
    BY DEF Main, IInv, PositionInv
  <1>2. ASSUME RegInv', current' = current, Quiet => Quiet' PROVE IInv'
    BY <1>1, <1>2 DEF IInv, PositionInv, Pairs
  <1>3. CASE Ignore \/ Accepted \/ \E id \in Channels : ReceiveWord(id) \/ Reply(id)
    <2>1. UNCHANGED <<reg, current>>
      BY <1>3 DEF Ignore, Accepted, ReceiveWord, Reply
    <2> QED
      BY <1>2, <2>1 DEF IInv, RegInv, Quiet
  <1>4. CASE StopAll
    <2>1. RegInv' /\ Source \in reg'["disable"]
      BY <1>4, StopWrites, AfterRoutes DEF StopAll, WriteAll, IInv
    <2> QED
      BY <1>2, <1>4, <2>1 DEF StopAll, Quiet
  <1>5. CASE Restart
    <2>1. RegInv'
      BY <1>5, RestartWrites, AfterRoutes DEF Restart, WriteAll, IInv
    <2>2. current' \in Pairs
      BY <1>5, Bases DEF Restart
    <2> QED
      BY <1>1, <2>1, <2>2 DEF IInv, PositionInv, Pairs
  <1> QED
    BY <1>3, <1>4, <1>5 DEF Main

\* The handler moves BUFFER_CURRENT on by two words, and back at the end.
LEMMA HandlerStep == IInv /\ Handler => IInv'
  <1> SUFFICES ASSUME IInv, Handler PROVE IInv'
    OBVIOUS
  <1> USE DEF IInv, PositionInv
  <1>1. CASE Enter
    <2>1. /\ irqPc = "none" /\ current' = current /\ Write(AndNot("cpu", {Irqs}))
          /\ irqPc' \in {"record left", "load", "ack"} /\ Causes(1) # {}
      BY <1>1 DEF Enter, Accept
    <2>2. RegInv' /\ (Quiet' <=> Quiet)
      BY <2>1, OtherWrite DEF AndNot, Registers
    <2>3. ~Quiet
      <3>1. Causes(1) = (reg["pending"] \cap reg["int1"]) \ reg["disable"]
        BY IntRegOne DEF Causes
      <3> QED
        BY <2>1, <3>1 DEF RegInv, Quiet
    <2> QED
      BY <2>1, <2>2, <2>3 DEF Pairs
  <1>2. CASE LoadTwo
    BY <1>2, NextPair DEF LoadTwo, IrqAt, RegInv, Pairs, NextWord
  <1>3. CASE Record("record left", "record right")
    BY <1>3 DEF Record, IrqAt, RegInv, Pairs, NextWord
  <1>4. CASE Record("record right", "recorded")
    <2>1. PICK c \in Pairs : current = NextWord(c)
      BY <1>4 DEF Record, IrqAt
    <2>2. current' \in Pairs \cup {BUFFER_END_1, BUFFER_END_2} /\ irqPc' = "recorded"
          /\ reg' = reg
      BY <1>4, <2>1, NextPair DEF Record, IrqAt
    <2> QED
      BY <2>2 DEF RegInv, Pairs
  <1>5. CASE Play("play left", "play right") \/ Play("play right", "played")
    BY <1>5 DEF Play, IrqAt, RegInv, Pairs
  <1>6. CASE AtEnd
    <2>1. irqPc \in {"recorded", "played"} /\ irqPc' = "ack"
          /\ current \in Pairs \cup {BUFFER_END_1, BUFFER_END_2}
      BY <1>6 DEF AtEnd
    <2>2. CASE current = BUFFER_END_1
      BY <1>6, <2>1, <2>2, Bases DEF AtEnd, RegInv, Pairs
    <2>3. CASE current # BUFFER_END_1 /\ current = BUFFER_END_2
      <3>1. current' = current
        BY <1>6, <2>3 DEF AtEnd, AtSecondEnd
      <3>2. CASE irqPc = "recorded"
        <4>1. RegInv' /\ Source \in reg'["disable"]
          BY <1>6, <2>3, <3>2, RecordedWrites, AfterRoutes DEF AtEnd, AtSecondEnd, WriteAll
        <4> QED
          BY <2>1, <2>3, <3>1, <4>1 DEF Quiet
      <3>3. CASE irqPc = "played"
        <4>1. RegInv' /\ Source \notin reg'["int1"]
          BY <1>6, <2>3, <3>3, PlayedWrites, AfterRoutes DEF AtEnd, AtSecondEnd, WriteAll
        <4> QED
          BY <2>1, <2>3, <3>1, <4>1 DEF Quiet
      <3> QED
        BY <2>1, <3>2, <3>3
    <2>4. CASE current # BUFFER_END_1 /\ current # BUFFER_END_2
      BY <1>6, <2>1, <2>4 DEF AtEnd, AtSecondEnd, RegInv, Pairs
    <2> QED
      BY <2>2, <2>3, <2>4
  <1>7. CASE AcknowledgeIrq \/ ReturnFromIrq
    <2>1. PICK w : Write(w) /\ w.reg \in {"pending", "cpu"}
      <3>1. Ack({Source}).reg = "pending" /\ OrIn("cpu", {Irqs}).reg = "cpu"
        BY DEF Ack, AndNot, OrIn
      <3> QED
        BY <1>7, <3>1 DEF AcknowledgeIrq, ReturnFromIrq
    <2>2. RegInv' /\ (Quiet' <=> Quiet)
      BY <2>1, OtherWrite DEF Registers
    <2>3. /\ irqPc \in {"ack", "return"} /\ irqPc' \in {"return", "none"}
          /\ current' = current
      BY <1>7 DEF AcknowledgeIrq, ReturnFromIrq, IrqAt
    <2> QED
      BY <2>2, <2>3 DEF Pairs
  <1> QED
    BY <1>1, <1>2, <1>3, <1>4, <1>5, <1>6, <1>7 DEF Handler

\* The hardware changes neither BUFFER_CURRENT nor the command.
LEMMA HardwareStep == IInv /\ Hardware => IInv'
  <1> SUFFICES ASSUME IInv, Hardware PROVE IInv'
    OBVIOUS
  <1>1. UNCHANGED <<current, irqPc>>
    BY DEF Hardware
  <1>2. RegInv' /\ (Quiet' <=> Quiet)
    BY DEF Hardware, Request, IInv, RegInv, Quiet, Registers
  <1> QED
    BY <1>1, <1>2 DEF IInv, PositionInv, Pairs

\* Where BUFFER_CURRENT can be at every step of the handler, and when no
\* interrupt can come.
THEOREM InvHolds == FairSpec => []IInv
  <1>1. IInv /\ [Next]_vars => IInv'
    <2>1. IInv /\ (Arm9 \/ UNCHANGED vars) => IInv'
      BY DEF Arm9, vars, IInv, RegInv, PositionInv, Quiet, Pairs
    <2> QED
      BY <2>1, MainStep, HandlerStep, HardwareStep DEF Next
  <1> QED
    BY <1>1, InitInv, PTL DEF FairSpec

\* irqHandlerInt1() only reads and writes words of the two buffers, although it
\* moves two words at a time, compares for equality with ends that wrap to 0,
\* and main() sets the command and BUFFER_CURRENT between two interrupts.
THEOREM StaysInsideHolds == FairSpec => []StaysInside
  <1>1. IInv => StaysInside
    BY NextPair DEF IInv, PositionInv, StaysInside
  <1> QED
    BY <1>1, InvHolds, PTL
=============================================================================
