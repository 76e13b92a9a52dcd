-------------------------- MODULE InterruptsProofs --------------------------
(***************************************************************************)
(* The three safety properties of Interrupts, for any set of sources, any  *)
(* handlers and any number of calls, requests and interrupts between the   *)
(* register writes of a call.                                              *)
(*                                                                         *)
(* The properties speak of states between calls, or of all states; what    *)
(* makes them inductive is what the writes that are left of the call in    *)
(* progress will have done at its end (EndsIn, EndsOut).                   *)
(***************************************************************************)
EXTENDS Interrupts, TLAPS

\* Flag s will be set in register r when the writes that are left are done.
EndsIn(r, s) ==
    /\ s \in reg[r] \/ \E i \in DOMAIN todo : todo[i].reg = r /\ s \in todo[i].add
    /\ \A i \in DOMAIN todo :
         todo[i].reg = r => s \in todo[i].keep \cup todo[i].add

\* It will be clear.
EndsOut(r, s) ==
    /\ s \notin reg[r] \/ \E i \in DOMAIN todo : todo[i].reg = r /\ s \notin todo[i].keep
    /\ \A i \in DOMAIN todo : todo[i].reg = r => s \notin todo[i].add

AnyCall == [function : Functions, source : Sources, index : 0 .. 2]

TypeInv ==
    /\ reg \in [Registers -> SUBSET Flags]
    /\ todo \in Seq(Writes)
    /\ last \in AnyCall
    /\ off \subseteq Sources

\* A disabled source is, and stays, disabled; icuInit() and icuIrqDisable() will
\* have disabled theirs.
OffInv ==
    /\ \A s \in off : s \in reg["disable"] /\ EndsIn("disable", s)
    /\ todo # <<>> =>
         /\ last.function = "icuInit" => \A s \in Sources : EndsIn("disable", s)
         /\ last.function = "icuIrqDisable" => EndsIn("disable", last.source)

\* A source ends up disabled, or with its polarity not inverted.
PolarityInv == \A s \in Sources : EndsIn("disable", s) \/ EndsOut("polarity", s)

\* A CPU interrupt is only routed to by what its handler serves, or rerouted.
RouteInv ==
    \A k \in 0 .. 2 :
      /\ reg[IntReg[k]] \subseteq Handles[k] \cup rerouted
      /\ \A i \in DOMAIN todo :
           todo[i].reg = IntReg[k] => todo[i].add \subseteq Handles[k] \cup rerouted

IInv == TypeInv /\ OffInv /\ PolarityInv /\ RouteInv

-----------------------------------------------------------------------------
(* What the functions write *)

\* The source whose interrupt a call enables.
Enables(c) == IF c.function \in Enabling THEN {c.source} ELSE {}

\* A sequence of writes b disables no source less, except that of the call.
KeepsDisabled(b, c) ==
    \A i \in DOMAIN b : b[i].reg = "disable" =>
      Sources \ Enables(c) \subseteq b[i].keep \cup b[i].add

\* It disables all the sources of S.
Disables(b, S) ==
    \E i \in DOMAIN b : b[i].reg = "disable" /\ S \subseteq b[i].add

\* It inverts the polarity of no source of S.
KeepsPolarity(b, S) ==
    \A i \in DOMAIN b : b[i].reg = "polarity" => b[i].add \cap S = {}

\* It makes the polarity of all the sources of S normal.
SetsPolarity(b, S) ==
    \E i \in DOMAIN b : b[i].reg = "polarity" /\ b[i].keep \cap S = {}

\* It routes S, and nothing else, to CPU interrupt k.
Routes(b, k, S) ==
    \A i \in DOMAIN b : b[i].reg = IntReg[k] => b[i].add \subseteq S

BodyFacts(b, c) ==
    /\ b \in Seq(Writes)
    /\ KeepsDisabled(b, c)
    /\ c.function = "icuInit" => Disables(b, Sources)
    /\ c.function = "icuIrqDisable" => Disables(b, {c.source})
    /\ KeepsPolarity(b, Enables(c)) /\ (Enables(c) # {} => SetsPolarity(b, Enables(c)))
    /\ KeepsPolarity(b, Sources) \/ Disables(b, Sources \ Enables(c))
    /\ \A k \in 0 .. 2 :
         Routes(b, k, IF c.function = "btdmpDisableInput"
                      \/ (k = c.index /\ Enables(c) # {})
                      THEN {c.source} ELSE {})

\* The handlers of the CPU interrupts are routed in registers of their own.
LEMMA IntRegs ==
    /\ \A k \in 0 .. 2 : IntReg[k] \in {"int0", "int1", "int2"}
    /\ \A j, k \in 0 .. 2 : IntReg[j] = IntReg[k] => j = k
  BY DEF IntReg

\* The writes that the functions are made of.
LEMMA WriteTypes ==
    ASSUME NEW r \in Registers, NEW S \in SUBSET Flags
    PROVE  /\ Assign(r, S) \in Writes /\ OrIn(r, S) \in Writes
           /\ AndNot(r, S) \in Writes
  BY DEF Writes, Assign, OrIn, AndNot

\* icuIrqSetup(): all other sources end up disabled, the one that is set up has
\* its polarity not inverted and is all that is routed to its CPU interrupt.
LEMMA SetupFacts ==
    ASSUME NEW c \in AnyCall, c.function = "icuIrqSetup"
    PROVE  BodyFacts(icuIrqSetup(c.source, c.index), c)
  <1> DEFINE s == c.source  k == c.index  b == icuIrqSetup(s, k)
  <1>1. s \in Sources /\ k \in 0 .. 2
    BY DEF AnyCall
  <1>2. b \in Seq(Writes)
    BY <1>1, WriteTypes, IntRegs DEF icuIrqSetup, Ack, Registers, Flags, Others
  <1>3. Enables(c) = {s}
    BY DEF Enables, Enabling
  <1>4. /\ DOMAIN b = 1 .. 5
        /\ b[1].reg = "mode" /\ b[4].reg = "pending" /\ b[5].reg = IntReg[k]
        /\ b[2] = Assign("polarity", Others(s)) /\ b[3] = Assign("disable", Others(s))
        /\ b[5].add = {s}
    BY DEF icuIrqSetup, OrIn, Ack, AndNot, Assign
  <1> HIDE DEF b
  <1>5. KeepsDisabled(b, c) /\ Disables(b, Sources \ {s})
    BY <1>1, <1>3, <1>4, IntRegs DEF KeepsDisabled, Disables, Assign, Others
  <1>6. KeepsPolarity(b, {s}) /\ SetsPolarity(b, {s})
    BY <1>1, <1>4, IntRegs DEF KeepsPolarity, SetsPolarity, Assign, Others
  <1>7. \A j \in 0 .. 2 : Routes(b, j, IF j = k THEN {s} ELSE {})
    BY <1>1, <1>4, IntRegs DEF Routes, Assign
  <1> QED
    BY <1>2, <1>3, <1>5, <1>6, <1>7 DEF BodyFacts, b

\* icuInit() disables every source and routes none.
LEMMA InitFacts ==
    ASSUME NEW c \in AnyCall, c.function = "icuInit"
    PROVE  BodyFacts(icuInit, c)
  <1> DEFINE b == icuInit
  <1>1. b \in Seq(Writes)
    BY WriteTypes DEF icuInit, Ack, Registers, Flags, CpuFlags, Irqs
  <1>2. Enables(c) = {}
    BY DEF Enables, Enabling
  <1>3. /\ DOMAIN b = 1 .. 14
        /\ \A i \in {1, 10, 11, 12, 13, 14} : b[i].reg = "cpu"
        /\ b[2] = Assign("disable", Sources) /\ b[3].reg = "pending"
        /\ b[7].reg = "vint" /\ b[8].reg = "mode"
        /\ \A i \in {4, 5, 6, 9} : b[i].add = {} /\ b[i].reg # "disable"
    BY DEF icuInit, OrIn, Ack, AndNot, Assign
  <1> HIDE DEF b
  <1>4. DOMAIN b = {1, 2, 3, 7, 8} \cup {4, 5, 6, 9} \cup {10, 11, 12, 13, 14}
    BY <1>3
  <1>5. KeepsDisabled(b, c) /\ Disables(b, Sources)
    BY <1>2, <1>3, <1>4 DEF KeepsDisabled, Disables, Assign
  <1>6. KeepsPolarity(b, Sources)
    BY <1>3, <1>4 DEF KeepsPolarity, Assign
  <1>7. \A k \in 0 .. 2 : Routes(b, k, {})
    BY <1>3, <1>4, IntRegs DEF Routes, Assign
  <1> QED
    BY <1>1, <1>2, <1>5, <1>6, <1>7 DEF BodyFacts, KeepsPolarity, b

\* icuIrqDisable() disables its source, and neither enables nor routes any.
LEMMA DisableFacts ==
    ASSUME NEW c \in AnyCall, c.function = "icuIrqDisable"
    PROVE  BodyFacts(icuIrqDisable(c.source), c)
  <1> DEFINE s == c.source  b == icuIrqDisable(s)
  <1>1. s \in Sources
    BY DEF AnyCall
  <1>2. b \in Seq(Writes)
    BY <1>1, WriteTypes DEF icuIrqDisable, Ack, Registers, Flags
  <1>3. Enables(c) = {}
    BY DEF Enables, Enabling
  <1>4. DOMAIN b = 1 .. 2 /\ b[1] = OrIn("disable", {s}) /\ b[2].reg = "pending"
    BY DEF icuIrqDisable, Ack, AndNot
  <1> HIDE DEF b
  <1>5. KeepsDisabled(b, c) /\ Disables(b, {s})
    BY <1>3, <1>4 DEF KeepsDisabled, Disables, OrIn, Flags
  <1>6. KeepsPolarity(b, Sources) /\ \A k \in 0 .. 2 : Routes(b, k, {})
    BY <1>4, IntRegs DEF KeepsPolarity, Routes, OrIn
  <1> QED
    BY <1>2, <1>3, <1>5, <1>6 DEF BodyFacts, KeepsPolarity, b

\* btdmpSetupOutputSpeakers() and btdmpSetupInputMicrophone() only enable their
\* source, with its polarity not inverted, and route it to its CPU interrupt.
LEMMA BtdmpSetupFacts ==
    ASSUME NEW c \in AnyCall, NEW d \in {"transmit", "receive"},
           c.function \in {"btdmpSetupOutputSpeakers", "btdmpSetupInputMicrophone"}
    PROVE  BodyFacts(BtdmpSetup(d, c.source, c.index), c)
  <1> DEFINE s == c.source  k == c.index  b == BtdmpSetup(d, s, k)
  <1>1. s \in Sources /\ k \in 0 .. 2
    BY DEF AnyCall
  <1>2. b \in Seq(Writes)
    BY <1>1, WriteTypes, IntRegs DEF BtdmpSetup, Ack, Registers, Flags
  <1>3. Enables(c) = {s}
    BY DEF Enables, Enabling
  <1>4. /\ DOMAIN b = 1 .. 7
        /\ b[1].reg = d /\ b[3].reg = "mode" /\ b[6].reg = "pending" /\ b[7].reg = d
        /\ b[2].reg = IntReg[k] /\ b[2].add = {s}
        /\ b[4] = AndNot("polarity", {s}) /\ b[5] = AndNot("disable", {s})
    BY DEF BtdmpSetup, OrIn, Ack, AndNot, Assign
  <1> HIDE DEF b
  <1>5. KeepsDisabled(b, c)
    BY <1>1, <1>3, <1>4, IntRegs DEF KeepsDisabled, AndNot, Flags
  <1>6. KeepsPolarity(b, Sources) /\ KeepsPolarity(b, {s}) /\ SetsPolarity(b, {s})
    BY <1>1, <1>4, IntRegs DEF KeepsPolarity, SetsPolarity, AndNot
  <1>7. \A j \in 0 .. 2 : Routes(b, j, IF j = k THEN {s} ELSE {})
    BY <1>1, <1>4, IntRegs DEF Routes, AndNot
  <1> QED
    BY <1>2, <1>3, <1>5, <1>6, <1>7 DEF BodyFacts, b

\* btdmpDisableOutput() enables and routes no source, though it disables the
\* others.
LEMMA DisableOutputFacts ==
    ASSUME NEW c \in AnyCall, c.function = "btdmpDisableOutput"
    PROVE  BodyFacts(btdmpDisableOutput(c.source), c)
  <1> DEFINE s == c.source  b == btdmpDisableOutput(s)
  <1>1. s \in Sources
    BY DEF AnyCall
  <1>2. b \in Seq(Writes)
    BY <1>1, WriteTypes DEF btdmpDisableOutput, Ack, Registers, Flags, Others
  <1>3. Enables(c) = {}
    BY DEF Enables, Enabling
  <1>4. /\ DOMAIN b = 1 .. 6
        /\ b[1] = OrIn("disable", Others(s)) /\ b[2].reg = "pending"
        /\ b[3].reg = "transmit"
        /\ \A i \in {4, 5, 6} : b[i].reg \in {"int0", "int1", "int2"} /\ b[i].add = {}
    BY DEF btdmpDisableOutput, OrIn, Ack, AndNot
  <1> HIDE DEF b
  <1>5. DOMAIN b = {1, 2, 3} \cup {4, 5, 6}
    BY <1>4
  <1>6. KeepsDisabled(b, c)
    BY <1>3, <1>4, <1>5 DEF KeepsDisabled, OrIn, Flags
  <1>7. KeepsPolarity(b, Sources) /\ \A k \in 0 .. 2 : Routes(b, k, {})
    BY <1>4, <1>5, IntRegs DEF KeepsPolarity, Routes, OrIn
  <1> QED
    BY <1>2, <1>3, <1>6, <1>7 DEF BodyFacts, KeepsPolarity, b

\* btdmpDisableInput() routes its source to all three handlers, which counts as
\* rerouted.
LEMMA DisableInputFacts ==
    ASSUME NEW c \in AnyCall, c.function = "btdmpDisableInput"
    PROVE  BodyFacts(btdmpDisableInput(c.source), c)
  <1> DEFINE s == c.source  b == btdmpDisableInput(s)
  <1>1. s \in Sources
    BY DEF AnyCall
  <1>2. b \in Seq(Writes)
    BY <1>1, WriteTypes DEF btdmpDisableInput, Ack, Registers, Flags
  <1>3. Enables(c) = {}
    BY DEF Enables, Enabling
  <1>4. /\ DOMAIN b = 1 .. 6
        /\ b[1] = OrIn("disable", {s}) /\ b[2].reg = "pending"
        /\ b[3].reg = "receive"
        /\ \A i \in {4, 5, 6} : b[i].reg \in {"int0", "int1", "int2"} /\ b[i].add = {s}
    BY DEF btdmpDisableInput, OrIn, Ack, AndNot, Assign
  <1> HIDE DEF b
  <1>5. DOMAIN b = {1, 2, 3} \cup {4, 5, 6}
    BY <1>4
  <1>6. KeepsDisabled(b, c)
    BY <1>3, <1>4, <1>5 DEF KeepsDisabled, OrIn, Flags
  <1>7. KeepsPolarity(b, Sources) /\ \A k \in 0 .. 2 : Routes(b, k, {s})
    BY <1>4, <1>5, IntRegs DEF KeepsPolarity, Routes, OrIn
  <1> QED
    BY <1>2, <1>3, <1>6, <1>7 DEF BodyFacts, KeepsPolarity, b

\* cpuEnableInt() writes no register of the ICU.
LEMMA EnableIntFacts ==
    ASSUME NEW c \in AnyCall, c.function = "cpuEnableInt"
    PROVE  BodyFacts(<<OrIn("cpu", {IntReg[c.index]})>>, c)
  <1> DEFINE w == OrIn("cpu", {IntReg[c.index]})  b == <<w>>
  <1>1. IntReg[c.index] \in Flags
    BY IntRegs DEF AnyCall, Flags, CpuFlags
  <1>2. b \in Seq(Writes)
    BY <1>1, WriteTypes DEF Registers
  <1>3. Enables(c) = {}
    BY DEF Enables, Enabling
  <1>4. DOMAIN b = {1} /\ b[1].reg = "cpu"
    BY DEF OrIn
  <1> HIDE DEF b
  <1>5. /\ KeepsDisabled(b, c) /\ KeepsPolarity(b, Sources)
        /\ \A k \in 0 .. 2 : Routes(b, k, {})
    BY <1>4, IntRegs DEF KeepsDisabled, KeepsPolarity, Routes
  <1> QED
    BY <1>2, <1>3, <1>5 DEF BodyFacts, KeepsPolarity, b

\* The writes of a call, whatever it calls.
LEMMA CallFacts ==
    ASSUME NEW c \in AnyCall
    PROVE  BodyFacts(Body(c), c)
  <1>1. c.function \in Functions
    BY DEF AnyCall
  <1> QED
    BY <1>1, SetupFacts, InitFacts, DisableFacts, BtdmpSetupFacts, DisableOutputFacts,
      DisableInputFacts, EnableIntFacts DEF Body, Functions

-----------------------------------------------------------------------------
(* The invariant *)

\* Between calls, what the registers will hold is what they hold.
LEMMA IdleEnds ==
    ASSUME todo = <<>>, NEW r, NEW s
    PROVE  (EndsIn(r, s) <=> s \in reg[r]) /\ (EndsOut(r, s) <=> s \notin reg[r])
  BY DEF EndsIn, EndsOut

\* At first the writes of icuInit() are left, which disable every source.
LEMMA InitInv == Init => IInv
  <1> SUFFICES ASSUME Init PROVE IInv
    OBVIOUS
  <1>1. last \in AnyCall /\ last.function = "icuInit"
    BY IcuAssumption DEF Init, NoCall, AnyCall, Functions
  <1>2. BodyFacts(todo, last) /\ Enables(last) = {}
    BY <1>1, InitFacts DEF Init, Enables, Enabling
  <1>3. TypeInv
    BY <1>1, <1>2 DEF Init, TypeInv, BodyFacts, Registers, Flags
  <1>4. \A s \in Sources : EndsIn("disable", s)
    BY <1>1, <1>2 DEF BodyFacts, KeepsDisabled, Disables, EndsIn
  <1>5. OffInv /\ PolarityInv
    BY <1>1, <1>4 DEF Init, OffInv, PolarityInv
  <1>6. RouteInv
    BY <1>1, <1>2, IntRegs DEF BodyFacts, Routes, RouteInv, Init, Registers
  <1> QED
    BY <1>3, <1>5, <1>6 DEF IInv

\* A call of the program.
LEMMA CallInv ==
    ASSUME IInv, Call
    PROVE  IInv'
  <1>1. PICK c \in Calls :
          /\ todo' = Body(c) /\ last' = c
          /\ off' = off \ Enables(c)
          /\ rerouted' = IF c.function = "btdmpDisableInput"
                         THEN rerouted \cup {c.source} ELSE rerouted
    BY DEF Call, Enables
  <1>2. c \in AnyCall
    BY InterruptsAssumption DEF AnyCall
  <1>3. BodyFacts(todo', c)
    BY <1>1, <1>2, CallFacts
  <1>4. reg' = reg /\ todo = <<>>
    BY DEF Call
  <1>5. TypeInv'
    BY <1>1, <1>2, <1>3, <1>4 DEF IInv, TypeInv, BodyFacts
  \* what stays disabled, what gets disabled
  <1>6. ASSUME NEW s \in Sources \ Enables(c)
        PROVE  s \in reg["disable"] \/ Disables(todo', {s}) => EndsIn("disable", s)'
    BY <1>3, <1>4, <1>6 DEF EndsIn, BodyFacts, KeepsDisabled, Disables
  <1>7. OffInv'
    <2>1. \A s \in off' : s \in Sources \ Enables(c) /\ s \in reg["disable"]
      BY <1>1 DEF IInv, TypeInv, OffInv
    <2>2. c.function = "icuInit" =>
            Enables(c) = {} /\ \A s \in Sources : Disables(todo', {s})
      BY <1>3 DEF BodyFacts, Disables, Enables, Enabling
    <2>3. c.function = "icuIrqDisable" =>
            Enables(c) = {} /\ c.source \in Sources /\ Disables(todo', {c.source})
      BY <1>2, <1>3 DEF BodyFacts, Enables, Enabling, AnyCall
    <2> QED
      BY <1>1, <1>4, <1>6, <2>1, <2>2, <2>3 DEF OffInv
  <1>8. PolarityInv'
    <2> SUFFICES ASSUME NEW s \in Sources
                 PROVE  EndsIn("disable", s)' \/ EndsOut("polarity", s)'
      BY DEF PolarityInv
    <2>1. CASE s \in Enables(c)
      BY <1>3, <2>1 DEF EndsOut, BodyFacts, KeepsPolarity, SetsPolarity
    <2>2. CASE s \notin Enables(c) /\ Disables(todo', Sources \ Enables(c))
      BY <1>6, <2>2 DEF Disables
    <2>3. CASE s \notin Enables(c) /\ KeepsPolarity(todo', Sources)
      <3>1. s \in reg["disable"] \/ s \notin reg["polarity"]
        BY <1>4, IdleEnds DEF IInv, PolarityInv
      <3>2. s \notin reg["polarity"] => EndsOut("polarity", s)'
        BY <1>4, <2>3 DEF EndsOut, KeepsPolarity
      <3> QED
        BY <1>6, <2>3, <3>1, <3>2
    <2> QED
      BY <1>3, <2>1, <2>2, <2>3 DEF BodyFacts
  <1>9. RouteInv'
    <2> SUFFICES ASSUME NEW k \in 0 .. 2
                 PROVE  /\ reg'[IntReg[k]] \subseteq Handles[k] \cup rerouted'
                        /\ \A i \in DOMAIN todo' : todo'[i].reg = IntReg[k] =>
                             todo'[i].add \subseteq Handles[k] \cup rerouted'
      BY DEF RouteInv
    <2>1. k = c.index /\ Enables(c) # {} => c.source \in Handles[k]
      BY SetupAssumption DEF Enables
    <2>2. Routes(todo', k, Handles[k] \cup rerouted')
      BY <1>1, <1>3, <2>1 DEF BodyFacts, Routes
    <2> QED
      BY <1>1, <1>4, <2>2 DEF IInv, RouteInv, Routes
  <1> QED
    BY <1>5, <1>7, <1>8, <1>9 DEF IInv

\* The next write does its part.
LEMMA WriteEnds ==
    ASSUME TypeInv, todo # <<>>, Write(Head(todo)), todo' = Tail(todo),
           NEW r \in Registers, NEW s
    PROVE  /\ EndsIn(r, s) => EndsIn(r, s)'
           /\ EndsOut(r, s) => EndsOut(r, s)'
           /\ s \in reg[r] /\ EndsIn(r, s) => s \in reg'[r]
  <1> DEFINE w == Head(todo)
  <1>1. /\ w = todo[1] /\ 1 \in DOMAIN todo
        /\ \A j \in DOMAIN todo' : \E i \in DOMAIN todo : todo'[j] = todo[i]
        /\ \A i \in DOMAIN todo :
             todo[i] = w \/ \E j \in DOMAIN todo' : todo'[j] = todo[i]
    <2>1. /\ todo \in Seq(Writes) /\ w = todo[1] /\ 1 \in DOMAIN todo
          /\ \A j \in DOMAIN todo' : j + 1 \in DOMAIN todo /\ todo'[j] = todo[j + 1]
          /\ \A i \in DOMAIN todo :
               i = 1 \/ (i - 1 \in DOMAIN todo' /\ todo'[i - 1] = todo[i])
      BY DEF TypeInv
    <2> HIDE DEF w
    <2> QED
      BY <2>1
  <1>2. reg'[r] = IF w.reg = r THEN (reg[r] \cap w.keep) \cup w.add ELSE reg[r]
    BY DEF TypeInv, Write
  <1> HIDE DEF w
  <1>3. EndsIn(r, s) => EndsIn(r, s)'
    <2>1. ASSUME EndsIn(r, s), w.reg = r
          PROVE  s \in reg'[r] \/ \E i \in DOMAIN todo' : todo'[i].reg = r /\ s \in todo'[i].add
      BY <1>1, <1>2, <2>1 DEF EndsIn
    <2>2. ASSUME EndsIn(r, s), w.reg # r
          PROVE  s \in reg'[r] \/ \E i \in DOMAIN todo' : todo'[i].reg = r /\ s \in todo'[i].add
      BY <1>1, <1>2, <2>2 DEF EndsIn
    <2> QED
      BY <1>1, <2>1, <2>2 DEF EndsIn
  <1>4. EndsOut(r, s) => EndsOut(r, s)'
    <2>1. ASSUME EndsOut(r, s)
          PROVE  s \notin reg'[r] \/ \E i \in DOMAIN todo' : todo'[i].reg = r /\ s \notin todo'[i].keep
      BY <1>1, <1>2, <2>1 DEF EndsOut
    <2> QED
      BY <1>1, <2>1 DEF EndsOut
  <1>5. s \in reg[r] /\ EndsIn(r, s) => s \in reg'[r]
    BY <1>1, <1>2 DEF EndsIn
  <1> QED
    BY <1>3, <1>4, <1>5

\* When one of the writes of a call is done, the registers and the writes that
\* are left end as before.
LEMMA StepInv ==
    ASSUME IInv, Step
    PROVE  IInv'
  <1>1. /\ todo # <<>> /\ Write(Head(todo)) /\ todo' = Tail(todo)
        /\ last' = last /\ rerouted' = rerouted
        /\ off' = IF Len(todo) > 1 THEN off
                  ELSE CASE last.function = "icuInit" -> Sources
                         [] last.function = "icuIrqDisable" -> off \cup {last.source}
                         [] OTHER -> off
    BY DEF Step
  <1>2. TypeInv /\ {"disable", "polarity", "int0", "int1", "int2"} \subseteq Registers
    BY DEF IInv, Registers
  <1>3. /\ Head(todo) \in Writes /\ todo' \in Seq(Writes)
        /\ ~(Len(todo) > 1) => todo' = <<>>
    <2>1. todo \in Seq(Writes) /\ todo # <<>>
      BY <1>1, <1>2 DEF TypeInv
    <2> QED
      BY <1>1, <2>1
  <1>4. TypeInv'
    <2>1. reg' \in [Registers -> SUBSET Flags]
      BY <1>1, <1>2, <1>3 DEF TypeInv, Write, Writes
    <2>2. last.source \in Sources
      BY <1>2 DEF TypeInv, AnyCall
    <2> QED
      BY <1>1, <1>2, <1>3, <2>1, <2>2 DEF TypeInv
  <1>5. \A s : /\ EndsIn("disable", s) => EndsIn("disable", s)'
               /\ EndsOut("polarity", s) => EndsOut("polarity", s)'
               /\ s \in reg["disable"] /\ EndsIn("disable", s) => s \in reg'["disable"]
    BY <1>1, <1>2, WriteEnds
  <1>6. OffInv'
    <2>1. \A s \in off : s \in reg'["disable"] /\ EndsIn("disable", s)'
      BY <1>5 DEF IInv, OffInv
    <2>2. /\ last.function = "icuInit" => \A s \in Sources : EndsIn("disable", s)'
          /\ last.function = "icuIrqDisable" => EndsIn("disable", last.source)'
      BY <1>1, <1>5 DEF IInv, OffInv
    <2>3. CASE Len(todo) > 1
      BY <1>1, <2>1, <2>2, <2>3 DEF OffInv
    <2>4. CASE ~(Len(todo) > 1)
      <3>1. \A s : EndsIn("disable", s)' => s \in reg'["disable"]
        BY <1>3, <2>4 DEF EndsIn
      <3> QED
        BY <1>1, <1>3, <2>1, <2>2, <2>4, <3>1 DEF OffInv
    <2> QED
      BY <2>3, <2>4
  <1>7. PolarityInv'
    BY <1>5 DEF IInv, PolarityInv
  <1>8. RouteInv'
    <2>1. ASSUME NEW k \in 0 .. 2
          PROVE  /\ reg'[IntReg[k]] \subseteq Handles[k] \cup rerouted
                 /\ \A i \in DOMAIN todo' : todo'[i].reg = IntReg[k] =>
                      todo'[i].add \subseteq Handles[k] \cup rerouted
      <3>1. /\ Head(todo) = todo[1] /\ 1 \in DOMAIN todo
            /\ \A i \in DOMAIN todo' : i + 1 \in DOMAIN todo /\ todo'[i] = todo[i + 1]
        BY <1>1, <1>2 DEF TypeInv
      <3>2. reg'[IntReg[k]] \subseteq
              reg[IntReg[k]] \cup (IF Head(todo).reg = IntReg[k] THEN Head(todo).add ELSE {})
        BY <1>1, <1>2, IntRegs DEF TypeInv, Write
      <3> QED
        BY <3>1, <3>2 DEF IInv, RouteInv
    <2> QED
      BY <1>1, <2>1 DEF RouteInv
  <1> QED
    BY <1>4, <1>6, <1>7, <1>8 DEF IInv

\* The peripherals, the CPU and the handlers write no register that sets up
\* interrupts.
LEMMA OutsideInv ==
    ASSUME IInv, Peripheral \/ Interrupt \/ Handler
    PROVE  IInv'
  <1>1. /\ UNCHANGED <<todo, last, off, rerouted>>
        /\ reg' \in [Registers -> SUBSET Flags]
        /\ \A r \in Registers \ {"pending", "cpu"} : reg'[r] = reg[r]
    <2>1. CASE Peripheral
      BY <2>1 DEF Peripheral, Request, IInv, TypeInv, Flags, Registers
    <2>2. CASE Interrupt
      BY <2>2 DEF Interrupt, Enter, Accept, Write, AndNot, IInv, TypeInv, Registers
    <2>3. CASE Acknowledge
      BY <2>3 DEF Acknowledge, Ack, Write, AndNot, IInv, TypeInv, Registers
    <2>4. CASE ReturnFromIrq
      BY <2>4 DEF ReturnFromIrq, Write, OrIn, IInv, TypeInv, Registers, Flags, CpuFlags
    <2> QED
      BY <2>1, <2>2, <2>3, <2>4 DEF Handler
  <1>2. {"disable", "polarity", "int0", "int1", "int2"} \subseteq Registers
    BY DEF Registers
  <1>3. \A s : /\ EndsIn("disable", s) => EndsIn("disable", s)'
               /\ EndsOut("polarity", s) => EndsOut("polarity", s)'
    BY <1>1, <1>2 DEF EndsIn, EndsOut
  <1>4. TypeInv' /\ OffInv' /\ PolarityInv'
    BY <1>1, <1>2, <1>3 DEF IInv, TypeInv, OffInv, PolarityInv
  <1>5. RouteInv'
    BY <1>1, <1>2, IntRegs DEF IInv, RouteInv
  <1> QED
    BY <1>4, <1>5 DEF IInv

\* The inductive invariant: what the registers of the ICU and the writes that are
\* left of the call in progress say of every source, in the middle of any call.
THEOREM InvHolds == Spec => []IInv
  <1>1. ASSUME IInv, [Next]_vars PROVE IInv'
    <2>1. CASE UNCHANGED vars
      BY <1>1, <2>1 DEF vars, IInv, TypeInv, OffInv, PolarityInv, RouteInv, EndsIn,
        EndsOut
    <2> QED
      BY <1>1, <2>1, CallInv, StepInv, OutsideInv DEF Next
  <1> QED
    BY <1>1, InitInv, PTL DEF Spec

\* A source that icuIrqDisable() or icuInit() has disabled stays disabled until it
\* is set up, although the functions read, change and write back whole registers
\* (icu.c).
THEOREM DisabledStaysHolds == Spec => []DisabledStays
  <1>1. IInv => DisabledStays
    BY DEF IInv, OffInv, DisabledStays
  <1> QED
    BY <1>1, InvHolds, PTL

\* Between calls no enabled source has inverted polarity, although icuIrqSetup()
\* writes the polarity of all the other sources.
THEOREM SettledPolarityHolds == Spec => []SettledPolarity
  <1>1. IInv => SettledPolarity
    BY IdleEnds DEF IInv, PolarityInv, SettledPolarity, Idle, Enabled
  <1> QED
    BY <1>1, InvHolds, PTL

\* Even in the middle of a call, a CPU interrupt is asked for only by sources that
\* its handler serves, or that btdmpDisableInput() has routed to all of them.
THEOREM HandlerServesHolds == Spec => []HandlerServes
  <1>1. IInv => HandlerServes
    BY DEF IInv, RouteInv, HandlerServes, Causes
  <1> QED
    BY <1>1, InvHolds, PTL
=============================================================================
