---------------------------- MODULE ExamplesProofs ----------------------------
(***************************************************************************)
(* The semaphore that the examples semaphores, dma_dsp_to_arm and          *)
(* dma_async pass to and fro is one bit at any time, and while the ARM9    *)
(* has it no transfer touches its buffer: for any number of semaphore      *)
(* bits, sizes, channels and key presses.                                  *)
(*                                                                         *)
(* codegen_check and benchmark show what the DSP computed for the command  *)
(* that was sent, for any number of tests and sequence numbers, however    *)
(* often the DSP sees a command again or the ARM9 reads an old reply.      *)
(***************************************************************************)
EXTENDS Examples, FiniteSetTheorems, SequenceTheorems, TLAPS

\* Where a CPU is: it has seen bits and not acknowledged them (Acks), it has
\* acknowledged them and not passed them on (Has); the DSP has read REG_APBP_PSEM
\* and not written it (Rewrites).
ArmAcks == a.at = Place(TokenProgram.frame, "ack")
ArmHas == a.at \in Place(TokenProgram.frame, "ack") + 1 .. Place(TokenProgram.frame, "set")
DspAcks == d.at = Place(TokenProgram.loop, "semAck")
DspHas == d.at \in Place(TokenProgram.loop, "semAck") + 1
                     .. Place(TokenProgram.loop, "semWrite")
DspRewrites == d.at = Place(TokenProgram.loop, "semWrite")

\* The bits that an example uses.
TokenBits == IF ex = "semaphores" THEN AllBits ELSE {0}

\* Whose turn it is.
ForDsp(b) == /\ toDsp = {b} /\ toArm = {} /\ ~ArmAcks /\ ~ArmHas /\ ~DspHas
             /\ DspAcks => d.bits = {b}
ForArm(b) == /\ toDsp = {} /\ toArm = {b} /\ ~DspAcks /\ ~DspHas /\ ~ArmHas
             /\ ArmAcks => a.bits = {b}
WithArm(b) == /\ toDsp = {} /\ toArm = {} /\ ArmHas /\ ~ArmAcks /\ a.bits = {b}
              /\ ~DspAcks /\ ~DspHas
WithDsp(b) == /\ toDsp = {} /\ toArm = {} /\ DspHas /\ ~DspAcks /\ d.bits = {b}
              /\ ~ArmAcks /\ ~ArmHas
              /\ DspRewrites => d.psem = {}

PlaceInv ==
    /\ {"at", "bits"} \subseteq DOMAIN a /\ {"at", "bits", "psem"} \subseteq DOMAIN d
    /\ a.at \in DOMAIN TokenProgram.frame /\ d.at \in DOMAIN TokenProgram.loop

TokenInv ==
    HasToken =>
      /\ PlaceInv
      /\ \E b \in TokenBits : ForDsp(b) \/ ForArm(b) \/ WithArm(b) \/ WithDsp(b)

-----------------------------------------------------------------------------
(* The programs *)

\* The frame of semaphores, step by step.
LEMMA SemaphoresFrame ==
    LET f == semaphores.frame
    IN  /\ DOMAIN f = 1 .. 8 /\ Len(f) = 8
        /\ f[1] = "send0" /\ f[2] = "delay" /\ f[3] = "get" /\ f[4] = "ack" /\ f[5] = "set"
        /\ f[6] = "read0" /\ f[7] = "read1" /\ f[8] = "read2"
  BY DEF semaphores

\* The loop of semaphores, step by step.
LEMMA SemaphoresLoop ==
    LET l == semaphores.loop
    IN  /\ DOMAIN l = 1 .. 8 /\ Len(l) = 8
        /\ l[1] = "receive0" /\ l[2] = "reply0" /\ l[3] = "semGet" /\ l[4] = "semAck"
        /\ l[5] = "semRead" /\ l[6] = "semWrite" /\ l[7] = "reply1" /\ l[8] = "reply2"
  BY DEF semaphores

\* The frame of dma_dsp_to_arm and dma_async, step by step.
LEMMA DmaFrame ==
    LET f == dma_dsp_to_arm.frame
    IN  /\ DOMAIN f = 1 .. 14 /\ Len(f) = 14
        /\ f[1] = "keys" /\ f[2] = "send0" /\ f[3] = "send1" /\ f[4] = "send2"
        /\ f[5] = "read0" /\ f[6] = "read1" /\ f[7] = "read2" /\ f[8] = "get"
        /\ f[9] = "ack" /\ f[10] = "flush" /\ f[11] = "sum" /\ f[12] = "set"
        /\ f[13] = "clear" /\ f[14] = "flushAgain"
  BY DEF dma_dsp_to_arm

\* The loop of dma_dsp_to_arm and dma_async, step by step.
LEMMA DmaLoop ==
    LET l == dma_dsp_to_arm.loop
    IN  /\ DOMAIN l = 1 .. 13 /\ Len(l) = 13
        /\ l[1] = "receive0" /\ l[2] = "receive1" /\ l[3] = "receive2" /\ l[4] = "semGet"
        /\ l[5] = "semAck" /\ l[6] = "busy" /\ l[7] = "start" /\ l[8] = "wait"
        /\ l[9] = "semRead" /\ l[10] = "semWrite" /\ l[11] = "reply0"
        /\ l[12] = "reply1" /\ l[13] = "reply2"
  BY DEF dma_dsp_to_arm

\* A step that a program has once is where it is.
LEMMA PlaceOf ==
    ASSUME NEW steps, NEW step, NEW i \in DOMAIN steps, steps[i] = step,
           \A j \in DOMAIN steps : steps[j] = step => j = i
    PROVE  Place(steps, step) = i
  BY DEF Place

\* Where the steps are that semaphores jumps to, and those that move the token.
LEMMA SemaphoresPlaces ==
    LET f == semaphores.frame  l == semaphores.loop
    IN  /\ Place(f, "ack") = 4 /\ Place(f, "set") = 5 /\ Place(f, "read0") = 6
        /\ Place(l, "semAck") = 4 /\ Place(l, "semWrite") = 6 /\ Place(l, "reply1") = 7
  <1> DEFINE f == semaphores.frame  l == semaphores.loop
  <1>1. /\ DOMAIN f = 1 .. 8
        /\ f[1] = "send0" /\ f[2] = "delay" /\ f[3] = "get" /\ f[4] = "ack" /\ f[5] = "set"
        /\ f[6] = "read0" /\ f[7] = "read1" /\ f[8] = "read2"
    BY SemaphoresFrame
  <1>2. /\ DOMAIN l = 1 .. 8
        /\ l[1] = "receive0" /\ l[2] = "reply0" /\ l[3] = "semGet" /\ l[4] = "semAck"
        /\ l[5] = "semRead" /\ l[6] = "semWrite" /\ l[7] = "reply1" /\ l[8] = "reply2"
    BY SemaphoresLoop
  <1> HIDE DEF f, l
  <1>3. Place(f, "ack") = 4
    BY <1>1, PlaceOf
  <1>4. Place(f, "set") = 5
    BY <1>1, PlaceOf
  <1>5. Place(f, "read0") = 6
    BY <1>1, PlaceOf
  <1>6. Place(l, "semAck") = 4
    BY <1>2, PlaceOf
  <1>7. Place(l, "semWrite") = 6
    BY <1>2, PlaceOf
  <1>8. Place(l, "reply1") = 7
    BY <1>2, PlaceOf
  <1> QED
    BY <1>3, <1>4, <1>5, <1>6, <1>7, <1>8 DEF f, l

\* The same for dma_dsp_to_arm and dma_async.
LEMMA DmaPlaces ==
    LET f == dma_dsp_to_arm.frame  l == dma_dsp_to_arm.loop
    IN  /\ Place(f, "keys") = 1 /\ Place(f, "ack") = 9 /\ Place(f, "set") = 12
        /\ Place(l, "semAck") = 5 /\ Place(l, "wait") = 8 /\ Place(l, "semRead") = 9
        /\ Place(l, "semWrite") = 10 /\ Place(l, "reply0") = 11
  <1> DEFINE f == dma_dsp_to_arm.frame  l == dma_dsp_to_arm.loop
  <1>1. /\ DOMAIN f = 1 .. 14
        /\ f[1] = "keys" /\ f[2] = "send0" /\ f[3] = "send1" /\ f[4] = "send2"
        /\ f[5] = "read0" /\ f[6] = "read1" /\ f[7] = "read2" /\ f[8] = "get"
        /\ f[9] = "ack" /\ f[10] = "flush" /\ f[11] = "sum" /\ f[12] = "set"
        /\ f[13] = "clear" /\ f[14] = "flushAgain"
    BY DmaFrame
  <1>2. /\ DOMAIN l = 1 .. 13
        /\ l[1] = "receive0" /\ l[2] = "receive1" /\ l[3] = "receive2" /\ l[4] = "semGet"
        /\ l[5] = "semAck" /\ l[6] = "busy" /\ l[7] = "start" /\ l[8] = "wait"
        /\ l[9] = "semRead" /\ l[10] = "semWrite" /\ l[11] = "reply0"
        /\ l[12] = "reply1" /\ l[13] = "reply2"
    BY DmaLoop
  <1> HIDE DEF f, l
  <1>3. Place(f, "keys") = 1
    BY <1>1, PlaceOf
  <1>4. Place(f, "ack") = 9
    BY <1>1, PlaceOf
  <1>5. Place(f, "set") = 12
    BY <1>1, PlaceOf
  <1>6. Place(l, "semAck") = 5
    BY <1>2, PlaceOf
  <1>7. Place(l, "wait") = 8
    BY <1>2, PlaceOf
  <1>8. Place(l, "semRead") = 9
    BY <1>2, PlaceOf
  <1>9. Place(l, "semWrite") = 10
    BY <1>2, PlaceOf
  <1>10. Place(l, "reply0") = 11
    BY <1>2, PlaceOf
  <1> QED
    BY <1>3, <1>4, <1>5, <1>6, <1>7, <1>8, <1>9, <1>10 DEF f, l

\* The steps for the three channels.
LEMMA Names ==
    /\ \A id \in Channels : id = 0 \/ id = 1 \/ id = 2
    /\ Sends[0 + 1] = "send0" /\ Sends[1 + 1] = "send1" /\ Sends[2 + 1] = "send2"
    /\ Reads[0 + 1] = "read0" /\ Reads[1 + 1] = "read1" /\ Reads[2 + 1] = "read2"
    /\ Receives[0 + 1] = "receive0" /\ Receives[1 + 1] = "receive1"
    /\ Receives[2 + 1] = "receive2"
    /\ Replies[0 + 1] = "reply0" /\ Replies[1 + 1] = "reply1" /\ Replies[2 + 1] = "reply2"
  BY DEF Channels, Sends, Reads, Receives, Replies

\* Where a step of semaphores is, and the next one.
LEMMA SemaphoresAt ==
    ASSUME NEW i \in 1 .. 8
    PROVE  /\ LET s == semaphores.frame[i]
              IN  /\ (s = "send0" => i = 1) /\ (s = "delay" => i = 2) /\ (s = "get" => i = 3)
                  /\ (s = "ack" => i = 4) /\ (s = "set" => i = 5) /\ (s = "read0" => i = 6)
                  /\ (s = "read1" => i = 7) /\ (s = "read2" => i = 8)
           /\ LET s == semaphores.loop[i]
              IN  /\ (s = "receive0" => i = 1) /\ (s = "reply0" => i = 2)
                  /\ (s = "semGet" => i = 3) /\ (s = "semAck" => i = 4)
                  /\ (s = "semRead" => i = 5) /\ (s = "semWrite" => i = 6)
                  /\ (s = "reply1" => i = 7) /\ (s = "reply2" => i = 8)
           /\ AfterStep(semaphores.frame, i) = IF i = 8 THEN 1 ELSE i + 1
           /\ AfterStep(semaphores.loop, i) = IF i = 8 THEN 1 ELSE i + 1
  BY SemaphoresFrame, SemaphoresLoop DEF AfterStep

\* Where a step of dma_dsp_to_arm is, and the next one.
LEMMA DmaAt ==
    /\ \A i \in 1 .. 14 :
         LET s == dma_dsp_to_arm.frame[i]
         IN  /\ (s = "keys" => i = 1) /\ (s = "send0" => i = 2) /\ (s = "send1" => i = 3)
             /\ (s = "send2" => i = 4) /\ (s = "read0" => i = 5) /\ (s = "read1" => i = 6)
             /\ (s = "read2" => i = 7) /\ (s = "get" => i = 8) /\ (s = "ack" => i = 9)
             /\ (s = "flush" => i = 10) /\ (s = "sum" => i = 11) /\ (s = "set" => i = 12)
             /\ (s = "clear" => i = 13) /\ (s = "flushAgain" => i = 14)
    /\ \A i \in 1 .. 13 :
         LET s == dma_dsp_to_arm.loop[i]
         IN  /\ (s = "receive0" => i = 1) /\ (s = "receive1" => i = 2)
             /\ (s = "receive2" => i = 3) /\ (s = "semGet" => i = 4)
             /\ (s = "semAck" => i = 5) /\ (s = "busy" => i = 6) /\ (s = "start" => i = 7)
             /\ (s = "wait" => i = 8) /\ (s = "semRead" => i = 9) /\ (s = "semWrite" => i = 10)
             /\ (s = "reply0" => i = 11) /\ (s = "reply1" => i = 12) /\ (s = "reply2" => i = 13)
             /\ s # "sum"
    /\ \A i \in 1 .. 14 : AfterStep(dma_dsp_to_arm.frame, i) = IF i = 14 THEN 1 ELSE i + 1
    /\ \A i \in 1 .. 13 : AfterStep(dma_dsp_to_arm.loop, i) = IF i = 13 THEN 1 ELSE i + 1
  <1>1. ASSUME NEW i \in 1 .. 14
        PROVE  LET s == dma_dsp_to_arm.frame[i]
               IN  /\ (s = "keys" => i = 1) /\ (s = "send0" => i = 2) /\ (s = "send1" => i = 3)
                   /\ (s = "send2" => i = 4) /\ (s = "read0" => i = 5) /\ (s = "read1" => i = 6)
                   /\ (s = "read2" => i = 7) /\ (s = "get" => i = 8) /\ (s = "ack" => i = 9)
                   /\ (s = "flush" => i = 10) /\ (s = "sum" => i = 11) /\ (s = "set" => i = 12)
                   /\ (s = "clear" => i = 13) /\ (s = "flushAgain" => i = 14)
    BY DmaFrame
  <1>2. ASSUME NEW i \in 1 .. 13
        PROVE  LET s == dma_dsp_to_arm.loop[i]
               IN  /\ (s = "receive0" => i = 1) /\ (s = "receive1" => i = 2)
                   /\ (s = "receive2" => i = 3) /\ (s = "semGet" => i = 4)
                   /\ (s = "semAck" => i = 5) /\ (s = "busy" => i = 6) /\ (s = "start" => i = 7)
                   /\ (s = "wait" => i = 8) /\ (s = "semRead" => i = 9)
                   /\ (s = "semWrite" => i = 10) /\ (s = "reply0" => i = 11)
                   /\ (s = "reply1" => i = 12) /\ (s = "reply2" => i = 13) /\ s # "sum"
    BY DmaLoop
  <1>3. \A i \in 1 .. 14 : AfterStep(dma_dsp_to_arm.frame, i) = IF i = 14 THEN 1 ELSE i + 1
    BY DmaFrame DEF AfterStep
  <1>4. \A i \in 1 .. 13 : AfterStep(dma_dsp_to_arm.loop, i) = IF i = 13 THEN 1 ELSE i + 1
    BY DmaLoop DEF AfterStep
  <1> QED
    BY <1>1, <1>2, <1>3, <1>4

-----------------------------------------------------------------------------
(* What a step of a CPU does to the token *)

\* The bits that are passed on after "bits".
Passed(bits) == IF ex = "semaphores" THEN NextBit(bits) ELSE {0}

ArmQuiet ==
    /\ UNCHANGED semVars /\ a'.bits = a.bits
    /\ ~ArmAcks /\ ~ArmAcks' /\ (ArmHas' <=> ArmHas)
ArmGets ==
    /\ UNCHANGED semVars
    /\ ~ArmAcks /\ ~ArmHas /\ ~ArmHas'
    /\ IF toArm \cap TokenBits = {} THEN ~ArmAcks'
       ELSE ArmAcks' /\ a'.bits = toArm \cap TokenBits
ArmAcknowledges ==
    /\ toArm' = toArm \ a.bits /\ UNCHANGED toDsp
    /\ ArmAcks /\ ~ArmHas /\ ArmHas' /\ ~ArmAcks' /\ a'.bits = a.bits
ArmPasses ==
    /\ toDsp' = toDsp \cup Passed(a.bits) /\ UNCHANGED toArm
    /\ ArmHas /\ ~ArmAcks /\ ~ArmHas' /\ ~ArmAcks'

ArmEffect ==
    /\ ex' = ex /\ d' = d
    /\ PlaceInv'
    /\ ArmQuiet \/ ArmGets \/ ArmAcknowledges \/ ArmPasses

\* What the ARM9 of semaphores does to the token.
LEMMA SemaphoresArmEffect ==
    ASSUME ex = "semaphores", ex' = ex, PlaceInv, SemaphoresArm9
    PROVE  ArmEffect
  <1>1. /\ TokenProgram = semaphores /\ TokenProgram' = semaphores
        /\ TokenBits = AllBits /\ Passed(a.bits) = NextBit(a.bits)
    BY DEF TokenProgram, TokenBits, Passed
  <1>2. /\ {"at", "bits"} \subseteq DOMAIN a /\ a.at \in 1 .. 8
        /\ {"at", "bits", "psem"} \subseteq DOMAIN d /\ d.at \in DOMAIN TokenProgram.loop
    BY <1>1, SemaphoresFrame DEF PlaceInv
  <1>3. /\ (ArmAcks <=> a.at = 4) /\ (ArmAcks' <=> a'.at = 4)
        /\ (ArmHas <=> a.at \in 5 .. 5) /\ (ArmHas' <=> a'.at \in 5 .. 5)
    BY <1>1, SemaphoresPlaces DEF ArmAcks, ArmHas
  <1>4. ASSUME d' = d, {"at", "bits"} \subseteq DOMAIN a', a'.at \in 1 .. 8 PROVE PlaceInv'
    BY <1>1, <1>2, <1>4, SemaphoresFrame DEF PlaceInv
  <1>5. ArmForward(semaphores) = IF a.at = 8 THEN 1 ELSE a.at + 1
    BY <1>2, SemaphoresAt DEF ArmForward
  <1>6. ASSUME a.at \in {1, 2, 6, 7, 8}, a'.at \in 1 .. 8, a'.at \notin {4, 5},
               {"at", "bits"} \subseteq DOMAIN a', a'.bits = a.bits, d' = d, UNCHANGED semVars
        PROVE  ArmEffect
    BY <1>3, <1>4, <1>6 DEF ArmEffect, ArmQuiet
  <1>7. CASE SendIfReady(semaphores, 0, 0)
    <2>1. a.at = 1
      BY <1>2, <1>7, Names, SemaphoresAt DEF SendIfReady, ArmAt
    <2> QED
      BY <1>2, <1>5, <1>6, <1>7, <2>1 DEF SendIfReady
  <1>8. CASE CountDelay
    <2>1. a.at = 2
      BY <1>2, <1>8, SemaphoresAt DEF CountDelay, ArmAt
    <2>2. a'.at \in {3, 6} /\ a'.bits = a.bits /\ {"at", "bits"} \subseteq DOMAIN a'
      BY <1>2, <1>5, <1>8, <2>1, SemaphoresPlaces DEF CountDelay
    <2> QED
      BY <1>6, <1>8, <2>1, <2>2 DEF CountDelay
  <1>9. CASE ArmGet(semaphores, AllBits, "read0")
    <2>1. a.at = 3
      BY <1>2, <1>9, SemaphoresAt DEF ArmGet, ArmAt
    <2>2. /\ {"at", "bits"} \subseteq DOMAIN a' /\ d' = d /\ UNCHANGED semVars
          /\ a'.bits = toArm \cap AllBits
          /\ a'.at = IF toArm \cap AllBits = {} THEN 6 ELSE 4
      BY <1>2, <1>5, <1>9, <2>1, SemaphoresPlaces DEF ArmGet, dspGetSemaphore
    <2>3. ArmGets
      BY <1>1, <1>3, <2>1, <2>2 DEF ArmGets
    <2> QED
      BY <1>4, <2>2, <2>3 DEF ArmEffect
  <1>10. CASE ArmAck(semaphores)
    <2>1. a.at = 4
      BY <1>2, <1>10, SemaphoresAt DEF ArmAck, ArmAt
    <2>2. /\ {"at", "bits"} \subseteq DOMAIN a' /\ d' = d /\ a'.at = 5 /\ a'.bits = a.bits
          /\ toArm' = toArm \ a.bits /\ toDsp' = toDsp
      BY <1>2, <1>5, <1>10, <2>1 DEF ArmAck, dspAckSemaphore
    <2> QED
      BY <1>3, <1>4, <2>1, <2>2 DEF ArmEffect, ArmAcknowledges
  <1>11. CASE ArmSet(semaphores, NextBit(a.bits))
    <2>1. a.at = 5
      BY <1>2, <1>11, SemaphoresAt DEF ArmSet, ArmAt
    <2>2. /\ {"at", "bits"} \subseteq DOMAIN a' /\ d' = d /\ a'.at = 6
          /\ toDsp' = toDsp \cup NextBit(a.bits) /\ toArm' = toArm
      BY <1>2, <1>5, <1>11, <2>1 DEF ArmSet, dspSetSemaphore
    <2> QED
      BY <1>1, <1>3, <1>4, <2>1, <2>2 DEF ArmEffect, ArmPasses
  <1>12. ASSUME NEW id \in Channels, ReadIfReady(semaphores, id) PROVE ArmEffect
    <2>1. a.at \in {6, 7, 8}
      BY <1>2, <1>12, Names, SemaphoresAt DEF ReadIfReady, ArmAt
    <2>2. /\ {"at", "bits"} \subseteq DOMAIN a' /\ a'.bits = a.bits
          /\ a'.at = ArmForward(semaphores) /\ d' = d /\ UNCHANGED semVars
      BY <1>2, <1>12 DEF ReadIfReady
    <2> QED
      BY <1>5, <1>6, <2>1, <2>2
  <1> QED
    BY <1>7, <1>8, <1>9, <1>10, <1>11, <1>12 DEF SemaphoresArm9

\* What the ARM9 of dma_dsp_to_arm and dma_async does to it.
LEMMA DmaArmEffect ==
    ASSUME ChangesSum, ex' = ex, PlaceInv, DmaArm9
    PROVE  ArmEffect
  <1>1. /\ TokenProgram = dma_dsp_to_arm /\ TokenProgram' = dma_dsp_to_arm
        /\ Program = dma_dsp_to_arm /\ ex # "dma_arm_to_dsp"
        /\ TokenBits = {0} /\ Passed(a.bits) = {0}
    BY DEF ChangesSum, TokenProgram, Program, TokenBits, Passed
  <1>2. /\ {"at", "bits"} \subseteq DOMAIN a /\ a.at \in 1 .. 14
        /\ {"at", "bits", "psem"} \subseteq DOMAIN d /\ d.at \in DOMAIN TokenProgram.loop
    BY <1>1, DmaFrame DEF PlaceInv
  <1>3. /\ (ArmAcks <=> a.at = 9) /\ (ArmAcks' <=> a'.at = 9)
        /\ (ArmHas <=> a.at \in 10 .. 12) /\ (ArmHas' <=> a'.at \in 10 .. 12)
    BY <1>1, DmaPlaces DEF ArmAcks, ArmHas
  <1>4. ASSUME d' = d, {"at", "bits"} \subseteq DOMAIN a', a'.at \in 1 .. 14 PROVE PlaceInv'
    BY <1>1, <1>2, <1>4, DmaFrame DEF PlaceInv
  <1>5. ArmForward(Program) = IF a.at = 14 THEN 1 ELSE a.at + 1
    BY <1>1, <1>2, DmaAt DEF ArmForward
  <1>6. ASSUME a.at \in 1 .. 7 \cup {10, 11, 13, 14}, a'.at = ArmForward(Program),
               {"at", "bits"} \subseteq DOMAIN a', a'.bits = a.bits, d' = d, UNCHANGED semVars
        PROVE  ArmEffect
    <2>1. /\ a'.at \in 1 .. 14 /\ a.at # 9 /\ a'.at # 9
          /\ a'.at \in 10 .. 12 <=> a.at \in 10 .. 12
      BY <1>5, <1>6
    <2> QED
      BY <1>3, <1>4, <1>6, <2>1 DEF ArmEffect, ArmQuiet
  <1>7. CASE Keys(Program, DmaKeys(a.settings))
    <2>1. a.at = 1
      BY <1>1, <1>2, <1>7, DmaAt DEF Keys, ArmAt
    <2>2. /\ {"at", "bits"} \subseteq DOMAIN a' /\ a'.bits = a.bits
          /\ a'.at = ArmForward(Program) /\ d' = d /\ UNCHANGED semVars
      BY <1>2, <1>7 DEF Keys
    <2> QED
      BY <1>6, <2>1, <2>2
  <1>8. ASSUME NEW id \in Channels,
               SendIfReady(Program, id, DmaCommand(a.settings)[id]) \/ ReadIfReady(Program, id)
        PROVE  ArmEffect
    <2>1. a.at \in 1 .. 7
      BY <1>1, <1>2, <1>8, Names, DmaAt DEF SendIfReady, ReadIfReady, ArmAt
    <2>2. /\ {"at", "bits"} \subseteq DOMAIN a' /\ a'.bits = a.bits
          /\ a'.at = ArmForward(Program) /\ d' = d /\ UNCHANGED semVars
      BY <1>2, <1>8 DEF SendIfReady, ReadIfReady
    <2> QED
      BY <1>6, <2>1, <2>2
  <1>9. CASE ArmGet(Program, {0}, "keys")
    <2>1. a.at = 8
      BY <1>1, <1>2, <1>9, DmaAt DEF ArmGet, ArmAt
    <2>2. /\ {"at", "bits"} \subseteq DOMAIN a' /\ d' = d /\ UNCHANGED semVars
          /\ a'.bits = toArm \cap {0}
          /\ a'.at = IF toArm \cap {0} = {} THEN 1 ELSE 9
      BY <1>1, <1>2, <1>5, <1>9, <2>1, DmaPlaces DEF ArmGet, dspGetSemaphore
    <2>3. ArmGets
      BY <1>1, <1>3, <2>1, <2>2 DEF ArmGets
    <2> QED
      BY <1>4, <2>2, <2>3 DEF ArmEffect
  <1>10. CASE ArmAck(Program)
    <2>1. a.at = 9
      BY <1>1, <1>2, <1>10, DmaAt DEF ArmAck, ArmAt
    <2>2. /\ {"at", "bits"} \subseteq DOMAIN a' /\ d' = d /\ a'.at = 10 /\ a'.bits = a.bits
          /\ toArm' = toArm \ a.bits /\ toDsp' = toDsp
      BY <1>2, <1>5, <1>10, <2>1 DEF ArmAck, dspAckSemaphore
    <2> QED
      BY <1>3, <1>4, <2>1, <2>2 DEF ArmEffect, ArmAcknowledges
  <1>11. CASE ArmSet(Program, {0})
    <2>1. a.at = 12
      BY <1>1, <1>2, <1>11, DmaAt DEF ArmSet, ArmAt
    <2>2. /\ {"at", "bits"} \subseteq DOMAIN a' /\ d' = d /\ a'.at = 13
          /\ toDsp' = toDsp \cup {0} /\ toArm' = toArm
      BY <1>2, <1>5, <1>11, <2>1 DEF ArmSet, dspSetSemaphore
    <2> QED
      BY <1>1, <1>3, <1>4, <2>1, <2>2 DEF ArmEffect, ArmPasses
  <1>12. CASE FlushLow("flush") \/ FlushLow("flushAgain") \/ SumBuffer \/ ClearBuffer
    <2>1. a.at \in {10, 11, 13, 14}
      BY <1>1, <1>2, <1>12, DmaAt DEF FlushLow, SumBuffer, ClearBuffer, ArmStep, ArmAt
    <2>2. /\ {"at", "bits"} \subseteq DOMAIN a' /\ a'.bits = a.bits
          /\ a'.at = ArmForward(Program) /\ d' = d /\ UNCHANGED semVars
      BY <1>2, <1>12 DEF FlushLow, SumBuffer, ClearBuffer, ArmStep
    <2> QED
      BY <1>6, <2>1, <2>2
  <1> QED
    BY <1>7, <1>8, <1>9, <1>10, <1>11, <1>12 DEF DmaArm9

DspQuiet ==
    /\ UNCHANGED semVars /\ d'.bits = d.bits /\ d'.psem = d.psem
    /\ ~DspAcks /\ ~DspAcks' /\ (DspHas' <=> DspHas) /\ ~DspRewrites /\ ~DspRewrites'
DspGets ==
    /\ UNCHANGED semVars
    /\ ~DspAcks /\ ~DspHas /\ ~DspHas'
    /\ IF toDsp \cap TokenBits = {} THEN ~DspAcks'
       ELSE DspAcks' /\ d'.bits = toDsp \cap TokenBits
DspAcknowledges ==
    /\ toDsp' = toDsp \ d.bits /\ UNCHANGED toArm
    /\ DspAcks /\ ~DspHas /\ DspHas' /\ ~DspAcks' /\ d'.bits = d.bits
    /\ ~DspRewrites'
DspLoads ==
    /\ UNCHANGED semVars /\ d'.bits = d.bits /\ d'.psem = toArm
    /\ ~DspAcks /\ ~DspAcks' /\ DspHas /\ DspHas'
DspPasses ==
    /\ toArm' = d.psem \cup Passed(d.bits) /\ UNCHANGED toDsp
    /\ DspHas /\ ~DspAcks /\ DspRewrites /\ ~DspHas' /\ ~DspAcks'

DspEffect ==
    /\ ex' = ex /\ a' = a
    /\ PlaceInv'
    /\ DspQuiet \/ DspGets \/ DspAcknowledges \/ DspLoads \/ DspPasses

\* What the DSP of semaphores does to the token.
LEMMA SemaphoresDspEffect ==
    ASSUME ex = "semaphores", ex' = ex, PlaceInv, SemaphoresDsp
    PROVE  DspEffect
  <1>1. /\ TokenProgram = semaphores /\ TokenProgram' = semaphores
        /\ TokenBits = AllBits /\ Passed(d.bits) = NextBit(d.bits)
    BY DEF TokenProgram, TokenBits, Passed
  <1>2. /\ {"at", "bits", "psem"} \subseteq DOMAIN d /\ d.at \in 1 .. 8
        /\ {"at", "bits"} \subseteq DOMAIN a /\ a.at \in DOMAIN TokenProgram.frame
    BY <1>1, SemaphoresLoop DEF PlaceInv
  <1>3. /\ (DspAcks <=> d.at = 4) /\ (DspAcks' <=> d'.at = 4)
        /\ (DspHas <=> d.at \in 5 .. 6) /\ (DspHas' <=> d'.at \in 5 .. 6)
        /\ (DspRewrites <=> d.at = 6) /\ (DspRewrites' <=> d'.at = 6)
    BY <1>1, SemaphoresPlaces DEF DspAcks, DspHas, DspRewrites
  <1>4. ASSUME a' = a, {"at", "bits", "psem"} \subseteq DOMAIN d', d'.at \in 1 .. 8
        PROVE  PlaceInv'
    BY <1>1, <1>2, <1>4, SemaphoresLoop DEF PlaceInv
  <1>5. DspForward(semaphores) = IF d.at = 8 THEN 1 ELSE d.at + 1
    BY <1>2, SemaphoresAt DEF DspForward
  <1>6. CASE ReceiveWord(semaphores, 0) \/ ReplyWord(semaphores, 0, d.data[0])
             \/ ReplyWord(semaphores, 1, 0) \/ ReplyWord(semaphores, 2, 0)
    <2>1. d.at \in {1, 2, 7, 8}
      BY <1>2, <1>6, Names, SemaphoresAt DEF ReceiveWord, ReplyWord, DspAt
    <2>2. /\ {"at", "bits", "psem"} \subseteq DOMAIN d' /\ d'.bits = d.bits /\ d'.psem = d.psem
          /\ d'.at = DspForward(semaphores) /\ a' = a /\ UNCHANGED semVars
      BY <1>2, <1>6 DEF ReceiveWord, ReplyWord
    <2>3. d'.at \in 1 .. 8 /\ d'.at \notin {4, 5, 6}
      BY <1>5, <2>1, <2>2
    <2> QED
      BY <1>3, <1>4, <2>1, <2>2, <2>3 DEF DspEffect, DspQuiet
  <1>7. CASE GetSemaphore(semaphores, AllBits, "reply1")
    <2>1. d.at = 3
      BY <1>2, <1>7, SemaphoresAt DEF GetSemaphore, DspAt
    <2>2. /\ {"at", "bits", "psem"} \subseteq DOMAIN d' /\ a' = a /\ UNCHANGED semVars
          /\ d'.bits = toDsp \cap AllBits
          /\ d'.at = IF toDsp \cap AllBits = {} THEN 7 ELSE 4
      BY <1>2, <1>5, <1>7, <2>1, SemaphoresPlaces DEF GetSemaphore, apbpGetSemaphore
    <2>3. DspGets
      BY <1>1, <1>3, <2>1, <2>2 DEF DspGets
    <2> QED
      BY <1>4, <2>2, <2>3 DEF DspEffect
  <1>8. CASE AckSemaphore(semaphores)
    <2>1. d.at = 4
      BY <1>2, <1>8, SemaphoresAt DEF AckSemaphore, DspAt
    <2>2. /\ {"at", "bits", "psem"} \subseteq DOMAIN d' /\ a' = a /\ d'.at = 5
          /\ d'.bits = d.bits /\ toDsp' = toDsp \ d.bits /\ toArm' = toArm
      BY <1>2, <1>5, <1>8, <2>1 DEF AckSemaphore, apbpAckSemaphore
    <2> QED
      BY <1>3, <1>4, <2>1, <2>2 DEF DspEffect, DspAcknowledges
  <1>9. CASE SetSemaphoreRead(semaphores)
    <2>1. d.at = 5
      BY <1>2, <1>9, SemaphoresAt DEF SetSemaphoreRead, DspAt
    <2>2. /\ {"at", "bits", "psem"} \subseteq DOMAIN d' /\ a' = a /\ d'.at = 6
          /\ d'.bits = d.bits /\ d'.psem = toArm /\ UNCHANGED semVars
      BY <1>2, <1>5, <1>9, <2>1 DEF SetSemaphoreRead
    <2> QED
      BY <1>3, <1>4, <2>1, <2>2 DEF DspEffect, DspLoads
  <1>10. CASE SetSemaphoreWrite(semaphores, NextBit(d.bits))
    <2>1. d.at = 6
      BY <1>2, <1>10, SemaphoresAt DEF SetSemaphoreWrite, DspAt
    <2>2. /\ {"at", "bits", "psem"} \subseteq DOMAIN d' /\ a' = a /\ d'.at = 7
          /\ toArm' = d.psem \cup NextBit(d.bits) /\ toDsp' = toDsp
      BY <1>2, <1>5, <1>10, <2>1 DEF SetSemaphoreWrite
    <2> QED
      BY <1>1, <1>3, <1>4, <2>1, <2>2 DEF DspEffect, DspPasses
  <1> QED
    BY <1>6, <1>7, <1>8, <1>9, <1>10 DEF SemaphoresDsp

\* What the DSP of dma_dsp_to_arm and dma_async does to it.
LEMMA DmaDspEffect ==
    ASSUME ChangesSum, ex' = ex, PlaceInv, DmaDsp
    PROVE  DspEffect
  <1>1. /\ TokenProgram = dma_dsp_to_arm /\ TokenProgram' = dma_dsp_to_arm
        /\ Program = dma_dsp_to_arm /\ ex # "dma_arm_to_dsp"
        /\ TokenBits = {0} /\ Passed(d.bits) = {0}
    BY DEF ChangesSum, TokenProgram, Program, TokenBits, Passed
  <1>2. /\ {"at", "bits", "psem"} \subseteq DOMAIN d /\ d.at \in 1 .. 13
        /\ {"at", "bits"} \subseteq DOMAIN a /\ a.at \in DOMAIN TokenProgram.frame
    BY <1>1, DmaLoop DEF PlaceInv
  <1>3. /\ (DspAcks <=> d.at = 5) /\ (DspAcks' <=> d'.at = 5)
        /\ (DspHas <=> d.at \in 6 .. 10) /\ (DspHas' <=> d'.at \in 6 .. 10)
        /\ (DspRewrites <=> d.at = 10) /\ (DspRewrites' <=> d'.at = 10)
    BY <1>1, DmaPlaces DEF DspAcks, DspHas, DspRewrites
  <1>4. ASSUME a' = a, {"at", "bits", "psem"} \subseteq DOMAIN d', d'.at \in 1 .. 13
        PROVE  PlaceInv'
    BY <1>1, <1>2, <1>4, DmaLoop DEF PlaceInv
  <1>5. DspForward(Program) = IF d.at = 13 THEN 1 ELSE d.at + 1
    BY <1>1, <1>2, DmaAt DEF DspForward
  <1>6. ASSUME NEW id \in Channels,
               ReceiveWord(Program, id) \/ ReplyWord(Program, id, DmaReply[id])
        PROVE  DspEffect
    <2>1. d.at \in {1, 2, 3, 11, 12, 13}
      BY <1>1, <1>2, <1>6, Names, DmaAt DEF ReceiveWord, ReplyWord, DspAt
    <2>2. /\ {"at", "bits", "psem"} \subseteq DOMAIN d' /\ d'.bits = d.bits /\ d'.psem = d.psem
          /\ d'.at = DspForward(Program) /\ a' = a /\ UNCHANGED semVars
      BY <1>2, <1>6 DEF ReceiveWord, ReplyWord
    <2>3. d'.at \in 1 .. 13 /\ d'.at \notin 5 .. 10
      BY <1>5, <2>1, <2>2
    <2> QED
      BY <1>3, <1>4, <2>1, <2>2, <2>3 DEF DspEffect, DspQuiet
  <1>7. CASE GetSemaphore(Program, {0}, "reply0")
    <2>1. d.at = 4
      BY <1>1, <1>2, <1>7, DmaAt DEF GetSemaphore, DspAt
    <2>2. /\ {"at", "bits", "psem"} \subseteq DOMAIN d' /\ a' = a /\ UNCHANGED semVars
          /\ d'.bits = toDsp \cap {0}
          /\ d'.at = IF toDsp \cap {0} = {} THEN 11 ELSE 5
      BY <1>1, <1>2, <1>5, <1>7, <2>1, DmaPlaces DEF GetSemaphore, apbpGetSemaphore
    <2>3. DspGets
      BY <1>1, <1>3, <2>1, <2>2 DEF DspGets
    <2> QED
      BY <1>4, <2>2, <2>3 DEF DspEffect
  <1>8. CASE AckSemaphore(Program)
    <2>1. d.at = 5
      BY <1>1, <1>2, <1>8, DmaAt DEF AckSemaphore, DspAt
    <2>2. /\ {"at", "bits", "psem"} \subseteq DOMAIN d' /\ a' = a /\ d'.at = 6
          /\ d'.bits = d.bits /\ toDsp' = toDsp \ d.bits /\ toArm' = toArm
      BY <1>2, <1>5, <1>8, <2>1 DEF AckSemaphore, apbpAckSemaphore
    <2> QED
      BY <1>3, <1>4, <2>1, <2>2 DEF DspEffect, DspAcknowledges
  <1>9. CASE SetSemaphoreRead(Program)
    <2>1. d.at = 9
      BY <1>1, <1>2, <1>9, DmaAt DEF SetSemaphoreRead, DspAt
    <2>2. /\ {"at", "bits", "psem"} \subseteq DOMAIN d' /\ a' = a /\ d'.at = 10
          /\ d'.bits = d.bits /\ d'.psem = toArm /\ UNCHANGED semVars
      BY <1>2, <1>5, <1>9, <2>1 DEF SetSemaphoreRead
    <2> QED
      BY <1>3, <1>4, <2>1, <2>2 DEF DspEffect, DspLoads
  <1>10. CASE SetSemaphoreWrite(Program, {0})
    <2>1. d.at = 10
      BY <1>1, <1>2, <1>10, DmaAt DEF SetSemaphoreWrite, DspAt
    <2>2. /\ {"at", "bits", "psem"} \subseteq DOMAIN d' /\ a' = a /\ d'.at = 11
          /\ toArm' = d.psem \cup {0} /\ toDsp' = toDsp
      BY <1>2, <1>5, <1>10, <2>1 DEF SetSemaphoreWrite
    <2> QED
      BY <1>1, <1>3, <1>4, <2>1, <2>2 DEF DspEffect, DspPasses
  <1>11. CASE WaitBusy \/ StartTransfer \/ WaitTransfer
    <2>1. d.at \in {6, 7, 8}
      BY <1>1, <1>2, <1>11, DmaAt DEF WaitBusy, StartTransfer, WaitTransfer, DspAt
    <2>2. /\ {"at", "bits", "psem"} \subseteq DOMAIN d' /\ d'.bits = d.bits /\ d'.psem = d.psem
          /\ a' = a /\ UNCHANGED semVars
      BY <1>2, <1>11 DEF WaitBusy, StartTransfer, WaitTransfer
    <2>3. d'.at \in 7 .. 9
      <3>1. CASE WaitBusy \/ WaitTransfer
        BY <1>2, <1>5, <2>1, <3>1 DEF WaitBusy, WaitTransfer
      <3>2. CASE StartTransfer
        <4>1. Place(Program.loop, "wait") = 8 /\ Place(Program.loop, Refused) \in {8, 9}
          BY <1>1, DmaPlaces DEF Refused
        <4>2. d'.at \in {Place(Program.loop, "wait"), Place(Program.loop, Refused)}
          BY <1>2, <3>2 DEF StartTransfer
        <4> QED
          BY <4>1, <4>2
      <3> QED
        BY <1>11, <3>1, <3>2
    <2> QED
      BY <1>3, <1>4, <2>1, <2>2, <2>3 DEF DspEffect, DspQuiet
  <1>12. ~SumWords
    BY <1>1, <1>2, DmaAt DEF SumWords, DspAt
  <1> QED
    BY <1>6, <1>7, <1>8, <1>9, <1>10, <1>11, <1>12 DEF DmaDsp

\* A CPU that does nothing stays where it is.
LEMMA DspStands ==
    ASSUME ex' = ex, d' = d
    PROVE  (DspAcks' <=> DspAcks) /\ (DspHas' <=> DspHas) /\ (DspRewrites' <=> DspRewrites)
  BY DEF DspAcks, DspHas, DspRewrites, TokenProgram, Program

\* The same for the ARM9.
LEMMA ArmStands ==
    ASSUME ex' = ex, a' = a
    PROVE  (ArmAcks' <=> ArmAcks) /\ (ArmHas' <=> ArmHas)
  BY DEF ArmAcks, ArmHas, TokenProgram, Program

\* One bit is passed on as one bit.
LEMMA PassedOne ==
    ASSUME HasToken, NEW b \in TokenBits
    PROVE  \E c \in TokenBits : Passed({b}) = {c}
  <1>1. CASE ex = "semaphores"
    <2> DEFINE shifted == {b + 1} \cap AllBits
    <2>1. TokenBits = AllBits /\ Passed({b}) = IF shifted = {} THEN {0} ELSE shifted
      <3>1. {x + 1 : x \in {b}} = {b + 1}
        OBVIOUS
      <3> QED
        BY <1>1, <3>1 DEF TokenBits, Passed, NextBit
    <2>2. 0 \in AllBits
      BY FramesAssumption DEF AllBits
    <2>3. shifted = {} \/ (shifted = {b + 1} /\ b + 1 \in AllBits)
      OBVIOUS
    <2> QED
      BY <2>1, <2>2, <2>3
  <1>2. CASE ex # "semaphores"
    BY <1>2 DEF TokenBits, Passed
  <1> QED
    BY <1>1, <1>2

\* The ARM9 takes the token only from its register, and passes one bit on.
LEMMA ArmKeepsToken ==
    ASSUME HasToken, TokenInv, ArmEffect
    PROVE  TokenInv'
  <1>1. PICK b \in TokenBits : ForDsp(b) \/ ForArm(b) \/ WithArm(b) \/ WithDsp(b)
    BY DEF TokenInv
  <1>2. /\ ex' = ex /\ d' = d /\ PlaceInv' /\ TokenBits' = TokenBits
        /\ (DspAcks' <=> DspAcks) /\ (DspHas' <=> DspHas) /\ (DspRewrites' <=> DspRewrites)
    BY DspStands DEF ArmEffect, TokenBits
  <1>3. SUFFICES \E c \in TokenBits : ForDsp(c)' \/ ForArm(c)' \/ WithArm(c)' \/ WithDsp(c)'
    BY <1>2 DEF TokenInv
  <1>4. CASE ArmQuiet
    <2>1. toDsp' = toDsp /\ toArm' = toArm
      BY <1>4 DEF ArmQuiet, semVars
    <2> QED
      BY <1>1, <1>2, <1>4, <2>1 DEF ArmQuiet, ForDsp, ForArm, WithArm, WithDsp
  <1>5. CASE ArmGets
    <2>1. toDsp' = toDsp /\ toArm' = toArm
      BY <1>5 DEF ArmGets, semVars
    <2>2. CASE ForArm(b)
      <3>1. toArm \cap TokenBits = {b}
        BY <2>2 DEF ForArm
      <3> QED
        BY <1>2, <1>5, <2>1, <2>2, <3>1 DEF ArmGets, ForArm
    <2>3. CASE ~ForArm(b)
      <3>1. toArm = {}
        BY <1>1, <1>5, <2>3 DEF ArmGets, ForDsp, WithArm, WithDsp
      <3>2. ~ArmAcks'
        BY <1>5, <3>1 DEF ArmGets
      <3> QED
        BY <1>1, <1>2, <1>5, <2>1, <2>3, <3>2 DEF ArmGets, ForDsp, WithArm, WithDsp
    <2> QED
      BY <2>2, <2>3
  <1>6. CASE ArmAcknowledges
    <2>1. ForArm(b)
      BY <1>1, <1>6 DEF ArmAcknowledges, ForDsp, WithArm, WithDsp
    <2>2. WithArm(b)'
      BY <1>2, <1>6, <2>1 DEF ArmAcknowledges, ForArm, WithArm
    <2> QED
      BY <2>2
  <1>7. CASE ArmPasses
    <2>1. WithArm(b)
      BY <1>1, <1>7 DEF ArmPasses, ForDsp, ForArm, WithDsp
    <2>2. PICK c \in TokenBits : Passed({b}) = {c}
      BY PassedOne
    <2>3. ForDsp(c)'
      BY <1>2, <1>7, <2>1, <2>2 DEF ArmPasses, ForDsp, WithArm
    <2> QED
      BY <2>3
  <1> QED
    BY <1>4, <1>5, <1>6, <1>7 DEF ArmEffect

\* The DSP takes the token only from its register, and passes one bit on: when it
\* reads REG_APBP_PSEM and until it writes it, no bit is there to be set again.
LEMMA DspKeepsToken ==
    ASSUME HasToken, TokenInv, DspEffect
    PROVE  TokenInv'
  <1>1. PICK b \in TokenBits : ForDsp(b) \/ ForArm(b) \/ WithArm(b) \/ WithDsp(b)
    BY DEF TokenInv
  <1>2. /\ ex' = ex /\ a' = a /\ PlaceInv' /\ TokenBits' = TokenBits
        /\ (ArmAcks' <=> ArmAcks) /\ (ArmHas' <=> ArmHas)
    BY ArmStands DEF DspEffect, TokenBits
  <1>3. SUFFICES \E c \in TokenBits : ForDsp(c)' \/ ForArm(c)' \/ WithArm(c)' \/ WithDsp(c)'
    BY <1>2 DEF TokenInv
  <1>4. CASE DspQuiet
    <2>1. toDsp' = toDsp /\ toArm' = toArm
      BY <1>4 DEF DspQuiet, semVars
    <2> QED
      BY <1>1, <1>2, <1>4, <2>1 DEF DspQuiet, ForDsp, ForArm, WithArm, WithDsp
  <1>5. CASE DspGets
    <2>1. toDsp' = toDsp /\ toArm' = toArm
      BY <1>5 DEF DspGets, semVars
    <2>2. CASE ForDsp(b)
      <3>1. toDsp \cap TokenBits = {b}
        BY <2>2 DEF ForDsp
      <3> QED
        BY <1>2, <1>5, <2>1, <2>2, <3>1 DEF DspGets, ForDsp
    <2>3. CASE ~ForDsp(b)
      <3>1. toDsp = {}
        BY <1>1, <1>5, <2>3 DEF DspGets, ForArm, WithArm, WithDsp
      <3>2. ~DspAcks'
        BY <1>5, <3>1 DEF DspGets
      <3> QED
        BY <1>1, <1>2, <1>5, <2>1, <2>3, <3>2 DEF DspGets, ForArm, WithArm, WithDsp
    <2> QED
      BY <2>2, <2>3
  <1>6. CASE DspAcknowledges
    <2>1. ForDsp(b)
      BY <1>1, <1>6 DEF DspAcknowledges, ForArm, WithArm, WithDsp
    <2>2. WithDsp(b)'
      BY <1>2, <1>6, <2>1 DEF DspAcknowledges, ForDsp, WithDsp
    <2> QED
      BY <2>2
  <1>7. CASE DspLoads
    <2>1. WithDsp(b)
      BY <1>1, <1>7 DEF DspLoads, ForDsp, ForArm, WithArm
    <2>2. WithDsp(b)'
      BY <1>2, <1>7, <2>1 DEF DspLoads, WithDsp, semVars
    <2> QED
      BY <2>2
  <1>8. CASE DspPasses
    <2>1. WithDsp(b)
      BY <1>1, <1>8 DEF DspPasses, ForDsp, ForArm, WithArm
    <2>2. PICK c \in TokenBits : Passed({b}) = {c}
      BY PassedOne
    <2>3. ForArm(c)'
      BY <1>2, <1>8, <2>1, <2>2 DEF DspPasses, ForArm, WithDsp
    <2> QED
      BY <2>3
  <1> QED
    BY <1>4, <1>5, <1>6, <1>7, <1>8 DEF DspEffect

-----------------------------------------------------------------------------
(* The token of the examples *)

\* A step that leaves the semaphores and both CPUs alone.
LEMMA TokenStands ==
    ASSUME TokenInv, UNCHANGED <<ex, semVars, a, d>>
    PROVE  TokenInv'
  <1>1. ex' = ex /\ toDsp' = toDsp /\ toArm' = toArm /\ a' = a /\ d' = d
    BY DEF semVars
  <1>2. /\ (HasToken' <=> HasToken) /\ (PlaceInv' <=> PlaceInv) /\ TokenBits' = TokenBits
        /\ (DspAcks' <=> DspAcks) /\ (DspHas' <=> DspHas) /\ (DspRewrites' <=> DspRewrites)
        /\ (ArmAcks' <=> ArmAcks) /\ (ArmHas' <=> ArmHas)
    BY <1>1, ArmStands, DspStands DEF HasToken, PlaceInv, TokenBits, TokenProgram, Program
  <1> QED
    BY <1>1, <1>2 DEF TokenInv, ForDsp, ForArm, WithArm, WithDsp

\* At the start the DSP has a bit to take, which the ARM9 set before.
LEMMA InitToken ==
    ASSUME Init PROVE TokenInv
  <1>1. SUFFICES ASSUME HasToken
                 PROVE  PlaceInv /\ \E b \in TokenBits : ForDsp(b)
    BY DEF TokenInv
  <1>2. CASE ex = "semaphores"
    <2>1. SemaphoresInit /\ TokenProgram = semaphores /\ TokenBits = AllBits
      BY <1>2 DEF Init, UsesDma, UsesSeq, TokenProgram, TokenBits
    <2>2. PlaceInv /\ a.at = 1 /\ d.at = 1
      BY <2>1, SemaphoresFrame, SemaphoresLoop DEF SemaphoresInit, PlaceInv
    <2>3. ~ArmAcks /\ ~ArmHas /\ ~DspAcks /\ ~DspHas
      BY <2>1, <2>2, SemaphoresPlaces DEF ArmAcks, ArmHas, DspAcks, DspHas
    <2>4. 0 \in TokenBits
      BY <2>1, FramesAssumption DEF AllBits
    <2> QED
      BY <2>1, <2>2, <2>3, <2>4 DEF SemaphoresInit, ForDsp
  <1>3. CASE ex \in {"dma_dsp_to_arm", "dma_async"}
    <2>1. DmaExamplesInit /\ TokenProgram = dma_dsp_to_arm /\ TokenBits = {0}
      BY <1>3 DEF Init, UsesDma, UsesSeq, TokenProgram, Program, TokenBits
    <2>2. PlaceInv /\ a.at = 1 /\ d.at = 1 /\ toArm = {} /\ toDsp = {0}
      BY <1>3, <2>1, DmaFrame, DmaLoop DEF DmaExamplesInit, PlaceInv
    <2>3. ~ArmAcks /\ ~ArmHas /\ ~DspAcks /\ ~DspHas
      BY <2>1, <2>2, DmaPlaces DEF ArmAcks, ArmHas, DspAcks, DspHas
    <2> QED
      BY <2>1, <2>2, <2>3 DEF ForDsp
  <1> QED
    BY <1>1, <1>2, <1>3 DEF HasToken

\* No step of an example loses or doubles the token.
LEMMA TokenStep ==
    ASSUME TokenInv, [Next]_vars PROVE TokenInv'
  <1>1. CASE UNCHANGED vars
    BY <1>1, TokenStands DEF vars
  <1>2. CASE Dma \/ Others
    <2>1. \/ UNCHANGED <<ex, semVars, a, d>>
          \/ UsesSeq /\ ex' = ex
      BY <1>2 DEF Dma, DmaHardware, Others, WriteBack
    <2>2. ASSUME UsesSeq, ex' = ex PROVE TokenInv'
      BY <2>2 DEF TokenInv, HasToken, UsesSeq
    <2> QED
      BY <2>1, <2>2, TokenStands
  <1>3. CASE Arm9 \/ Dsp
    <2>1. ex' = ex
      BY <1>3 DEF Arm9, Dsp
    <2>2. SUFFICES ASSUME HasToken PROVE TokenInv'
      BY <2>1 DEF TokenInv, HasToken
    <2>3. PlaceInv
      BY <2>2 DEF TokenInv
    <2>4. CASE ex = "semaphores"
      <3>1. SemaphoresArm9 \/ SemaphoresDsp
        BY <1>3, <2>4 DEF Arm9, Dsp, NoDma, UsesDma, UsesSeq
      <3> QED
        BY <2>1, <2>2, <2>3, <2>4, <3>1, SemaphoresArmEffect, SemaphoresDspEffect,
           ArmKeepsToken, DspKeepsToken
    <2>5. CASE ChangesSum
      <3>1. DmaArm9 \/ DmaDsp
        BY <1>3, <2>5 DEF Arm9, Dsp, NoDma, UsesDma, UsesSeq, ChangesSum
      <3> QED
        BY <2>1, <2>2, <2>3, <2>5, <3>1, DmaArmEffect, DmaDspEffect,
           ArmKeepsToken, DspKeepsToken
    <2> QED
      BY <2>2, <2>4, <2>5 DEF HasToken, ChangesSum
  <1> QED
    BY <1>1, <1>2, <1>3 DEF Next

\* In every state of an example with a token, the bit is in one register or in
\* the hands of one CPU, and apbpSetSemaphore() reads REG_APBP_PSEM empty.
THEOREM TokenInvHolds == FairSpec => []TokenInv
  BY InitToken, TokenStep, PTL DEF FairSpec

\* The bits in the registers and those that a CPU has acknowledged and not
\* passed on yet are one.
LEMMA TokenIsOne ==
    ASSUME TokenInv PROVE TokenKept
  <1>1. SUFFICES ASSUME HasToken
                 PROVE  Cardinality(toDsp) + Cardinality(toArm) + Cardinality(ArmHolds)
                          + Cardinality(DspHolds) = 1
    BY DEF TokenKept
  <1>2. /\ ArmHolds = (IF ArmHas THEN a.bits ELSE {})
        /\ DspHolds = (IF DspHas THEN d.bits ELSE {})
    BY DEF ArmHolds, DspHolds, Held, ArmHas, DspHas
  <1>3. PICK b \in TokenBits : ForDsp(b) \/ ForArm(b) \/ WithArm(b) \/ WithDsp(b)
    BY <1>1 DEF TokenInv
  <1>4. Cardinality({}) = 0 /\ Cardinality({b}) = 1
    BY FS_EmptySet, FS_Singleton
  <1> QED
    BY <1>2, <1>3, <1>4 DEF ForDsp, ForArm, WithArm, WithDsp

\* semaphores, dma_dsp_to_arm and dma_async: the one bit that the two CPUs pass
\* to and fro is neither lost nor doubled.
THEOREM TokenKeptHolds == FairSpec => []TokenKept
  BY TokenInvHolds, TokenIsOne, PTL

-----------------------------------------------------------------------------
(* The buffer *)

\* dma_dsp_to_arm and dma_async: only the channel of the command is started, and
\* the DSP waits for its end, which REG_DMA_DIM2_END doesn't show yet.
IdleInv ==
    ChangesSum =>
      /\ "data" \in DOMAIN d
      /\ started \subseteq {DmaChannel}
      /\ started # {} =>
            DspAt(Program, "wait") /\ DmaChannel \notin ended /\ DmaChannel # 0
      /\ ahbmIsBusy => queue \in started

\* No channel has been started at first.
LEMMA InitIdle ==
    ASSUME Init PROVE IdleInv
  <1>1. SUFFICES ASSUME ChangesSum PROVE IdleInv
    BY DEF IdleInv
  <1>2. DmaExamplesInit
    BY <1>1 DEF Init, UsesDma, UsesSeq, ChangesSum
  <1>3. "data" \in DOMAIN d
    BY <1>2 DEF DmaExamplesInit
  <1>4. started = {} /\ ~ahbmIsBusy
    BY <1>2 DEF DmaExamplesInit, DmaInit, ahbmIsBusy
  <1> QED
    BY <1>3, <1>4 DEF IdleInv

\* While the ARM9 runs, what the DSP waits for stays.
LEMMA ArmKeepsIdle ==
    ASSUME ChangesSum, ex' = ex, IdleInv, DmaArm9 PROVE IdleInv'
  <1>1. d' = d /\ started' = started /\ ended' = ended /\ queue' = queue
    BY DEF DmaArm9, Keys, SendIfReady, ReadIfReady, ArmGet, ArmAck, ArmSet, dmaVars, FlushLow,
       SumBuffer, ClearBuffer, ArmStep
  <1> QED
    BY <1>1 DEF IdleInv, ChangesSum, DmaChannel, DspAt, Program, ahbmIsBusy

\* The hardware moves words of the started channel; the last one ends it.
LEMMA HardwareKeepsIdle ==
    ASSUME ChangesSum, ex' = ex, IdleInv, DmaHardware PROVE IdleInv'
  <1>1. d' = d /\ Program' = Program /\ ChangesSum' /\ DmaChannel' = DmaChannel
        /\ (DspAt(Program, "wait"))' = DspAt(Program, "wait")
    BY DEF DmaHardware, ChangesSum, Program, DmaChannel, DspAt
  <1>2. /\ "data" \in DOMAIN d /\ started \subseteq {DmaChannel}
        /\ started # {} =>
              DspAt(Program, "wait") /\ DmaChannel \notin ended /\ DmaChannel # 0
        /\ ahbmIsBusy => queue \in started
    BY DEF IdleInv
  <1>3. CASE Store
    <2>1. queue \in started /\ queue = DmaChannel /\ started = {DmaChannel}
      BY <1>2, <1>3 DEF Store
    <2>2. queue' = NoWord /\ ~ahbmIsBusy'
      BY <1>3 DEF Store, ahbmIsBusy
    <2>3. \/ started' = {}
          \/ started' = started /\ ended' = ended
      BY <1>3, <2>1 DEF Store
    <2> QED
      BY <1>1, <1>2, <2>2, <2>3 DEF IdleInv
  <1>4. ASSUME NEW c \in DmaChannels, Fetch(c) PROVE IdleInv'
    <2>1. c \in started /\ queue' = c /\ started' = started /\ ended' = ended
      BY <1>4 DEF Fetch
    <2> QED
      BY <1>1, <1>2, <2>1 DEF IdleInv
  <1> QED
    BY <1>3, <1>4 DEF DmaHardware

\* A word that leaves the cache of the ARM9 is no concern of the DMA.
LEMMA WriteBackKeepsIdle ==
    ASSUME ChangesSum, ex' = ex, IdleInv, WriteBack PROVE IdleInv'
  BY DEF WriteBack, dmaVars, IdleInv, ChangesSum, DmaChannel, DspAt, Program, ahbmIsBusy

\* The DSP starts a transfer when none is under way, and goes on after its end.
LEMMA DspKeepsIdle ==
    ASSUME ChangesSum, ex' = ex, PlaceInv, IdleInv, DmaDsp PROVE IdleInv'
  <1>1. /\ Program = dma_dsp_to_arm /\ Program' = dma_dsp_to_arm /\ ChangesSum'
        /\ ex # "dma_arm_to_dsp" /\ d.at \in 1 .. 13 /\ {"at", "bits", "psem"} \subseteq DOMAIN d
    BY DmaLoop DEF ChangesSum, Program, TokenProgram, PlaceInv
  <1>2. /\ "data" \in DOMAIN d /\ started \subseteq {DmaChannel}
        /\ started # {} =>
              DspAt(Program, "wait") /\ DmaChannel \notin ended /\ DmaChannel # 0
        /\ ahbmIsBusy => queue \in started
    BY DEF IdleInv
  <1>3. ASSUME started = {}, started' = started, queue' = queue, "data" \in DOMAIN d'
        PROVE  IdleInv'
    BY <1>2, <1>3 DEF IdleInv, ahbmIsBusy
  <1>4. started = {} \/ d.at = 8
    BY <1>1, <1>2, DmaAt DEF DspAt
  <1>5. ASSUME NEW id \in Channels,
               ReceiveWord(Program, id) \/ ReplyWord(Program, id, DmaReply[id]),
               UNCHANGED dmaVars
        PROVE  IdleInv'
    <2>1. d.at \in {1, 2, 3, 11, 12, 13}
      BY <1>1, <1>5, Names, DmaAt DEF ReceiveWord, ReplyWord, DspAt
    <2>2. "data" \in DOMAIN d'
      BY <1>2, <1>5 DEF ReceiveWord, ReplyWord
    <2> QED
      BY <1>3, <1>4, <1>5, <2>1, <2>2 DEF dmaVars
  <1>6. ASSUME \/ GetSemaphore(Program, {0}, "reply0") \/ AckSemaphore(Program)
               \/ SetSemaphoreRead(Program) \/ SetSemaphoreWrite(Program, {0}),
               UNCHANGED dmaVars
        PROVE  IdleInv'
    <2>1. d.at \in {4, 5, 9, 10}
      BY <1>1, <1>6, DmaAt
         DEF GetSemaphore, AckSemaphore, SetSemaphoreRead, SetSemaphoreWrite, DspAt
    <2>2. "data" \in DOMAIN d'
      BY <1>2, <1>6 DEF GetSemaphore, AckSemaphore, SetSemaphoreRead, SetSemaphoreWrite
    <2> QED
      BY <1>3, <1>4, <1>6, <2>1, <2>2 DEF dmaVars
  <1>7. CASE WaitBusy
    <2>1. d.at = 6 /\ "data" \in DOMAIN d'
      BY <1>1, <1>2, <1>7, DmaAt DEF WaitBusy, DspAt
    <2> QED
      BY <1>3, <1>4, <1>7, <2>1 DEF WaitBusy, dmaVars
  <1>8. CASE StartTransfer
    <2> DEFINE ok == Check(DmaChannel, Address, Size) = 0
    <2>1. d.at = 7 /\ started = {} /\ ~ahbmIsBusy
      BY <1>1, <1>2, <1>4, <1>8, DmaAt DEF StartTransfer, DspAt
    <2>2. "data" \in DOMAIN d' /\ d'.data = d.data
      BY <1>1, <1>2, <1>8 DEF StartTransfer
    <2>3. CASE ~ok
      BY <1>3, <1>8, <2>1, <2>2, <2>3 DEF StartTransfer, dmaVars
    <2>4. CASE ok
      <3>1. DmaChannel # 0
        BY <2>4 DEF Check
      <3>2. started' = {DmaChannel} /\ ended' = ended \ {DmaChannel} /\ queue' = queue
        BY <1>8, <2>1, <2>4 DEF StartTransfer, StartUnsafe
      <3>3. d'.at = Place(Program.loop, "wait")
        BY <1>1, <1>8, <2>4 DEF StartTransfer
      <3>4. d'.at = 8 /\ dma_dsp_to_arm.loop[8] = "wait"
        BY <1>1, <3>3, DmaPlaces, DmaLoop
      <3>5. DspAt(Program, "wait")' /\ DmaChannel' = DmaChannel
        BY <1>1, <2>2, <3>4 DEF DspAt, DmaChannel
      <3> QED
        BY <1>1, <2>1, <2>2, <3>1, <3>2, <3>5 DEF IdleInv, ahbmIsBusy
    <2> QED
      BY <2>3, <2>4
  <1>9. CASE WaitTransfer
    <2>1. started = {}
      BY <1>2, <1>9 DEF WaitTransfer, IsOver, dmaTransferIsRunning
    <2>2. "data" \in DOMAIN d' /\ started' = started /\ queue' = queue
      BY <1>2, <1>9 DEF WaitTransfer, ahbmResetChannel, dmaVars
    <2> QED
      BY <1>3, <2>1, <2>2
  <1>10. ~SumWords
    BY <1>1, DmaAt DEF SumWords, DspAt
  <1> QED
    BY <1>5, <1>6, <1>7, <1>8, <1>9, <1>10 DEF DmaDsp

\* No step of an example leaves a transfer under way that isn't waited for.
LEMMA IdleStep ==
    ASSUME TokenInv, IdleInv, [Next]_vars PROVE IdleInv'
  <1>1. CASE UNCHANGED vars
    <2>1. ex' = ex /\ d' = d /\ started' = started /\ ended' = ended /\ queue' = queue
      BY <1>1 DEF vars, dmaVars
    <2> QED
      BY <2>1 DEF IdleInv, ChangesSum, DmaChannel, DspAt, Program, ahbmIsBusy
  <1>2. CASE Next
    <2>1. ex' = ex
      BY <1>2 DEF Next, Arm9, Dsp, Dma, Others
    <2>2. SUFFICES ASSUME ChangesSum PROVE IdleInv'
      BY <2>1 DEF IdleInv, ChangesSum
    <2>3. PlaceInv
      BY <2>2 DEF TokenInv, ChangesSum, HasToken
    <2>4. DmaArm9 \/ DmaDsp \/ DmaHardware \/ WriteBack
      BY <1>2, <2>2 DEF Next, Arm9, Dsp, Dma, Others, UsesDma, UsesSeq, ChangesSum
    <2> QED
      BY <2>1, <2>2, <2>3, <2>4, ArmKeepsIdle, DspKeepsIdle, HardwareKeepsIdle,
         WriteBackKeepsIdle
  <1> QED
    BY <1>1, <1>2

\* Whoever has the token has the buffer.
LEMMA TokenGuardsBuffer ==
    ASSUME TokenInv, IdleInv PROVE SumUndisturbed
  <1>1. SUFFICES ASSUME ChangesSum, ArmAt(Program, "sum")
                 PROVE  started = {} /\ ~ahbmIsBusy
    BY DEF SumUndisturbed
  <1>2. /\ Program = dma_dsp_to_arm /\ TokenProgram = dma_dsp_to_arm /\ HasToken
    BY <1>1 DEF ChangesSum, Program, TokenProgram, HasToken
  <1>3. a.at \in 1 .. 14 /\ d.at \in 1 .. 13
    BY <1>2, DmaFrame, DmaLoop DEF TokenInv, PlaceInv
  <1>4. a.at = 11
    BY <1>1, <1>2, <1>3, DmaAt DEF ArmAt
  <1>5. ArmHas
    BY <1>2, <1>4, DmaPlaces DEF ArmHas
  <1>6. ~DspHas
    BY <1>2, <1>5 DEF TokenInv, ForDsp, ForArm, WithArm, WithDsp
  <1>7. d.at # 8
    BY <1>2, <1>6, DmaPlaces DEF DspHas
  <1>8. started = {}
    BY <1>1, <1>2, <1>3, <1>7, DmaAt DEF IdleInv, DspAt
  <1> QED
    BY <1>1, <1>8 DEF IdleInv

\* dma_dsp_to_arm and dma_async: the channel that was started is the one that the
\* DSP waits for, and nothing else moves words.
THEOREM IdleInvHolds == FairSpec => [](TokenInv /\ IdleInv)
  BY InitToken, InitIdle, TokenStep, IdleStep, PTL DEF FairSpec

\* While the ARM9 adds the words of its buffer no transfer is under way, whatever
\* the sizes, channels and addresses of the transfers.
THEOREM SumUndisturbedHolds == FairSpec => []SumUndisturbed
  BY IdleInvHolds, TokenGuardsBuffer, PTL

-----------------------------------------------------------------------------
(* codegen_check and benchmark *)

\* Values of the variables: the words of both halves, as far as they are told
\* apart.
Args == {"none", "buffers", "repeat", "zero"}
Ops == {"NONE", "INIT", "LOAD", "RUN", "STATS"}
SeqStatuses == {"NONE", "OK", "BAD_CMD", "DMA_ERROR", "DMA_MISMATCH"}
SeqCmds == [op : Ops, test : 0 .. Tests, seq : 0 .. SeqCount]
SeqReps == [seq : 0 .. SeqCount, part : {0, 1}, status : SeqStatuses]
SeqValues == [of : Ops \cup {"CYCLES"}, test : 0 .. Tests, arg : Args \X Args, count : Nat]
Results == [status : SeqStatuses, value : SeqValues \X SeqValues]

MailType ==
    /\ cmd[0] \in SeqCmds /\ cmd[1] \in Args /\ cmd[2] \in Args
    /\ rep[0] \in SeqReps /\ rep[1] \in SeqValues /\ rep[2] \in SeqValues
    /\ DOMAIN cmd = Channels /\ DOMAIN rep = Channels
    /\ cmdNew \in [Channels -> BOOLEAN] /\ repUnread \in [Channels -> BOOLEAN]
ArmType ==
    a \in [pc : {"prepare", "send1", "send2", "send0", "rep0", "rep1", "rep2", "show"},
           at : 1 .. Tests + 2, seq : 0 .. SeqCount, part : {0, 1}, rep0 : SeqReps,
           high : SeqValues, stale : Nat, runs : Nat, count : Nat,
           results : [1 .. Tests -> Results]]
DspType ==
    d \in [pc : {"receive", "arg1", "arg2", "execute", "rep0", "rep1", "rep2"},
           cmd : SeqCmds, arg : Args \X Args, lastSeq : 0 .. SeqCount + 1,
           repeated : Nat, status : SeqStatuses, part : {0, 1}]

\* How far the CPUs are.
Sending == a.pc \in {"send1", "send2", "send0"}
Awaiting == a.pc \in {"rep0", "rep1", "rep2"}
Between == a.pc \in {"prepare", "show"}
Reading == d.pc \in {"arg1", "arg2", "execute"}
Replying == d.pc \in {"rep0", "rep1", "rep2"}

\* The command in progress, as it is sent, and what the DSP replies to it.
Command == Script[a.at]
SentWord == [op |-> Command.op, test |-> Command.test, seq |-> a.seq]
Arg == Argument(Command.op)
Twice == HasSecond(Command.op)
ReplyArg == IF Command.op = "RUN" THEN <<Arg, Arg>> ELSE <<"none", "none">>

\* "v" is the value of part "part" of the reply to command "c", with "arg" for its
\* argument and, for STATS, a count that the DSP has had by now.
ValueOf(c, part, v, arg, most) ==
    /\ v.of = (IF part = 0 THEN c.op ELSE "CYCLES") /\ v.test = c.test /\ v.arg = arg
    /\ IF c.op = "INIT" THEN v.count = Tests
       ELSE IF c.op = "STATS" THEN v.count <= most ELSE v.count = 0
RightValue(v, part) == ValueOf(Command, part, v, ReplyArg, d.repeated)
RightStatus(s) == Command.op # "LOAD" => s = "OK"

\* The DSP executes what it saw in CMD0 before the first command; it has executed
\* the command in progress.
Spurious == d.pc # "receive" /\ d.cmd.seq = 0
Executed == Awaiting /\ ~cmdNew[0] /\ ~Reading /\ ~Spurious

\* CMD0 holds the last command or, while the next one is being sent, the one
\* before it; CMD1 and CMD2 hold what has been written of the argument.
CommandInv ==
    /\ Sending => a.seq = (cmd[0].seq % SeqCount) + 1 /\ a.part = 0
    /\ ~Sending => a.seq = cmd[0].seq
    /\ Awaiting => cmd[0] = SentWord
    /\ ex = "benchmark" =>
         /\ a.pc \in {"send2", "send0"} \/ Awaiting => cmd[1] = Arg
         /\ a.pc = "send0" \/ Awaiting => cmd[2] = Arg
    /\ cmd[0].seq = 0 => cmd[0].op = "NONE" /\ a.at = 1 /\ (a.pc = "prepare" \/ Sending)
    /\ a.pc = "show" => a.at = Tests + 2
    /\ a.part = 1 /\ Awaiting => Twice /\ Executed

\* What the DSP has seen of the last command.
ServeInv ==
    /\ cmdNew[0] => Awaiting /\ d.lastSeq # a.seq /\ (d.pc = "receive" \/ Spurious)
    /\ ~cmdNew[0] /\ d.pc = "receive" =>
         /\ Awaiting => d.lastSeq = a.seq
         /\ d.lastSeq # cmd[0].seq => d.lastSeq = NoSeq /\ cmd[0].seq = 0
    /\ Spurious =>
         /\ d.lastSeq = 0 /\ d.cmd.op = "NONE"
         /\ IF Awaiting THEN cmdNew[0] ELSE cmd[0].seq = 0
    /\ d.pc # "receive" /\ ~Spurious =>
         /\ Awaiting /\ ~cmdNew[0] /\ d.lastSeq = a.seq /\ d.cmd = SentWord
         /\ ex = "benchmark" =>
              /\ d.pc \notin {"arg1", "arg2"} =>
                    d.arg = <<Arg, Arg>>
              /\ d.pc = "arg2" => d.arg[1] = Arg
         /\ Replying => RightStatus(d.status)
         /\ d.part = 1 /\ Replying => Twice
    /\ ex # "benchmark" => d.arg = <<"none", "none">> /\ d.pc \notin {"arg1", "arg2"}

\* How many registers of a reply the ARM9 has read and the DSP has written.
Read == IF a.pc = "rep1" THEN 1 ELSE IF a.pc = "rep2" THEN 2 ELSE 0
Written == IF d.pc = "rep1" THEN 1 ELSE IF d.pc = "rep2" THEN 2 ELSE 0

\* The ARM9 reads the reply that the DSP is writing ...
SameReply ==
    /\ Read <= Written
    /\ \A i \in Channels : repUnread[i] <=> Read <= i /\ i < Written

\* ... or the one before it, which the DSP has written completely.
ReplyBefore ==
    /\ Written <= Read
    /\ \A i \in Channels : repUnread[i] <=> i < Written \/ Read <= i

\* REP0 of the reply that the DSP is writing, and of the one the ARM9 reads.
WrittenRep0 == [seq |-> d.cmd.seq, part |-> d.part, status |-> d.status]
ReadRep0 == IF Read = 0 THEN rep[0] ELSE a.rep0

\* The reply the ARM9 is reading, when it is complete: that of the spurious
\* command, or the one it waits for.
SpuriousReply ==
    /\ ReadRep0.seq = 0
    /\ Between => cmd[0].seq = 0
    /\ Executed => Replying /\ d.part = a.part
RightReply ==
    /\ Executed /\ ReadRep0.seq = a.seq
    /\ ReadRep0.part = a.part /\ RightStatus(ReadRep0.status)
    /\ RightValue(rep[2], a.part)
    /\ Written <= 1 => RightValue(rep[1], a.part)
    /\ Read = 2 => RightValue(a.high, a.part)
    /\ Replying => d.part = 1 /\ a.part = 0
    /\ d.pc = "receive" => (Twice => a.part = 1)

ReplyInv ==
    /\ SameReply \/ ReplyBefore
    /\ Written >= 1 => rep[0] = WrittenRep0
    /\ Written = 2 => rep[1] = SeqValue
    /\ SameReply =>
         /\ Read >= 1 => a.rep0 = WrittenRep0
         /\ Read = 2 => a.high = SeqValue
         /\ Replying /\ ~Spurious => d.part = a.part
         /\ Awaiting /\ Written = 0 => ~Awaited(rep[0])
         /\ Executed => Replying
    /\ ReplyBefore =>
         /\ ~Spurious /\ d.lastSeq # NoSeq
         /\ Written = 0 => rep[0] = ReadRep0
         /\ SpuriousReply \/ RightReply
    /\ Between => rep[0].seq = a.seq
    /\ Sending => rep[0].seq # a.seq

\* The results of the tests that have run.
RightResult(t) ==
    LET right == [of |-> "RUN", test |-> t, count |-> 0,
                  arg |-> <<Argument("RUN"), Argument("RUN")>>]
    IN  a.results[t] = [status |-> "OK", value |-> <<right, right>>]
ResultInv ==
    /\ \A t \in 1 .. Tests :
         a.runs > 0 \/ a.at > t + 1 \/ (a.at = t + 1 /\ a.part = 1 /\ Awaiting) =>
            RightResult(t)
    /\ a.count <= d.repeated

SeqInv ==
    UsesSeq => /\ MailType /\ ArmType /\ DspType
               /\ CommandInv /\ ServeInv /\ ReplyInv /\ ResultInv

\* What the script sends at each place.
LEMMA ScriptFacts ==
    /\ Len(Script) = Tests + 2
    /\ \A i \in 1 .. Tests + 2 :
         Script[i] = IF i = 1 THEN [op |-> First, test |-> 0]
                     ELSE IF i = Tests + 2 THEN [op |-> "STATS", test |-> 0]
                     ELSE [op |-> "RUN", test |-> i - 1]
  <1> DEFINE Commands == [op : {First, "RUN", "STATS"}, test : Nat]
             s1 == <<[op |-> First, test |-> 0]>>
             s2 == [t \in 1 .. Tests |-> [op |-> "RUN", test |-> t]]
             s3 == <<[op |-> "STATS", test |-> 0]>>
  <1>1. Tests \in Nat
    BY SeqExamplesAssumption
  <1>2. s1 \in Seq(Commands) /\ Len(s1) = 1 /\ s1[1] = [op |-> First, test |-> 0]
    OBVIOUS
  <1>3. s2 \in Seq(Commands) /\ Len(s2) = Tests
        /\ \A i \in 1 .. Tests : s2[i] = [op |-> "RUN", test |-> i]
    <2>1. s2 \in [1 .. Tests -> Commands]
      BY <1>1
    <2> QED
      BY <1>1, <2>1
  <1>4. s3 \in Seq(Commands) /\ Len(s3) = 1 /\ s3[1] = [op |-> "STATS", test |-> 0]
    OBVIOUS
  <1>5. Script = s1 \o s2 \o s3
    BY DEF Script
  <1> HIDE DEF Commands, s1, s2, s3
  <1>6. /\ s1 \o s2 \in Seq(Commands) /\ Len(s1 \o s2) = Tests + 1
        /\ \A i \in 1 .. Tests + 1 : (s1 \o s2)[i] = IF i <= 1 THEN s1[i] ELSE s2[i - 1]
    <2>1. /\ s1 \o s2 \in Seq(Commands) /\ Len(s1 \o s2) = Len(s1) + Len(s2)
          /\ \A i \in 1 .. Len(s1) + Len(s2) :
               (s1 \o s2)[i] = IF i <= Len(s1) THEN s1[i] ELSE s2[i - Len(s1)]
      BY <1>2, <1>3, ConcatProperties
    <2>2. Len(s1) + Len(s2) = Tests + 1
      BY <1>1, <1>2, <1>3
    <2> QED
      BY <1>2, <2>1, <2>2
  <1>7. /\ Len(s1 \o s2 \o s3) = Tests + 2
        /\ \A i \in 1 .. Tests + 2 : (s1 \o s2 \o s3)[i] =
              IF i <= Tests + 1 THEN (s1 \o s2)[i] ELSE s3[i - (Tests + 1)]
    <2> DEFINE s12 == s1 \o s2
    <2> HIDE DEF s12
    <2>1. s12 \in Seq(Commands) /\ Len(s12) = Tests + 1
      BY <1>6 DEF s12
    <2>2. /\ Len(s12 \o s3) = Len(s12) + Len(s3)
          /\ \A i \in 1 .. Len(s12) + Len(s3) :
               (s12 \o s3)[i] = IF i <= Len(s12) THEN s12[i] ELSE s3[i - Len(s12)]
      BY <1>4, <2>1, ConcatProperties
    <2>3. Len(s12) + Len(s3) = Tests + 2
      BY <1>1, <1>4, <2>1
    <2>4. /\ Len(s12 \o s3) = Tests + 2
          /\ \A i \in 1 .. Tests + 2 :
               (s12 \o s3)[i] = IF i <= Tests + 1 THEN s12[i] ELSE s3[i - (Tests + 1)]
      BY <2>1, <2>2, <2>3
    <2> QED
      BY <2>4 DEF s12
  <1>8. ASSUME NEW i \in 1 .. Tests + 2
        PROVE  Script[i] = IF i = 1 THEN [op |-> First, test |-> 0]
                           ELSE IF i = Tests + 2 THEN [op |-> "STATS", test |-> 0]
                           ELSE [op |-> "RUN", test |-> i - 1]
    <2>1. CASE i = 1
      BY <1>1, <1>2, <1>5, <1>6, <1>7, <2>1
    <2>2. CASE i = Tests + 2
      <3>1. i - (Tests + 1) = 1 /\ ~(i <= Tests + 1) /\ i # 1
        BY <1>1, <2>2
      <3> QED
        BY <1>1, <1>4, <1>5, <1>7, <2>2, <3>1
    <2>3. CASE i # 1 /\ i # Tests + 2
      <3>1. i - 1 \in 1 .. Tests /\ i \in 1 .. Tests + 1 /\ ~(i <= 1)
        BY <1>1, <2>3
      <3> QED
        BY <1>3, <1>5, <1>6, <1>7, <2>3, <3>1
    <2> QED
      BY <2>1, <2>2, <2>3
  <1> QED
    BY <1>5, <1>7, <1>8

\* The command that is sent at a place of the script.
LEMMA CommandFacts ==
    ASSUME a.at \in 1 .. Tests + 2
    PROVE  /\ Command = [op |-> Command.op, test |-> Command.test]
           /\ Command.op \in {"INIT", "LOAD", "RUN", "STATS"} /\ Command.test \in 0 .. Tests
           /\ Command.op \in {First, "RUN", "STATS"}
           /\ Command.op \in {"INIT", "LOAD"} => a.at = 1 /\ Command.op = First
           /\ Command.op = "RUN" =>
                a.at # Tests + 2 /\ Command.test = a.at - 1 /\ Command.test \in 1 .. Tests
           /\ 1 < a.at /\ a.at < Tests + 2 => Command.op = "RUN"
           /\ a.at = Tests + 2 => Command.op = "STATS"
  <1>1. Tests \in Nat \ {0}
    BY SeqExamplesAssumption
  <1>2. First \in {"INIT", "LOAD"}
    BY DEF First
  <1>3. CASE a.at = 1
    <2>1. Command = [op |-> First, test |-> 0]
      BY <1>1, <1>3, ScriptFacts DEF Command
    <2> QED
      BY <1>1, <1>2, <1>3, <2>1
  <1>4. CASE a.at = Tests + 2
    <2>1. Command = [op |-> "STATS", test |-> 0]
      BY <1>1, <1>4, ScriptFacts DEF Command
    <2> QED
      BY <1>1, <1>4, <2>1
  <1>5. CASE a.at # 1 /\ a.at # Tests + 2
    <2>1. Command = [op |-> "RUN", test |-> a.at - 1]
      BY <1>1, <1>5, ScriptFacts DEF Command
    <2>2. a.at - 1 \in 1 .. Tests
      BY <1>1, <1>5
    <2> QED
      BY <1>1, <1>5, <2>1, <2>2
  <1> QED
    BY <1>3, <1>4, <1>5

\* Arguments are words that are sent.
LEMMA ArgumentType == \A op : Argument(op) \in Args
  BY DEF Argument, Args

\* What the examples are doesn't change.
LEMMA SameScript ==
    ASSUME ex' = ex
    PROVE  Script' = Script /\ (UsesSeq' <=> UsesSeq)
  BY DEF Script, First, UsesSeq

\* Nor does the command in progress, as long as the ARM9 stays where it is.
LEMMA SameCommand ==
    ASSUME ex' = ex, a'.at = a.at
    PROVE  Command' = Command /\ Arg' = Arg /\ (Twice' <=> Twice) /\ ReplyArg' = ReplyArg
  <1>1. Command' = Command
    BY SameScript DEF Command
  <1>2. Arg' = Arg /\ (Twice' <=> Twice)
    BY <1>1 DEF Arg, Argument, Twice, HasSecond
  <1> QED
    BY <1>1, <1>2 DEF ReplyArg

\* A value stays right when the DSP counts more commands.
LEMMA ValueStays ==
    ASSUME NEW c, NEW part, NEW v \in SeqValues, NEW arg, NEW n \in Nat, NEW m \in Nat, n <= m,
           ValueOf(c, part, v, arg, n)
    PROVE  ValueOf(c, part, v, arg, m)
  BY DEF ValueOf, SeqValues

\* The next sequence number is a valid one and differs from the last.
LEMMA NextSeqDiffers ==
    ASSUME NEW n \in 0 .. SeqCount
    PROVE  (n % SeqCount) + 1 \in 1 .. SeqCount /\ (n % SeqCount) + 1 # n
  <1>1. SeqCount \in Nat /\ SeqCount >= 2
    BY SeqExamplesAssumption
  <1>2. CASE n < SeqCount
    <2>1. n % SeqCount = n
      BY <1>1, <1>2
    <2> QED
      BY <1>1, <1>2, <2>1
  <1>3. CASE n = SeqCount
    <2>1. n % SeqCount = 0
      BY <1>1, <1>3
    <2> QED
      BY <1>1, <1>3, <2>1
  <1> QED
    BY <1>1, <1>2, <1>3

\* What a step of the ARM9 does.
ArmKeeps ==
    /\ a'.at = a.at /\ a'.runs = a.runs /\ a'.count = a.count /\ a'.results = a.results
    /\ d' = d /\ rep' = rep
Prepares ==
    /\ ArmKeeps /\ a.pc = "prepare" /\ UNCHANGED apbpVars
    /\ a'.seq = (a.seq % SeqCount) + 1 /\ a'.part = 0
    /\ a'.pc = IF ex = "benchmark" THEN "send1" ELSE "send0"
SendsArgument ==
    /\ ArmKeeps /\ a'.seq = a.seq /\ a'.part = a.part
    /\ cmd'[0] = cmd[0] /\ cmdNew'[0] = cmdNew[0] /\ repUnread' = repUnread
    /\ \/ a.pc = "send1" /\ a'.pc = "send2" /\ cmd'[1] = Arg
       \/ a.pc = "send2" /\ a'.pc = "send0" /\ cmd'[2] = Arg /\ cmd'[1] = cmd[1]
SendsCommand ==
    /\ ArmKeeps /\ a.pc = "send0" /\ a'.pc = "rep0" /\ a'.seq = a.seq /\ a'.part = a.part
    /\ ~cmdNew[0] /\ cmdNew'[0] /\ cmd'[0] = SentWord /\ cmd'[1] = cmd[1] /\ cmd'[2] = cmd[2]
    /\ repUnread' = repUnread
Reads0 ==
    /\ ArmKeeps /\ a.pc = "rep0" /\ a'.pc = "rep1" /\ a'.seq = a.seq /\ a'.part = a.part
    /\ a'.rep0 = rep[0] /\ cmd' = cmd /\ cmdNew' = cmdNew
    /\ repUnread[0] /\ repUnread' = [repUnread EXCEPT ![0] = FALSE]
Reads1 ==
    /\ ArmKeeps /\ a.pc = "rep1" /\ a'.pc = "rep2" /\ a'.seq = a.seq /\ a'.part = a.part
    /\ a'.rep0 = a.rep0 /\ a'.high = rep[1] /\ cmd' = cmd /\ cmdNew' = cmdNew
    /\ repUnread[1] /\ repUnread' = [repUnread EXCEPT ![1] = FALSE]
Restarts ==
    /\ a.pc = "show" /\ a'.pc = "prepare" /\ a'.at = 2 /\ a'.runs = a.runs + 1
    /\ a'.seq = a.seq /\ a'.part = a.part /\ a'.count = a.count /\ a'.results = a.results
    /\ d' = d /\ UNCHANGED apbpVars

\* PrepareCommand takes the next sequence number.
LEMMA PrepareEffect ==
    ASSUME MailType, ArmType, DspType, PrepareCommand
    PROVE  Prepares /\ MailType' /\ ArmType' /\ DspType'
  <1>1. (a.seq % SeqCount) + 1 \in 0 .. SeqCount
    BY NextSeqDiffers DEF ArmType
  <1>2. ArmType'
    BY <1>1 DEF PrepareCommand, ArmType
  <1>3. Prepares
    BY DEF PrepareCommand, ArmType, Prepares, ArmKeeps, apbpVars
  <1>4. d' = d /\ cmd' = cmd /\ cmdNew' = cmdNew /\ rep' = rep /\ repUnread' = repUnread
    BY DEF PrepareCommand, apbpVars
  <1> QED
    BY <1>2, <1>3, <1>4 DEF MailType, DspType

\* SendWords writes a half of the argument, or the command after it.
LEMMA SendEffect ==
    ASSUME MailType, ArmType, DspType, SendWords
    PROVE  (SendsArgument \/ SendsCommand) /\ MailType' /\ ArmType' /\ DspType'
  <1>1. /\ Command.op \in Ops /\ Command.test \in 0 .. Tests /\ Arg \in Args
        /\ SentWord \in SeqCmds /\ Command = Script[a.at]
    BY CommandFacts, ArgumentType DEF ArmType, Ops, SeqCmds, SentWord, Command, Arg
  <1>2. d' = d
    BY DEF SendWords
  <1>3. CASE ArmPc("send1", "send2") /\ dspSendData(1, Arg)
    <2>1. ArmType' /\ MailType'
      BY <1>1, <1>3 DEF ArmPc, dspSendData, ArmType, MailType, Channels
    <2>2. SendsArgument
      BY <1>2, <1>3 DEF ArmPc, dspSendData, ArmType, MailType, Channels, SendsArgument, ArmKeeps
    <2> QED
      BY <1>2, <2>1, <2>2 DEF DspType
  <1>4. CASE ArmPc("send2", "send0") /\ dspSendData(2, Arg)
    <2>1. ArmType' /\ MailType'
      BY <1>1, <1>4 DEF ArmPc, dspSendData, ArmType, MailType, Channels
    <2>2. SendsArgument
      BY <1>2, <1>4 DEF ArmPc, dspSendData, ArmType, MailType, Channels, SendsArgument, ArmKeeps
    <2> QED
      BY <1>2, <2>1, <2>2 DEF DspType
  <1>5. CASE ArmPc("send0", "rep0") /\ dspSendData(0, SentWord)
    <2>1. ArmType' /\ MailType'
      BY <1>1, <1>5 DEF ArmPc, dspSendData, ArmType, MailType, Channels
    <2>2. SendsCommand
      BY <1>2, <1>5 DEF ArmPc, dspSendData, ArmType, MailType, Channels, SendsCommand, ArmKeeps
    <2> QED
      BY <1>2, <2>1, <2>2 DEF DspType
  <1> QED
    BY <1>1, <1>3, <1>4, <1>5 DEF SendWords, SentWord, Arg

\* ReadWords but the last register of a reply.
LEMMA ReadEffect ==
    ASSUME MailType, ArmType, DspType, d' = d,
           \/ a.pc = "rep0" /\ dspReceiveData(0) /\ a' = [a EXCEPT !.pc = "rep1", !.rep0 = rep[0]]
           \/ a.pc = "rep1" /\ dspReceiveData(1) /\ a' = [a EXCEPT !.pc = "rep2", !.high = rep[1]]
    PROVE  (Reads0 \/ Reads1) /\ MailType' /\ ArmType' /\ DspType'
  <1>1. MailType' /\ DspType'
    BY DEF dspReceiveData, MailType, DspType, Channels
  <1>2. CASE a.pc = "rep0"
    BY <1>1, <1>2 DEF dspReceiveData, ArmType, MailType, Reads0, ArmKeeps
  <1>3. CASE a.pc = "rep1"
    BY <1>1, <1>3 DEF dspReceiveData, ArmType, MailType, Reads1, ArmKeeps
  <1> QED
    BY <1>2, <1>3

\* RunAgain only goes back in the script.
LEMMA RestartEffect ==
    ASSUME MailType, ArmType, DspType, RunAgain
    PROVE  Restarts /\ MailType' /\ ArmType' /\ DspType'
  <1>1. 2 \in 1 .. Tests + 2
    BY SeqExamplesAssumption
  <1>2. ArmType'
    <2>1. a' = [a EXCEPT !.pc = "prepare", !.at = 2, !.runs = a.runs + 1]
      BY DEF RunAgain
    <2>2. a.runs + 1 \in Nat
      BY DEF ArmType
    <2> QED
      BY <1>1, <2>1, <2>2 DEF ArmType
  <1>3. Restarts
    BY DEF RunAgain, ArmType, Restarts, apbpVars
  <1>4. d' = d /\ cmd' = cmd /\ cmdNew' = cmdNew /\ rep' = rep /\ repUnread' = repUnread
    BY DEF RunAgain, apbpVars
  <1> QED
    BY <1>2, <1>3, <1>4 DEF MailType, DspType

\* What a step of the DSP does.
DspKeeps == a' = a /\ cmd' = cmd /\ d'.repeated = d.repeated
Ignores ==
    /\ a' = a /\ UNCHANGED apbpVars /\ cmd[0].seq = d.lastSeq /\ ~cmdNew[0] /\ d.pc = "receive"
    /\ d'.pc = "receive" /\ d'.cmd = d.cmd /\ d'.arg = d.arg /\ d'.lastSeq = d.lastSeq
    /\ d'.repeated = d.repeated + 1 /\ d'.status = d.status /\ d'.part = d.part
Takes ==
    /\ DspKeeps /\ rep' = rep /\ repUnread' = repUnread
    /\ ~cmdNew'[0] /\ d.pc = "receive" /\ cmd[0].seq # d.lastSeq
    /\ d'.pc = (IF ex = "benchmark" THEN "arg1" ELSE "execute")
    /\ d'.cmd = cmd[0] /\ d'.lastSeq = cmd[0].seq
    /\ d'.arg = d.arg /\ d'.status = d.status /\ d'.part = d.part
ReadsArgument ==
    /\ DspKeeps /\ rep' = rep /\ repUnread' = repUnread /\ cmdNew'[0] = cmdNew[0]
    /\ \/ d.pc = "arg1" /\ d'.pc = "arg2" /\ d'.arg[1] = cmd[1]
       \/ d.pc = "arg2" /\ d'.pc = "execute" /\ d'.arg = <<d.arg[1], cmd[2]>>
    /\ d'.cmd = d.cmd /\ d'.lastSeq = d.lastSeq /\ d'.status = d.status /\ d'.part = d.part
Executes ==
    /\ DspKeeps /\ UNCHANGED apbpVars
    /\ d.pc = "execute" /\ d'.pc = "rep0" /\ d'.part = 0
    /\ Known(d.cmd) /\ d.cmd.op # "LOAD" => d'.status = "OK"
    /\ d'.cmd = d.cmd /\ d'.arg = d.arg /\ d'.lastSeq = d.lastSeq
Writes0 ==
    /\ DspKeeps /\ cmdNew' = cmdNew /\ d.pc = "rep0" /\ d'.pc = "rep1" /\ ~repUnread[0]
    /\ rep'[0] = WrittenRep0 /\ rep'[1] = rep[1] /\ rep'[2] = rep[2]
    /\ repUnread' = [repUnread EXCEPT ![0] = TRUE]
    /\ d'.cmd = d.cmd /\ d'.arg = d.arg /\ d'.lastSeq = d.lastSeq /\ d'.status = d.status
    /\ d'.part = d.part
Writes1 ==
    /\ DspKeeps /\ cmdNew' = cmdNew /\ d.pc = "rep1" /\ d'.pc = "rep2" /\ ~repUnread[1]
    /\ rep'[0] = rep[0] /\ rep'[1] = SeqValue /\ rep'[2] = rep[2]
    /\ repUnread' = [repUnread EXCEPT ![1] = TRUE]
    /\ d'.cmd = d.cmd /\ d'.arg = d.arg /\ d'.lastSeq = d.lastSeq /\ d'.status = d.status
    /\ d'.part = d.part
Writes2 ==
    /\ DspKeeps /\ cmdNew' = cmdNew /\ d.pc = "rep2" /\ ~repUnread[2]
    /\ rep'[0] = rep[0] /\ rep'[1] = rep[1] /\ rep'[2] = SeqValue
    /\ repUnread' = [repUnread EXCEPT ![2] = TRUE]
    /\ d'.cmd = d.cmd /\ d'.arg = d.arg /\ d'.lastSeq = d.lastSeq /\ d'.status = d.status
    /\ IF HasSecond(d.cmd.op) /\ d.part = 0 THEN d'.pc = "rep0" /\ d'.part = 1
       ELSE d'.pc = "receive" /\ d'.part = d.part

\* The DSP ignores a command whose number it has seen, and takes another one;
\* a command in a new CMD0 is never ignored.
LEMMA DispatchEffect ==
    ASSUME MailType, ArmType, DspType, SeqReceive \/ SeqReceiveAgain,
           cmdNew[0] => d.lastSeq # cmd[0].seq
    PROVE  (Ignores \/ Takes) /\ MailType' /\ ArmType' /\ DspType'
  <1>1. a' = a /\ d.pc = "receive" /\ Dispatch(cmd[0])
    BY DEF SeqReceive, SeqReceiveAgain
  <1>2. /\ cmd' = cmd /\ rep' = rep /\ repUnread' = repUnread /\ ~cmdNew'[0]
        /\ cmdNew' \in [Channels -> BOOLEAN] /\ (cmdNew[0] \/ cmdNew' = cmdNew)
    <2>1. CASE SeqReceive
      BY <2>1 DEF SeqReceive, apbpReceiveData, LoadCmd, MailType, Channels
    <2>2. CASE SeqReceiveAgain
      BY <2>2 DEF SeqReceiveAgain, apbpVars, MailType
    <2> QED
      BY <2>1, <2>2
  <1>3. MailType' /\ ArmType'
    BY <1>1, <1>2 DEF MailType, ArmType
  <1>4. CASE IsRepeated(cmd[0])
    <2>1. d' = [d EXCEPT !.repeated = @ + 1]
      BY <1>1, <1>4 DEF Dispatch
    <2>2. DspType'
      BY <2>1 DEF DspType
    <2>3. ~cmdNew[0] /\ UNCHANGED apbpVars
      BY <1>2, <1>4 DEF IsRepeated, apbpVars
    <2>4. Ignores
      BY <1>1, <1>4, <2>1, <2>3 DEF Ignores, DspType, IsRepeated
    <2> QED
      BY <1>3, <2>2, <2>4
  <1>5. CASE ~IsRepeated(cmd[0])
    <2>1. d' = [d EXCEPT !.lastSeq = cmd[0].seq, !.cmd = cmd[0],
                         !.pc = IF ex = "benchmark" THEN "arg1" ELSE "execute"]
      BY <1>1, <1>5 DEF Dispatch
    <2>2. cmd[0] \in SeqCmds /\ cmd[0].seq \in 0 .. SeqCount + 1
      BY SeqExamplesAssumption DEF MailType, SeqCmds
    <2>3. DspType'
      BY <2>1, <2>2 DEF DspType
    <2>4. Takes
      BY <1>1, <1>2, <1>5, <2>1 DEF Takes, DspKeeps, DspType, IsRepeated
    <2> QED
      BY <1>3, <2>3, <2>4
  <1> QED
    BY <1>4, <1>5

\* ReadArgument takes the halves of the argument from CMD1 and CMD2.
LEMMA ReadArgumentEffect ==
    ASSUME MailType, ArmType, DspType, ReadArgument
    PROVE  ReadsArgument /\ MailType' /\ ArmType' /\ DspType'
  <1>1. a' = a /\ cmd[1] \in Args /\ cmd[2] \in Args /\ d.arg = <<d.arg[1], d.arg[2]>>
        /\ d.arg[1] \in Args /\ d.arg[2] \in Args
    BY DEF ReadArgument, MailType, DspType
  <1>2. CASE d.pc = "arg1" /\ LoadCmd(1) /\ d' = [d EXCEPT !.pc = "arg2", !.arg[1] = cmd[1]]
    <2>1. /\ cmd' = cmd /\ rep' = rep /\ repUnread' = repUnread /\ cmdNew'[0] = cmdNew[0]
          /\ cmdNew' \in [Channels -> BOOLEAN]
      BY <1>2 DEF LoadCmd, MailType, Channels
    <2>2. d'.arg = [d.arg EXCEPT ![1] = cmd[1]]
      BY <1>2 DEF DspType
    <2>3. d'.arg = <<cmd[1], d.arg[2]>>
      BY <1>1, <2>2
    <2>4. /\ d'.pc = "arg2" /\ d'.cmd = d.cmd /\ d'.lastSeq = d.lastSeq /\ d'.status = d.status
          /\ d'.part = d.part /\ d'.repeated = d.repeated
      BY <1>2 DEF DspType
    <2>5. DspType'
      <3>1. d' = [[d EXCEPT !.arg = d'.arg] EXCEPT !.pc = "arg2"]
        BY <1>2, <2>2 DEF DspType
      <3>2. d'.arg \in Args \X Args
        BY <1>1, <2>3
      <3> QED
        BY <3>1, <3>2 DEF DspType
    <2> QED
      BY <1>1, <1>2, <2>1, <2>3, <2>4, <2>5 DEF ReadsArgument, DspKeeps, MailType, ArmType
  <1>3. CASE d.pc = "arg2" /\ LoadCmd(2) /\ d' = [d EXCEPT !.pc = "execute", !.arg[2] = cmd[2]]
    <2>1. /\ cmd' = cmd /\ rep' = rep /\ repUnread' = repUnread /\ cmdNew'[0] = cmdNew[0]
          /\ cmdNew' \in [Channels -> BOOLEAN]
      BY <1>3 DEF LoadCmd, MailType, Channels
    <2>2. d'.arg = [d.arg EXCEPT ![2] = cmd[2]]
      BY <1>3 DEF DspType
    <2>3. d'.arg = <<d.arg[1], cmd[2]>>
      BY <1>1, <2>2
    <2>4. /\ d'.pc = "execute" /\ d'.cmd = d.cmd /\ d'.lastSeq = d.lastSeq /\ d'.status = d.status
          /\ d'.part = d.part /\ d'.repeated = d.repeated
      BY <1>3 DEF DspType
    <2>5. DspType'
      <3>1. d' = [[d EXCEPT !.arg = d'.arg] EXCEPT !.pc = "execute"]
        BY <1>3, <2>2 DEF DspType
      <3>2. d'.arg \in Args \X Args
        BY <1>1, <2>3
      <3> QED
        BY <3>1, <3>2 DEF DspType
    <2> QED
      BY <1>1, <1>3, <2>1, <2>3, <2>4, <2>5 DEF ReadsArgument, DspKeeps, MailType, ArmType
  <1> QED
    BY <1>2, <1>3 DEF ReadArgument

\* Execute replies with OK to a command that the DSP has, but LOAD.
LEMMA ExecuteEffect ==
    ASSUME MailType, ArmType, DspType, Execute
    PROVE  Executes /\ MailType' /\ ArmType' /\ DspType'
  <1>1. PICK status \in SeqStatuses :
          /\ d' = [d EXCEPT !.pc = "rep0", !.part = 0, !.status = status]
          /\ Known(d.cmd) /\ d.cmd.op # "LOAD" => status = "OK"
    BY DEF Execute, SeqStatuses
  <1>2. a' = a /\ d.pc = "execute" /\ UNCHANGED apbpVars
    BY DEF Execute
  <1>3. DspType'
    BY <1>1 DEF DspType
  <1>4. Executes
    BY <1>1, <1>2 DEF Executes, DspKeeps, DspType, apbpVars
  <1> QED
    BY <1>2, <1>3, <1>4 DEF MailType, ArmType, apbpVars

\* SeqReply writes the registers of a reply in turn, after the last one it goes
\* on to the second reply or to the next command.
LEMMA ReplyEffect ==
    ASSUME MailType, ArmType, DspType, SeqReply
    PROVE  (Writes0 \/ Writes1 \/ Writes2) /\ MailType' /\ ArmType' /\ DspType'
  <1>1. a' = a
    BY DEF SeqReply
  <1>2. WrittenRep0 \in SeqReps
    BY DEF DspType, SeqCmds, SeqReps, WrittenRep0
  <1>3. SeqValue \in SeqValues
    <2>1. d.cmd.op \in Ops /\ d.cmd.test \in 0 .. Tests /\ d.arg \in Args \X Args /\ d.repeated \in Nat
      BY DEF DspType, SeqCmds
    <2>2. <<"none", "none">> \in Args \X Args /\ Tests \in Nat
      BY SeqExamplesAssumption DEF Args
    <2>3. SeqValue.count \in Nat
      BY <2>1, <2>2 DEF SeqValue
    <2>4. SeqValue.of \in Ops \cup {"CYCLES"} /\ SeqValue.test \in 0 .. Tests
          /\ SeqValue.arg \in Args \X Args
      BY <2>1, <2>2 DEF SeqValue
    <2>5. SeqValue = [of |-> SeqValue.of, test |-> SeqValue.test, arg |-> SeqValue.arg,
                      count |-> SeqValue.count]
      BY DEF SeqValue
    <2> QED
      BY <2>3, <2>4, <2>5 DEF SeqValues
  <1>4. CASE d.pc = "rep0" /\ apbpSendData(0, WrittenRep0) /\ d' = [d EXCEPT !.pc = "rep1"]
    <2>1. MailType' /\ DspType'
      BY <1>2, <1>4 DEF apbpSendData, MailType, DspType, Channels
    <2>2. Writes0
      BY <1>1, <1>4 DEF apbpSendData, MailType, DspType, Channels, Writes0, DspKeeps
    <2> QED
      BY <1>1, <2>1, <2>2 DEF ArmType
  <1>5. CASE d.pc = "rep1" /\ apbpSendData(1, SeqValue) /\ d' = [d EXCEPT !.pc = "rep2"]
    <2>1. MailType' /\ DspType'
      BY <1>3, <1>5 DEF apbpSendData, MailType, DspType, Channels
    <2>2. Writes1
      BY <1>1, <1>5 DEF apbpSendData, MailType, DspType, Channels, Writes1, DspKeeps
    <2> QED
      BY <1>1, <2>1, <2>2 DEF ArmType
  <1>6. CASE /\ d.pc = "rep2" /\ apbpSendData(2, SeqValue)
             /\ d' = IF HasSecond(d.cmd.op) /\ d.part = 0 THEN [d EXCEPT !.pc = "rep0", !.part = 1]
                     ELSE [d EXCEPT !.pc = "receive"]
    <2>1. MailType'
      BY <1>3, <1>6 DEF apbpSendData, MailType, Channels
    <2>2. DspType'
      BY <1>6 DEF DspType
    <2>3. Writes2
      BY <1>1, <1>6 DEF apbpSendData, MailType, DspType, Channels, Writes2, DspKeeps
    <2> QED
      BY <1>1, <2>1, <2>2, <2>3 DEF ArmType
  <1> QED
    BY <1>4, <1>5, <1>6 DEF SeqReply, WrittenRep0

Protocol ==
    /\ MailType /\ ArmType /\ DspType
    /\ CommandInv /\ ServeInv /\ ReplyInv /\ ResultInv
Kept == CommandInv' /\ ServeInv' /\ ReplyInv' /\ ResultInv'

\* Results stay right.
LEMMA ResultsStay ==
    ASSUME ex' = ex, a'.results = a.results, NEW t
    PROVE  RightResult(t)' <=> RightResult(t)
  BY DEF RightResult, Argument

\* What the types say of the numbers.
LEMMA Numbers ==
    ASSUME Protocol
    PROVE  /\ a.seq \in 0 .. SeqCount /\ cmd[0].seq \in 0 .. SeqCount /\ rep[0].seq \in 0 .. SeqCount
           /\ a.part \in {0, 1} /\ d.part \in {0, 1} /\ d.repeated \in Nat /\ a.runs \in Nat
           /\ a.at \in 1 .. Tests + 2 /\ a.count \in Nat /\ d.cmd.seq \in 0 .. SeqCount
           /\ Command.op \in {"INIT", "LOAD", "RUN", "STATS"}
           /\ SeqCount \in Nat /\ SeqCount >= 2 /\ Tests \in Nat /\ Tests >= 1
  <1>1. a.seq \in 0 .. SeqCount /\ a.part \in {0, 1} /\ a.runs \in Nat /\ a.at \in 1 .. Tests + 2
        /\ a.count \in Nat
    BY DEF Protocol, ArmType
  <1>2. cmd[0].seq \in 0 .. SeqCount /\ rep[0].seq \in 0 .. SeqCount
    BY DEF Protocol, MailType, SeqCmds, SeqReps
  <1>3. d.part \in {0, 1} /\ d.repeated \in Nat /\ d.cmd.seq \in 0 .. SeqCount
    BY DEF Protocol, DspType, SeqCmds
  <1>4. Command.op \in {"INIT", "LOAD", "RUN", "STATS"}
    BY <1>1, CommandFacts
  <1> QED
    BY <1>1, <1>2, <1>3, <1>4, SeqExamplesAssumption

\* A new sequence number differs from that of the reply in REP0.
LEMMA PrepareKeeps ==
    ASSUME ex' = ex, UsesSeq, Protocol, Prepares PROVE Kept
  <1>1. /\ Command' = Command /\ Arg' = Arg /\ (Twice' <=> Twice) /\ ReplyArg' = ReplyArg
    BY SameCommand DEF Prepares, ArmKeeps
  <1>2. CommandInv'
    BY Numbers, <1>1 DEF Protocol, CommandInv, Prepares, ArmKeeps, apbpVars, Sending, Awaiting
  <1>3. ServeInv'
    BY Numbers, <1>1 DEF Protocol, ServeInv, Prepares, ArmKeeps, apbpVars, Sending, Awaiting,
       Spurious, Replying
  <1>4. ReplyInv'
    <2>1. /\ Between /\ ~Awaiting /\ ~Awaiting' /\ ~Between' /\ Read = 0 /\ Read' = 0
          /\ Written' = Written /\ ReadRep0' = ReadRep0 /\ ~Executed /\ ~Executed'
      BY DEF Prepares, ArmKeeps, apbpVars, Between, Awaiting, Read, Written, ReadRep0, Executed
    <2>2. (SameReply' <=> SameReply) /\ (ReplyBefore' <=> ReplyBefore)
          /\ (Spurious' <=> Spurious) /\ (Replying' <=> Replying)
          /\ WrittenRep0' = WrittenRep0 /\ SeqValue' = SeqValue
      BY <2>1 DEF Prepares, ArmKeeps, apbpVars, SameReply, ReplyBefore, Spurious, Replying,
         WrittenRep0, SeqValue
    <2>3. a'.seq # a.seq /\ a.seq = rep[0].seq
      BY Numbers, NextSeqDiffers, <2>1 DEF Protocol, ReplyInv, Prepares
    <2>4. ReplyBefore => SpuriousReply
      BY <2>1 DEF Protocol, ReplyInv, RightReply
    <2>5. ReplyBefore' => SpuriousReply'
      BY <2>1, <2>2, <2>4 DEF SpuriousReply
    <2>6. Replying /\ ~Spurious => FALSE
      BY <2>1 DEF Protocol, ServeInv, Replying
    <2> QED
      BY <2>1, <2>2, <2>3, <2>5, <2>6 DEF Protocol, ReplyInv, Prepares, ArmKeeps, apbpVars
  <1>5. ResultInv'
    BY ResultsStay, Numbers DEF Protocol, ResultInv, Prepares, ArmKeeps, Awaiting
  <1> QED
    BY <1>2, <1>3, <1>4, <1>5 DEF Kept

\* The argument is written while the DSP has no command to read it for.
LEMMA SendArgumentKeeps ==
    ASSUME ex' = ex, UsesSeq, Protocol, SendsArgument PROVE Kept
  <1>1. /\ Command' = Command /\ Arg' = Arg /\ (Twice' <=> Twice) /\ ReplyArg' = ReplyArg
    BY SameCommand DEF SendsArgument, ArmKeeps
  <1>2. CommandInv'
    BY Numbers, <1>1 DEF Protocol, CommandInv, SendsArgument, ArmKeeps, Sending, Awaiting
  <1>3. ServeInv'
    BY Numbers, <1>1 DEF Protocol, ServeInv, SendsArgument, ArmKeeps, Awaiting, Spurious, Replying
  <1>4. ReplyInv'
    <2>1. /\ Sending /\ Sending' /\ ~Between /\ ~Awaiting /\ ~Awaiting' /\ ~Between'
          /\ Read = 0 /\ Read' = 0
          /\ Written' = Written /\ ReadRep0' = ReadRep0 /\ ~Executed /\ ~Executed'
      BY DEF SendsArgument, ArmKeeps, Between, Awaiting, Read, Written, ReadRep0, Executed, Sending
    <2>2. (SameReply' <=> SameReply) /\ (ReplyBefore' <=> ReplyBefore)
          /\ (Spurious' <=> Spurious) /\ (Replying' <=> Replying)
          /\ WrittenRep0' = WrittenRep0 /\ SeqValue' = SeqValue
      BY <2>1 DEF SendsArgument, ArmKeeps, SameReply, ReplyBefore, Spurious, Replying,
         WrittenRep0, SeqValue
    <2>3. ReplyBefore => SpuriousReply
      BY <2>1 DEF Protocol, ReplyInv, RightReply
    <2>4. ReplyBefore' => SpuriousReply'
      BY <2>1, <2>2, <2>3 DEF SpuriousReply
    <2> QED
      BY <2>1, <2>2, <2>4 DEF Protocol, ReplyInv, SendsArgument, ArmKeeps
  <1>5. ResultInv'
    BY ResultsStay, Numbers DEF Protocol, ResultInv, SendsArgument, ArmKeeps, Awaiting
  <1> QED
    BY <1>2, <1>3, <1>4, <1>5 DEF Kept

\* The command gets its number into CMD0 when its argument is complete.
LEMMA SendCommandKeeps ==
    ASSUME ex' = ex, UsesSeq, Protocol, SendsCommand PROVE Kept
  <1>1. /\ Command' = Command /\ Arg' = Arg /\ (Twice' <=> Twice) /\ ReplyArg' = ReplyArg
        /\ SentWord' = SentWord
    BY SameCommand DEF SendsCommand, ArmKeeps, SentWord
  <1>2. a.seq # 0 /\ a.seq # cmd[0].seq /\ SentWord.seq = a.seq
    BY Numbers, NextSeqDiffers DEF Protocol, CommandInv, Sending, SendsCommand, SentWord
  <1>3. CommandInv'
    BY Numbers, <1>1, <1>2 DEF Protocol, CommandInv, SendsCommand, ArmKeeps, Sending, Awaiting
  <1>4. d.pc = "receive" \/ Spurious
    BY DEF Protocol, ServeInv, SendsCommand, Awaiting
  <1>5. d.lastSeq # a.seq
    BY Numbers, <1>2, <1>4, SeqExamplesAssumption
       DEF Protocol, ServeInv, SendsCommand, Awaiting, NoSeq
  <1>6. ServeInv'
    BY <1>1, <1>2, <1>4, <1>5 DEF Protocol, ServeInv, SendsCommand, ArmKeeps, Awaiting, Spurious
  <1>7. ReplyInv'
    <2>1. /\ Sending /\ Awaiting' /\ ~Between /\ ~Awaiting /\ ~Between' /\ ~Sending'
          /\ Read = 0 /\ Read' = 0
          /\ Written' = Written /\ ReadRep0' = ReadRep0 /\ ~Executed /\ ~Executed'
      BY DEF SendsCommand, ArmKeeps, Between, Awaiting, Read, Written, ReadRep0, Executed, Sending
    <2>2. (SameReply' <=> SameReply) /\ (ReplyBefore' <=> ReplyBefore)
          /\ (Spurious' <=> Spurious) /\ (Replying' <=> Replying)
          /\ WrittenRep0' = WrittenRep0 /\ SeqValue' = SeqValue
      BY <2>1 DEF SendsCommand, ArmKeeps, SameReply, ReplyBefore, Spurious, Replying,
         WrittenRep0, SeqValue
    <2>3. ReplyBefore => SpuriousReply
      BY <2>1 DEF Protocol, ReplyInv, RightReply
    <2>4. ReplyBefore' => SpuriousReply'
      BY <2>1, <2>2, <2>3 DEF SpuriousReply
    <2>5. ~Awaited(rep[0])'
      BY <2>1 DEF Protocol, ReplyInv, Awaited, SendsCommand, ArmKeeps
    <2>6. ~(Replying /\ ~Spurious)
      BY <1>4 DEF Replying
    <2> QED
      BY <2>1, <2>2, <2>4, <2>5, <2>6 DEF Protocol, ReplyInv, SendsCommand, ArmKeeps
  <1>8. ResultInv'
    BY ResultsStay, Numbers DEF Protocol, ResultInv, CommandInv, Sending, SendsCommand, ArmKeeps,
       Awaiting
  <1> QED
    BY <1>3, <1>6, <1>7, <1>8 DEF Kept

\* While the ARM9 awaits a reply, CMD0 holds its command, whose number isn't 0.
LEMMA AwaitingFacts ==
    ASSUME Protocol, Awaiting
    PROVE  a.seq = cmd[0].seq /\ a.seq > 0 /\ cmd[0] = SentWord
  <1>1. a.seq = cmd[0].seq /\ cmd[0] = SentWord
    BY DEF Protocol, CommandInv, Awaiting, Sending
  <1>2. cmd[0].op # "NONE"
    BY <1>1, Numbers DEF SentWord
  <1> QED
    BY <1>1, <1>2, Numbers DEF Protocol, CommandInv

\* The ARM9 reads REP0.
LEMMA Read0Keeps ==
    ASSUME ex' = ex, UsesSeq, Protocol, Reads0 PROVE Kept
  <1>1. /\ Command' = Command /\ Arg' = Arg /\ (Twice' <=> Twice) /\ ReplyArg' = ReplyArg
        /\ SentWord' = SentWord
    BY SameCommand DEF Reads0, ArmKeeps, SentWord
  <1>2. /\ Awaiting /\ Awaiting' /\ ~Between' /\ ~Sending' /\ Read = 0 /\ Read' = 1
        /\ Written' = Written /\ (Executed' <=> Executed)
        /\ (Spurious' <=> Spurious) /\ (Replying' <=> Replying)
        /\ WrittenRep0' = WrittenRep0 /\ SeqValue' = SeqValue
    BY DEF Reads0, ArmKeeps, Between, Awaiting, Read, Written, Executed, Sending, Spurious,
       Replying, Reading, WrittenRep0, SeqValue
  <1>3. CommandInv'
    BY <1>1, <1>2, AwaitingFacts DEF Protocol, CommandInv, Reads0, ArmKeeps
  <1>4. ServeInv'
    BY <1>1, <1>2 DEF Protocol, ServeInv, Reads0, ArmKeeps, RightStatus
  <1>5. ReplyInv'
    <2>1. /\ ~repUnread'[0] /\ repUnread'[1] = repUnread[1] /\ repUnread'[2] = repUnread[2]
          /\ Channels = {0, 1, 2} /\ Written \in {0, 1, 2} /\ repUnread[0]
      BY DEF Reads0, Protocol, MailType, Channels, Written
    <2>2. CASE SameReply
      <3>1. Written >= 1 /\ SameReply' /\ ~ReplyBefore'
        BY <1>2, <2>1, <2>2 DEF SameReply, ReplyBefore
      <3>2. rep[0] = WrittenRep0
        BY <3>1 DEF Protocol, ReplyInv
      <3> QED
        BY <1>1, <1>2, <2>2, <3>1, <3>2 DEF Protocol, ReplyInv, Reads0, ArmKeeps
    <2>3. CASE ReplyBefore
      <3>1. Written = 0 /\ ReplyBefore' /\ ~SameReply'
        BY <1>2, <2>1, <2>3 DEF SameReply, ReplyBefore
      <3>2. ReadRep0 = rep[0] /\ ReadRep0' = rep[0] /\ rep'[0] = rep[0]
        BY <1>2 DEF ReadRep0, Reads0, ArmKeeps
      <3>3. CASE SpuriousReply
        <4>1. SpuriousReply'
          BY <1>2, <3>2, <3>3 DEF SpuriousReply, Reads0, ArmKeeps
        <4> QED
          BY <1>2, <2>3, <3>1, <3>2, <4>1 DEF Protocol, ReplyInv, Reads0, ArmKeeps
      <3>4. CASE RightReply
        <4>1. RightReply'
          BY <1>1, <1>2, <3>1, <3>2, <3>4
             DEF RightReply, RightStatus, RightValue, Reads0, ArmKeeps
        <4> QED
          BY <1>2, <2>3, <3>1, <3>2, <4>1 DEF Protocol, ReplyInv, Reads0, ArmKeeps
      <3> QED
        BY <2>3, <3>3, <3>4 DEF Protocol, ReplyInv
    <2> QED
      BY <2>2, <2>3 DEF Protocol, ReplyInv
  <1>6. ResultInv'
    BY <1>2, ResultsStay, Numbers DEF Protocol, ResultInv, Reads0, ArmKeeps
  <1> QED
    BY <1>3, <1>4, <1>5, <1>6 DEF Kept

\* The ARM9 reads REP1.
LEMMA Read1Keeps ==
    ASSUME ex' = ex, UsesSeq, Protocol, Reads1 PROVE Kept
  <1>1. /\ Command' = Command /\ Arg' = Arg /\ (Twice' <=> Twice) /\ ReplyArg' = ReplyArg
        /\ SentWord' = SentWord
    BY SameCommand DEF Reads1, ArmKeeps, SentWord
  <1>2. /\ Awaiting /\ Awaiting' /\ ~Between' /\ ~Sending' /\ Read = 1 /\ Read' = 2
        /\ Written' = Written /\ (Executed' <=> Executed)
        /\ (Spurious' <=> Spurious) /\ (Replying' <=> Replying)
        /\ WrittenRep0' = WrittenRep0 /\ SeqValue' = SeqValue
    BY DEF Reads1, ArmKeeps, Between, Awaiting, Read, Written, Executed, Sending, Spurious,
       Replying, Reading, WrittenRep0, SeqValue
  <1>3. CommandInv'
    BY <1>1, <1>2, AwaitingFacts DEF Protocol, CommandInv, Reads1, ArmKeeps
  <1>4. ServeInv'
    BY <1>1, <1>2 DEF Protocol, ServeInv, Reads1, ArmKeeps, RightStatus
  <1>5. ReplyInv'
    <2>1. /\ ~repUnread'[1] /\ repUnread'[0] = repUnread[0] /\ repUnread'[2] = repUnread[2]
          /\ Channels = {0, 1, 2} /\ Written \in {0, 1, 2} /\ repUnread[1]
      BY DEF Reads1, Protocol, MailType, Channels, Written
    <2>2. CASE SameReply
      <3>1. Written = 2 /\ SameReply' /\ ~ReplyBefore'
        BY <1>2, <2>1, <2>2 DEF SameReply, ReplyBefore
      <3>2. rep[1] = SeqValue
        BY <3>1 DEF Protocol, ReplyInv
      <3> QED
        BY <1>1, <1>2, <2>2, <3>1, <3>2 DEF Protocol, ReplyInv, Reads1, ArmKeeps
    <2>3. CASE ReplyBefore
      <3>1. Written <= 1 /\ ReplyBefore' /\ ~SameReply'
        BY <1>2, <2>1, <2>3 DEF SameReply, ReplyBefore
      <3>2. ReadRep0' = ReadRep0 /\ rep' = rep
        BY <1>2 DEF ReadRep0, Reads1, ArmKeeps
      <3>3. CASE SpuriousReply
        <4>1. SpuriousReply'
          BY <1>2, <3>2, <3>3 DEF SpuriousReply, Reads1, ArmKeeps
        <4> QED
          BY <1>2, <2>3, <3>1, <3>2, <4>1 DEF Protocol, ReplyInv, Reads1, ArmKeeps
      <3>4. CASE RightReply
        <4>1. RightReply'
          BY <1>1, <1>2, <3>1, <3>2, <3>4
             DEF RightReply, RightStatus, RightValue, Reads1, ArmKeeps
        <4> QED
          BY <1>2, <2>3, <3>1, <3>2, <4>1 DEF Protocol, ReplyInv, Reads1, ArmKeeps
      <3> QED
        BY <2>3, <3>3, <3>4 DEF Protocol, ReplyInv
    <2> QED
      BY <2>2, <2>3 DEF Protocol, ReplyInv
  <1>6. ResultInv'
    BY <1>2, ResultsStay, Numbers DEF Protocol, ResultInv, Reads1, ArmKeeps
  <1> QED
    BY <1>3, <1>4, <1>5, <1>6 DEF Kept

\* Another run starts when no reply is on its way.
LEMMA RestartKeeps ==
    ASSUME ex' = ex, UsesSeq, Protocol, Restarts PROVE Kept
  <1>1. cmd[0].seq # 0
    BY DEF Protocol, CommandInv, Restarts, Sending
  <1>2. /\ Between /\ Between' /\ ~Awaiting /\ ~Awaiting' /\ ~Sending /\ ~Sending'
        /\ Read = 0 /\ Read' = 0 /\ Written' = Written /\ ReadRep0' = ReadRep0
        /\ ~Executed /\ ~Executed' /\ (Spurious' <=> Spurious) /\ (Replying' <=> Replying)
        /\ WrittenRep0' = WrittenRep0 /\ SeqValue' = SeqValue
    BY DEF Restarts, apbpVars, Between, Awaiting, Sending, Read, Written, ReadRep0, Executed,
       Spurious, Replying, WrittenRep0, SeqValue
  <1>3. d.pc = "receive" /\ Written = 0
    BY <1>1, <1>2 DEF Protocol, ServeInv, Written
  <1>4. CommandInv'
    BY <1>1, <1>2 DEF Protocol, CommandInv, Restarts, apbpVars
  <1>5. ServeInv'
    BY <1>2, <1>3 DEF Protocol, ServeInv, Restarts, apbpVars, Spurious
  <1>6. ReplyInv'
    <2>1. ~ReplyBefore
      BY <1>1, <1>2 DEF Protocol, ReplyInv, SpuriousReply, RightReply
    <2>2. SameReply /\ SameReply' /\ ~ReplyBefore'
      BY <1>2, <2>1 DEF Protocol, ReplyInv, SameReply, ReplyBefore, Restarts, apbpVars
    <2> QED
      BY <1>2, <1>3, <2>2 DEF Protocol, ReplyInv, Restarts, apbpVars, Replying
  <1>7. ResultInv'
    <2>1. \A t \in 1 .. Tests : RightResult(t)
      BY Numbers DEF Protocol, ResultInv, CommandInv, Restarts
    <2>2. a'.count = a.count /\ d' = d /\ \A t \in 1 .. Tests : RightResult(t)'
      BY <2>1, ResultsStay DEF Restarts
    <2> QED
      BY <2>2 DEF Protocol, ResultInv
  <1> QED
    BY <1>4, <1>5, <1>6, <1>7 DEF Kept

\* A repeated command changes only the count.
LEMMA IgnoresKeeps ==
    ASSUME ex' = ex, UsesSeq, Protocol, Ignores PROVE Kept
  <1>1. /\ Command' = Command /\ Arg' = Arg /\ (Twice' <=> Twice) /\ ReplyArg' = ReplyArg
        /\ SentWord' = SentWord
    BY SameCommand DEF Ignores, SentWord
  <1>2. /\ (Awaiting' <=> Awaiting) /\ (Sending' <=> Sending) /\ (Between' <=> Between)
        /\ Read' = Read /\ Written = 0 /\ Written' = 0 /\ ReadRep0' = ReadRep0
        /\ ~Spurious /\ ~Spurious' /\ ~Replying /\ ~Replying' /\ (Executed' <=> Executed)
    BY DEF Ignores, apbpVars, Awaiting, Sending, Between, Read, Written, ReadRep0, Spurious,
       Replying, Executed, Reading
  <1>3. CommandInv'
    BY <1>1, <1>2 DEF Protocol, CommandInv, Ignores, apbpVars
  <1>4. ServeInv'
    BY <1>1, <1>2 DEF Protocol, ServeInv, Ignores, apbpVars
  <1>5. ReplyInv'
    <2>1. (SameReply' <=> SameReply) /\ (ReplyBefore' <=> ReplyBefore)
      BY <1>2 DEF SameReply, ReplyBefore, Ignores, apbpVars
    <2>2. CASE SameReply /\ ~ReplyBefore
      <3>1. Read = 0
        BY <1>2, <2>2 DEF SameReply, Read
      <3>2. ~Awaited(rep[0])' <=> ~Awaited(rep[0])
        BY DEF Awaited, Ignores, apbpVars
      <3> QED
        BY <1>2, <2>1, <2>2, <3>1, <3>2 DEF Protocol, ReplyInv, Ignores, apbpVars
    <2>3. CASE ReplyBefore
      <3>1. SpuriousReply => SpuriousReply'
        BY <1>2 DEF SpuriousReply, Ignores, apbpVars
      <3>2. ASSUME RightReply
            PROVE  RightReply'
        <4>1. \A v \in SeqValues, part \in {0, 1} :
                 ValueOf(Command, part, v, ReplyArg, d.repeated)
                   => ValueOf(Command, part, v, ReplyArg, d'.repeated)
          BY Numbers, ValueStays DEF Ignores
        <4>2. rep[1] \in SeqValues /\ rep[2] \in SeqValues /\ a.high \in SeqValues
              /\ a.part \in {0, 1}
          BY DEF Protocol, MailType, ArmType
        <4>3. a' = a /\ rep' = rep /\ d.pc = "receive" /\ d'.pc = "receive"
          BY DEF Ignores, apbpVars
        <4> QED
          BY <1>1, <1>2, <3>2, <4>1, <4>2, <4>3 DEF RightReply, RightValue, RightStatus
      <3>3. SameReply => Read = 0
        BY <1>2 DEF SameReply, Read
      <3>4. ~Awaited(rep[0])' <=> ~Awaited(rep[0])
        BY DEF Awaited, Ignores, apbpVars
      <3> QED
        BY <1>2, <2>1, <2>3, <3>1, <3>2, <3>3, <3>4 DEF Protocol, ReplyInv, Ignores, apbpVars
    <2> QED
      BY <2>2, <2>3 DEF Protocol, ReplyInv
  <1>6. ResultInv'
    BY <1>2, ResultsStay, Numbers DEF Protocol, ResultInv, Ignores
  <1> QED
    BY <1>3, <1>4, <1>5, <1>6 DEF Kept

\* The DSP takes the command in progress or, once, what it saw in CMD0 before the
\* first one.
LEMMA TakesKeeps ==
    ASSUME ex' = ex, UsesSeq, Protocol, Takes PROVE Kept
  <1>1. /\ Command' = Command /\ Arg' = Arg /\ (Twice' <=> Twice) /\ ReplyArg' = ReplyArg
        /\ SentWord' = SentWord
    BY SameCommand DEF Takes, DspKeeps, SentWord
  <1>2. /\ (Awaiting' <=> Awaiting) /\ (Sending' <=> Sending) /\ (Between' <=> Between)
        /\ Read' = Read /\ Written = 0 /\ Written' = 0 /\ ReadRep0' = ReadRep0
        /\ ~Spurious /\ ~Replying /\ ~Replying' /\ Reading' /\ d'.pc # "receive" /\ ~Executed'
    BY DEF Takes, DspKeeps, Awaiting, Sending, Between, Read, Written, ReadRep0, Spurious,
       Replying, Executed, Reading
  <1>3. CASE cmd[0].seq = 0
    <2>1. ~Awaiting /\ ~cmdNew[0] /\ d.lastSeq = NoSeq /\ cmd[0].op = "NONE"
      BY <1>3, AwaitingFacts, Numbers DEF Protocol, ServeInv, CommandInv, Takes
    <2>2. Spurious'
      BY <1>2, <1>3 DEF Spurious, Takes
    <2>3. CommandInv'
      BY <1>1, <1>2, <2>1 DEF Protocol, CommandInv, Takes, DspKeeps
    <2>4. ServeInv'
      BY <1>2, <1>3, <2>1, <2>2 DEF Protocol, ServeInv, Takes, DspKeeps
    <2>5. ~ReplyBefore /\ SameReply
      BY <2>1 DEF Protocol, ReplyInv
    <2>6. SameReply' /\ Read = 0 /\ ~ReplyBefore'
      <3>1. Read = 0
        BY <1>2, <2>5 DEF SameReply, Read
      <3>2. SameReply' /\ (ReplyBefore' <=> ReplyBefore)
        BY <1>2, <2>5 DEF SameReply, ReplyBefore, Takes
      <3> QED
        BY <2>5, <3>1, <3>2
    <2>7. ReplyInv'
      BY <1>2, <2>1, <2>5, <2>6 DEF Protocol, ReplyInv, Takes, DspKeeps
    <2>8. ResultInv'
      BY <1>2, ResultsStay, Numbers DEF Protocol, ResultInv, Takes, DspKeeps
    <2> QED
      BY <2>3, <2>4, <2>7, <2>8 DEF Kept
  <1>4. CASE cmd[0].seq # 0
    <2>1. Awaiting /\ cmdNew[0] /\ a.seq = cmd[0].seq /\ cmd[0] = SentWord /\ ~Executed
          /\ a.part = 0
      <3>1. cmdNew[0]
        BY <1>4 DEF Protocol, ServeInv, Takes
      <3>2. Awaiting
        BY <3>1 DEF Protocol, ServeInv
      <3>3. ~Executed
        BY <3>1 DEF Executed
      <3> QED
        BY <3>1, <3>2, <3>3, AwaitingFacts, Numbers DEF Protocol, CommandInv
    <2>2. ~Spurious'
      BY <1>2, <1>4 DEF Spurious, Takes
    <2>3. CommandInv'
      BY <1>1, <1>2, <2>1 DEF Protocol, CommandInv, Takes, DspKeeps
    <2>4. ServeInv'
      <3>1. d'.pc \in {"arg1", "execute"} /\ (ex = "benchmark" => d'.pc = "arg1")
        BY DEF Takes
      <3> QED
        BY <1>1, <1>2, <2>1, <2>2, <3>1 DEF Protocol, ServeInv, Takes, DspKeeps
    <2>5. (SameReply' <=> SameReply) /\ (ReplyBefore' <=> ReplyBefore)
      BY <1>2 DEF SameReply, ReplyBefore, Takes
    <2>6. ReplyBefore => SpuriousReply /\ SpuriousReply'
      <3>1. ~RightReply
        BY <2>1 DEF RightReply
      <3>2. ~Between
        BY <2>1 DEF Awaiting, Between
      <3> QED
        BY <1>2, <3>1, <3>2 DEF Protocol, ReplyInv, SpuriousReply
    <2>7. SameReply => Read = 0
      BY <1>2 DEF SameReply, Read
    <2>8. ReplyInv'
      <3>1. d'.lastSeq # NoSeq
        BY <1>4, Numbers DEF Takes, NoSeq
      <3>2. ~Awaited(rep[0])' <=> ~Awaited(rep[0])
        BY DEF Awaited, Takes, DspKeeps
      <3> QED
        BY <1>2, <2>2, <2>5, <2>6, <2>7, <3>1, <3>2 DEF Protocol, ReplyInv, Takes, DspKeeps
    <2>9. ResultInv'
      BY <1>2, ResultsStay, Numbers DEF Protocol, ResultInv, Takes, DspKeeps
    <2> QED
      BY <2>3, <2>4, <2>8, <2>9 DEF Kept
  <1> QED
    BY <1>3, <1>4

\* What the DSP replies to the command in progress is right.
LEMMA SeqValueRight ==
    ASSUME UsesSeq, Protocol, Replying, ~Spurious
    PROVE  RightValue(SeqValue, d.part)
  <1>1. d.cmd.op = Command.op /\ d.cmd.test = Command.test
    BY DEF Protocol, ServeInv, SentWord, Replying
  <1>2. Command.op = "RUN" => d.arg = <<Arg, Arg>>
    <2>1. CASE ex = "benchmark"
      BY <2>1 DEF Protocol, ServeInv, Replying
    <2>2. CASE ex # "benchmark"
      BY <2>2 DEF Protocol, ServeInv, Arg, Argument
    <2> QED
      BY <2>1, <2>2
  <1>3. /\ SeqValue.of = (IF d.part = 0 THEN Command.op ELSE "CYCLES")
        /\ SeqValue.test = Command.test /\ SeqValue.arg = ReplyArg
    BY <1>1, <1>2 DEF SeqValue, ReplyArg
  <1>4. IF Command.op = "INIT" THEN SeqValue.count = Tests
        ELSE IF Command.op = "STATS" THEN SeqValue.count <= d.repeated ELSE SeqValue.count = 0
    <2>1. CASE Command.op = "INIT"
      BY <1>1, <2>1 DEF SeqValue
    <2>2. CASE Command.op = "STATS"
      BY <1>1, <2>2, Numbers DEF SeqValue
    <2>3. CASE Command.op \notin {"INIT", "STATS"}
      BY <1>1, <2>3 DEF SeqValue
    <2> QED
      BY <2>1, <2>2, <2>3
  <1> QED
    BY <1>3, <1>4 DEF RightValue, ValueOf

\* The DSP reads the argument that belongs to the command it took.
LEMMA ReadsArgumentKeeps ==
    ASSUME ex' = ex, UsesSeq, Protocol, ReadsArgument PROVE Kept
  <1>1. /\ Command' = Command /\ Arg' = Arg /\ (Twice' <=> Twice) /\ ReplyArg' = ReplyArg
        /\ SentWord' = SentWord
    BY SameCommand DEF ReadsArgument, DspKeeps, SentWord
  <1>2. /\ (Awaiting' <=> Awaiting) /\ (Sending' <=> Sending) /\ (Between' <=> Between)
        /\ Read' = Read /\ Written = 0 /\ Written' = 0 /\ ReadRep0' = ReadRep0
        /\ (Spurious' <=> Spurious) /\ ~Replying /\ ~Replying' /\ ~Executed /\ ~Executed'
        /\ d.pc # "receive" /\ d'.pc # "receive"
    BY DEF ReadsArgument, DspKeeps, Awaiting, Sending, Between, Read, Written, ReadRep0, Spurious,
       Replying, Executed, Reading
  <1>3. CommandInv'
    BY <1>1, <1>2 DEF Protocol, CommandInv, ReadsArgument, DspKeeps
  <1>4. ServeInv'
    <2>1. ex = "benchmark"
      BY DEF Protocol, ServeInv, ReadsArgument
    <2>2. ~Spurious => cmd[1] = Arg /\ cmd[2] = Arg
      BY <1>2, <2>1 DEF Protocol, ServeInv, CommandInv
    <2>3. CASE d.pc = "arg1" /\ d'.pc = "arg2" /\ d'.arg[1] = cmd[1]
      BY <1>1, <1>2, <2>1, <2>2, <2>3 DEF Protocol, ServeInv, ReadsArgument, DspKeeps
    <2>4. CASE d.pc = "arg2" /\ d'.pc = "execute" /\ d'.arg = <<d.arg[1], cmd[2]>>
      <3>1. ~Spurious => d'.arg = <<Arg, Arg>>
        BY <1>2, <2>1, <2>2, <2>4 DEF Protocol, ServeInv
      <3> QED
        BY <1>1, <1>2, <2>1, <2>4, <3>1 DEF Protocol, ServeInv, ReadsArgument, DspKeeps
    <2> QED
      BY <2>3, <2>4 DEF ReadsArgument
  <1>5. ReplyInv'
    <2>1. (SameReply' <=> SameReply) /\ (ReplyBefore' <=> ReplyBefore)
      BY <1>2 DEF SameReply, ReplyBefore, ReadsArgument
    <2>2. ReplyBefore => SpuriousReply'
      BY <1>2 DEF Protocol, ReplyInv, SpuriousReply, RightReply, ReadsArgument, DspKeeps
    <2>3. SameReply => Read = 0
      BY <1>2 DEF SameReply, Read
    <2>4. ~Awaited(rep[0])' <=> ~Awaited(rep[0])
      BY DEF Awaited, ReadsArgument, DspKeeps
    <2> QED
      BY <1>2, <2>1, <2>2, <2>3, <2>4 DEF Protocol, ReplyInv, ReadsArgument, DspKeeps
  <1>6. ResultInv'
    BY <1>2, ResultsStay, Numbers DEF Protocol, ResultInv, ReadsArgument, DspKeeps
  <1> QED
    BY <1>3, <1>4, <1>5, <1>6 DEF Kept

\* The DSP executes the command it took.
LEMMA ExecutesKeeps ==
    ASSUME ex' = ex, UsesSeq, Protocol, Executes PROVE Kept
  <1>1. /\ Command' = Command /\ Arg' = Arg /\ (Twice' <=> Twice) /\ ReplyArg' = ReplyArg
        /\ SentWord' = SentWord
    BY SameCommand DEF Executes, DspKeeps, SentWord
  <1>2. /\ (Awaiting' <=> Awaiting) /\ (Sending' <=> Sending) /\ (Between' <=> Between)
        /\ Read' = Read /\ Written = 0 /\ Written' = 0 /\ ReadRep0' = ReadRep0
        /\ (Spurious' <=> Spurious) /\ ~Replying /\ Replying' /\ ~Executed /\ Reading
        /\ d.pc # "receive" /\ d'.pc # "receive"
    BY DEF Executes, DspKeeps, apbpVars, Awaiting, Sending, Between, Read, Written, ReadRep0,
       Spurious, Replying, Executed, Reading
  <1>3. Awaiting => a.part = 0
    BY <1>2, Numbers DEF Protocol, CommandInv
  <1>4. CommandInv'
    BY <1>1, <1>2, <1>3 DEF Protocol, CommandInv, Executes, DspKeeps, apbpVars
  <1>5. ServeInv'
    <2>1. ~Spurious /\ Command.op # "LOAD" => d'.status = "OK"
      <3>1. SUFFICES ASSUME ~Spurious, Command.op # "LOAD" PROVE Known(d.cmd) /\ d.cmd.op # "LOAD"
        BY DEF Executes
      <3>2. d.cmd.op = Command.op /\ d.cmd.test = Command.test
        BY <1>2, <3>1 DEF Protocol, ServeInv, SentWord
      <3> QED
        BY <3>1, <3>2, CommandFacts, Numbers DEF Known
    <2>2. ~Spurious => RightStatus(d.status)'
      BY <1>1, <2>1 DEF RightStatus
    <2> QED
      BY <1>1, <1>2, <2>2 DEF Protocol, ServeInv, Executes, DspKeeps, apbpVars
  <1>6. ReplyInv'
    <2>1. (SameReply' <=> SameReply) /\ (ReplyBefore' <=> ReplyBefore)
      BY <1>2 DEF SameReply, ReplyBefore, Executes, apbpVars
    <2>2. ~Spurious => Awaiting
      BY <1>2 DEF Protocol, ServeInv
    <2>3. Executed' => Awaiting
      BY <1>2 DEF Executed
    <2>4. ReplyBefore => SpuriousReply'
      BY <1>2, <1>3, <2>3 DEF Protocol, ReplyInv, SpuriousReply, RightReply, Executes, DspKeeps,
         apbpVars
    <2>5. SameReply => Read = 0
      BY <1>2 DEF SameReply, Read
    <2>6. ~Awaited(rep[0])' <=> ~Awaited(rep[0])
      BY DEF Awaited, Executes, DspKeeps, apbpVars
    <2> QED
      BY <1>2, <1>3, <2>1, <2>2, <2>4, <2>5, <2>6
         DEF Protocol, ReplyInv, Executes, DspKeeps, apbpVars
  <1>7. ResultInv'
    BY <1>2, ResultsStay, Numbers DEF Protocol, ResultInv, Executes, DspKeeps
  <1> QED
    BY <1>4, <1>5, <1>6, <1>7 DEF Kept

\* REP0 of a reply that the DSP writes while the ARM9 awaits none is that of the
\* command it saw before the first one.
LEMMA UnawaitedWrites ==
    ASSUME UsesSeq, Protocol, Replying
    PROVE  /\ Between => WrittenRep0.seq = a.seq
           /\ Sending => WrittenRep0.seq # a.seq
  <1>1. ~Awaiting => d.cmd.seq = 0 /\ cmd[0].seq = 0
    BY DEF Protocol, ServeInv, Spurious, Replying
  <1>2. ~(Between /\ Awaiting) /\ ~(Sending /\ Awaiting) /\ ~(Between /\ Sending)
    BY DEF Between, Awaiting, Sending
  <1>3. Between => WrittenRep0.seq = a.seq
    BY <1>1, <1>2 DEF Protocol, CommandInv, WrittenRep0
  <1>4. Sending => WrittenRep0.seq # a.seq
    BY <1>1, <1>2, Numbers, NextSeqDiffers DEF Protocol, CommandInv, WrittenRep0
  <1> QED
    BY <1>3, <1>4

\* The DSP writes REP0, once the ARM9 has read it.
LEMMA Writes0Keeps ==
    ASSUME ex' = ex, UsesSeq, Protocol, Writes0 PROVE Kept
  <1>1. /\ Command' = Command /\ Arg' = Arg /\ (Twice' <=> Twice) /\ ReplyArg' = ReplyArg
        /\ SentWord' = SentWord
    BY SameCommand DEF Writes0, DspKeeps, SentWord
  <1>2. /\ (Awaiting' <=> Awaiting) /\ (Sending' <=> Sending) /\ (Between' <=> Between)
        /\ Read' = Read /\ Written = 0 /\ Written' = 1 /\ Read \in {0, 1, 2}
        /\ (Spurious' <=> Spurious) /\ Replying /\ Replying' /\ (Executed' <=> Executed)
        /\ d.pc # "receive" /\ d'.pc # "receive" /\ WrittenRep0' = WrittenRep0
    BY DEF Writes0, DspKeeps, Awaiting, Sending, Between, Read, Written,
       Spurious, Replying, Executed, Reading, WrittenRep0
  <1>3. CommandInv'
    BY <1>1, <1>2 DEF Protocol, CommandInv, Writes0, DspKeeps
  <1>4. ServeInv'
    BY <1>1, <1>2 DEF Protocol, ServeInv, Writes0, DspKeeps, RightStatus
  <1>5. ReplyInv'
    <2>1. /\ repUnread'[0] /\ repUnread'[1] = repUnread[1] /\ repUnread'[2] = repUnread[2]
          /\ ~repUnread[0] /\ Channels = {0, 1, 2}
      BY DEF Writes0, Protocol, MailType, Channels
    <2>2. (Between' => rep'[0].seq = a'.seq) /\ (Sending' => rep'[0].seq # a'.seq)
      BY <1>2, UnawaitedWrites DEF Writes0, DspKeeps
    <2>3. CASE SameReply
      <3>1. Read = 0 /\ SameReply' /\ ~ReplyBefore'
        BY <1>2, <2>1, <2>3 DEF SameReply, ReplyBefore
      <3> QED
        BY <1>2, <2>2, <2>3, <3>1 DEF Protocol, ReplyInv, Writes0, DspKeeps
    <2>4. CASE ReplyBefore
      <3>1. Read >= 1 /\ ReplyBefore' /\ ~SameReply'
        BY <1>2, <2>1, <2>4 DEF SameReply, ReplyBefore
      <3>2. ReadRep0' = ReadRep0
        BY <1>2, <3>1 DEF ReadRep0, Writes0, DspKeeps
      <3>3. SpuriousReply => SpuriousReply'
        BY <1>2, <3>2 DEF SpuriousReply, Writes0, DspKeeps
      <3>4. RightReply => RightReply'
        BY <1>1, <1>2, <3>2 DEF RightReply, RightStatus, RightValue, Writes0, DspKeeps
      <3> QED
        BY <1>2, <2>2, <2>4, <3>1, <3>3, <3>4 DEF Protocol, ReplyInv, Writes0, DspKeeps
    <2> QED
      BY <2>3, <2>4 DEF Protocol, ReplyInv
  <1>6. ResultInv'
    BY <1>2, ResultsStay, Numbers DEF Protocol, ResultInv, Writes0, DspKeeps
  <1> QED
    BY <1>3, <1>4, <1>5, <1>6 DEF Kept

\* The DSP writes REP1, once the ARM9 has read it.
LEMMA Writes1Keeps ==
    ASSUME ex' = ex, UsesSeq, Protocol, Writes1 PROVE Kept
  <1>1. /\ Command' = Command /\ Arg' = Arg /\ (Twice' <=> Twice) /\ ReplyArg' = ReplyArg
        /\ SentWord' = SentWord
    BY SameCommand DEF Writes1, DspKeeps, SentWord
  <1>2. /\ (Awaiting' <=> Awaiting) /\ (Sending' <=> Sending) /\ (Between' <=> Between)
        /\ Read' = Read /\ Written = 1 /\ Written' = 2 /\ Read \in {0, 1, 2}
        /\ (Spurious' <=> Spurious) /\ Replying /\ Replying' /\ (Executed' <=> Executed)
        /\ d.pc # "receive" /\ d'.pc # "receive" /\ WrittenRep0' = WrittenRep0
        /\ ReadRep0' = ReadRep0 /\ SeqValue' = SeqValue
    BY DEF Writes1, DspKeeps, Awaiting, Sending, Between, Read, Written,
       Spurious, Replying, Executed, Reading, WrittenRep0, ReadRep0, SeqValue
  <1>3. CommandInv'
    BY <1>1, <1>2 DEF Protocol, CommandInv, Writes1, DspKeeps
  <1>4. ServeInv'
    BY <1>1, <1>2 DEF Protocol, ServeInv, Writes1, DspKeeps, RightStatus
  <1>5. ReplyInv'
    <2>1. /\ repUnread'[1] /\ repUnread'[0] = repUnread[0] /\ repUnread'[2] = repUnread[2]
          /\ ~repUnread[1] /\ Channels = {0, 1, 2}
      BY DEF Writes1, Protocol, MailType, Channels
    <2>2. CASE SameReply
      <3>1. Read <= 1 /\ SameReply' /\ ~ReplyBefore'
        BY <1>2, <2>1, <2>2 DEF SameReply, ReplyBefore
      <3> QED
        BY <1>2, <2>2, <3>1 DEF Protocol, ReplyInv, Writes1, DspKeeps
    <2>3. CASE ReplyBefore
      <3>1. Read = 2 /\ ReplyBefore' /\ ~SameReply'
        BY <1>2, <2>1, <2>3 DEF SameReply, ReplyBefore
      <3>2. SpuriousReply => SpuriousReply'
        BY <1>2 DEF SpuriousReply, Writes1, DspKeeps
      <3>3. RightReply => RightReply'
        BY <1>1, <1>2 DEF RightReply, RightStatus, RightValue, Writes1, DspKeeps
      <3> QED
        BY <1>2, <2>3, <3>1, <3>2, <3>3 DEF Protocol, ReplyInv, Writes1, DspKeeps
    <2> QED
      BY <2>2, <2>3 DEF Protocol, ReplyInv
  <1>6. ResultInv'
    BY <1>2, ResultsStay, Numbers DEF Protocol, ResultInv, Writes1, DspKeeps
  <1> QED
    BY <1>3, <1>4, <1>5, <1>6 DEF Kept

\* With REP2 a reply is complete.
LEMMA Writes2Keeps ==
    ASSUME ex' = ex, UsesSeq, Protocol, Writes2 PROVE Kept
  <1>1. /\ Command' = Command /\ Arg' = Arg /\ (Twice' <=> Twice) /\ ReplyArg' = ReplyArg
        /\ SentWord' = SentWord
    BY SameCommand DEF Writes2, DspKeeps, SentWord
  <1>2. /\ (Awaiting' <=> Awaiting) /\ (Sending' <=> Sending) /\ (Between' <=> Between)
        /\ Read' = Read /\ Written = 2 /\ Written' = 0 /\ Read \in {0, 1, 2}
        /\ ReadRep0' = ReadRep0 /\ Replying /\ ~Reading /\ ~Reading'
        /\ d.pc # "receive" /\ d'.pc \in {"rep0", "receive"}
    BY DEF Writes2, DspKeeps, Awaiting, Sending, Between, Read, Written, Replying, Reading, ReadRep0
  <1>3. ~Spurious' /\ (Spurious => d'.pc = "receive")
    <2>1. Spurious => ~HasSecond(d.cmd.op)
      BY DEF Protocol, ServeInv, HasSecond
    <2>2. CASE Spurious
      BY <2>1, <2>2 DEF Writes2, Spurious
    <2>3. CASE ~Spurious
      BY <1>2, <2>3 DEF Writes2, Spurious
    <2> QED
      BY <2>2, <2>3
  <1>4. ~Spurious => /\ Awaiting /\ ~cmdNew[0] /\ d.lastSeq = a.seq /\ d.cmd = SentWord
                     /\ (HasSecond(d.cmd.op) <=> Twice)
    BY <1>2 DEF Protocol, ServeInv, SentWord, Twice
  <1>5. CommandInv'
    <2>1. a.part = 1 /\ Awaiting => Executed'
      BY <1>2, <1>3 DEF Protocol, CommandInv, Executed, Writes2, DspKeeps
    <2> QED
      BY <1>1, <1>2, <2>1 DEF Protocol, CommandInv, Writes2, DspKeeps
  <1>6. ServeInv'
    <2>1. CASE Spurious
      BY <1>1, <1>2, <1>3, <2>1 DEF Protocol, ServeInv, Writes2, DspKeeps
    <2>2. CASE ~Spurious
      BY <1>1, <1>2, <1>3, <1>4, <2>2, AwaitingFacts
         DEF Protocol, ServeInv, Writes2, DspKeeps, RightStatus
    <2> QED
      BY <2>1, <2>2
  <1>7. ReplyInv'
    <2>1. /\ repUnread'[2] /\ repUnread'[0] = repUnread[0] /\ repUnread'[1] = repUnread[1]
          /\ ~repUnread[2] /\ Channels = {0, 1, 2}
      BY DEF Writes2, Protocol, MailType, Channels
    <2>2. SameReply /\ ReplyBefore' /\ ~SameReply'
      BY <1>2, <2>1 DEF Protocol, ReplyInv, SameReply, ReplyBefore
    <2>3. ReadRep0 = WrittenRep0 /\ rep[0] = WrittenRep0 /\ rep[1] = SeqValue
          /\ (Read = 2 => a.high = SeqValue)
      BY <1>2, <2>2 DEF Protocol, ReplyInv, ReadRep0
    <2>4. d'.lastSeq # NoSeq
      BY <1>4, Numbers DEF Protocol, ServeInv, Writes2, NoSeq
    <2>5. rep'[0] = ReadRep0'
      BY <1>2, <2>3 DEF Writes2
    <2>6. CASE Spurious
      <3>1. ReadRep0'.seq = 0 /\ (Between => cmd[0].seq = 0) /\ ~Executed'
        BY <1>2, <2>3, <2>6 DEF Spurious, WrittenRep0, Protocol, ServeInv, Executed, Between,
           Awaiting, Writes2, DspKeeps
      <3>2. SpuriousReply'
        BY <1>2, <3>1 DEF SpuriousReply, Writes2, DspKeeps
      <3> QED
        BY <1>2, <1>3, <2>2, <2>4, <2>5, <3>2 DEF Protocol, ReplyInv, Writes2, DspKeeps
    <2>7. CASE ~Spurious
      <3>1. Executed'
        BY <1>2, <1>3, <1>4, <2>7 DEF Executed, Writes2
      <3>2. d.part = a.part
        BY <1>2, <2>2, <2>7 DEF Protocol, ReplyInv
      <3>3. RightValue(SeqValue, a.part) /\ RightStatus(d.status)
        BY <1>2, <2>7, <3>2, SeqValueRight DEF Protocol, ServeInv
      <3>4. RightReply'
        <4>1. ReadRep0'.seq = a'.seq /\ ReadRep0'.part = a'.part /\ ReadRep0'.status = d.status
          BY <1>2, <1>4, <2>3, <2>7, <3>2 DEF WrittenRep0, SentWord, Writes2, DspKeeps
        <4>2. RightValue(rep[1], a.part)' /\ RightValue(rep[2], a.part)'
              /\ (Read = 2 => RightValue(a.high, a.part)')
          BY <1>1, <2>3, <3>3 DEF RightValue, Writes2, DspKeeps
        <4>3. (Replying' => d'.part = 1 /\ a'.part = 0)
              /\ (d'.pc = "receive" => (Twice' => a'.part = 1))
          <5>1. d.part \in {0, 1} /\ a'.part = d.part
            BY <3>2, Numbers DEF Writes2, DspKeeps
          <5>2. CASE Twice /\ d.part = 0
            BY <1>4, <2>7, <5>1, <5>2 DEF Writes2, Replying
          <5>3. CASE ~(Twice /\ d.part = 0)
            BY <1>1, <1>4, <2>7, <5>1, <5>3 DEF Writes2, Replying
          <5> QED
            BY <5>2, <5>3
        <4>4. RightStatus(ReadRep0.status)'
          BY <1>1, <3>3, <4>1 DEF RightStatus
        <4> QED
          BY <1>2, <3>1, <4>1, <4>2, <4>3, <4>4 DEF RightReply
      <3> QED
        BY <1>2, <1>3, <1>4, <2>2, <2>4, <2>5, <2>7, <3>4 DEF Protocol, ReplyInv, Writes2, DspKeeps
    <2> QED
      BY <2>6, <2>7
  <1>8. ResultInv'
    BY <1>2, ResultsStay, Numbers DEF Protocol, ResultInv, Writes2, DspKeeps
  <1> QED
    BY <1>5, <1>6, <1>7, <1>8 DEF Kept

\* What reading the last register of a reply, or one that isn't new, does.
Takes2 ==
    /\ a.pc = "rep2" /\ repUnread[2] /\ repUnread' = [repUnread EXCEPT ![2] = FALSE]
    /\ cmd' = cmd /\ cmdNew' = cmdNew /\ rep' = rep /\ d' = d
Got ==
    IF Command.op = "RUN" /\ a.part = 0
    THEN [a.results EXCEPT ![Command.test] = [status |-> a.rep0.status, value |-> <<a.high, rep[2]>>]]
    ELSE a.results
SkipsOld ==
    /\ ArmKeeps /\ a.pc = "rep0" /\ a'.pc = "rep0" /\ a'.seq = a.seq /\ a'.part = a.part
    /\ UNCHANGED apbpVars
Skips2 ==
    /\ ArmKeeps /\ Takes2 /\ ~Awaited(a.rep0)
    /\ a'.pc = "rep0" /\ a'.seq = a.seq /\ a'.part = a.part
TakesFirst ==
    /\ Takes2 /\ Awaited(a.rep0) /\ Twice /\ a.part = 0
    /\ a'.pc = "rep0" /\ a'.part = 1 /\ a'.at = a.at /\ a'.seq = a.seq /\ a'.runs = a.runs
    /\ a'.count = a.count /\ a'.results = Got
TakesLast ==
    /\ Takes2 /\ Awaited(a.rep0) /\ ~(Twice /\ a.part = 0)
    /\ a'.pc = (IF a.at = Tests + 2 THEN "show" ELSE "prepare")
    /\ a'.at = (IF a.at = Tests + 2 THEN a.at ELSE a.at + 1)
    /\ a'.part = a.part /\ a'.seq = a.seq /\ a'.runs = a.runs
    /\ a'.count = (IF Command.op = "STATS" THEN a.high.count ELSE a.count)
    /\ a'.results = Got

\* The last register of a reply that is read completes a reply; it is the one
\* that is awaited unless it belongs to the spurious command.
LEMMA ReadCompletes ==
    ASSUME Protocol, a.pc = "rep2", repUnread[2]
    PROVE  /\ ReplyBefore /\ Read = 2 /\ Awaiting /\ ReadRep0 = a.rep0
           /\ ~Spurious /\ a.seq > 0
           /\ Awaited(a.rep0) => RightReply
           /\ ~Awaited(a.rep0) => SpuriousReply
  <1>1. Read = 2 /\ Awaiting /\ ReadRep0 = a.rep0
    BY DEF Read, Awaiting, ReadRep0
  <1>2. ReplyBefore
    <2>1. ~SameReply
      <3>1. 2 \in Channels /\ ~(2 < Written)
        BY DEF Channels, Written
      <3> QED
        BY <1>1, <3>1 DEF SameReply
    <2> QED
      BY <2>1 DEF Protocol, ReplyInv
  <1>3. SpuriousReply => ~Awaited(a.rep0)
    BY <1>1, AwaitingFacts, Numbers DEF SpuriousReply, Awaited
  <1>4. RightReply => Awaited(a.rep0)
    BY <1>1 DEF RightReply, Awaited
  <1> QED
    BY <1>1, <1>2, <1>3, <1>4, AwaitingFacts DEF Protocol, ReplyInv

\* What is right for a RUN is one value.
LEMMA RightRunValue ==
    ASSUME UsesSeq, Protocol, Command.op = "RUN", a.part = 0, NEW v \in SeqValues, RightValue(v, a.part)
    PROVE  v = [of |-> "RUN", test |-> Command.test, count |-> 0,
                arg |-> <<Argument("RUN"), Argument("RUN")>>]
  <1>1. /\ v.of = "RUN" /\ v.test = Command.test /\ v.count = 0
        /\ v.arg = <<Argument("RUN"), Argument("RUN")>>
    BY DEF RightValue, ValueOf, ReplyArg, Arg
  <1>2. v = [of |-> v.of, test |-> v.test, arg |-> v.arg, count |-> v.count]
    BY DEF SeqValues
  <1> QED
    BY <1>1, <1>2

\* With the reply to a RUN, the result of its test gets right, and no other
\* result gets wrong.
LEMMA GotRight ==
    ASSUME ex' = ex, UsesSeq, Protocol, Takes2, Awaited(a.rep0), a'.results = Got,
           NEW t \in 1 .. Tests,
           RightResult(t) \/ (a.at = t + 1 /\ a.part = 0)
    PROVE  RightResult(t)'
  <1>1. Argument("RUN")' = Argument("RUN")
    BY DEF Argument
  <1>2. CASE Command.op = "RUN" /\ a.part = 0
    <2>1. RightReply /\ Read = 2 /\ ReadRep0 = a.rep0
      BY ReadCompletes DEF Takes2
    <2>2. a.rep0.status = "OK" /\ RightValue(a.high, a.part) /\ RightValue(rep[2], a.part)
      BY <1>2, <2>1 DEF RightReply, RightStatus
    <2>3. a.high \in SeqValues /\ rep[2] \in SeqValues
      BY DEF Protocol, MailType, ArmType
    <2>4. Command.test = a.at - 1 /\ Command.test \in 1 .. Tests
      BY <1>2, CommandFacts, Numbers
    <2>5. a.results \in [1 .. Tests -> Results]
      BY DEF Protocol, ArmType
    <2> DEFINE right == [of |-> "RUN", test |-> Command.test, count |-> 0,
                         arg |-> <<Argument("RUN"), Argument("RUN")>>]
    <2>6. a.high = right /\ rep[2] = right
      BY <1>2, <2>2, <2>3, RightRunValue
    <2>7. a'.results = [a.results EXCEPT ![Command.test] =
                                          [status |-> "OK", value |-> <<right, right>>]]
      BY <1>2, <2>2, <2>6 DEF Got
    <2> HIDE DEF right
    <2>8. a'.results[t] = IF t = Command.test THEN [status |-> "OK", value |-> <<right, right>>]
                          ELSE a.results[t]
      BY <2>5, <2>7
    <2>9. CASE t = Command.test
      BY <1>1, <2>8, <2>9 DEF RightResult, right
    <2>10. CASE t # Command.test
      <3>1. RightResult(t)
        BY <2>4, <2>10, Numbers
      <3> QED
        BY <1>1, <2>8, <2>10, <3>1 DEF RightResult
    <2> QED
      BY <2>9, <2>10
  <1>3. CASE ~(Command.op = "RUN" /\ a.part = 0)
    <2>1. a.at = t + 1 => Command.op = "RUN"
      BY CommandFacts, Numbers
    <2>2. RightResult(t)
      BY <1>3, <2>1
    <2>3. a'.results = a.results
      BY <1>3 DEF Got
    <2> QED
      BY <2>2, <2>3, ResultsStay
  <1> QED
    BY <1>2, <1>3

\* ReadWords, for the last register.
LEMMA TakeEffect ==
    ASSUME UsesSeq, Protocol, d' = d, a.pc = "rep2", dspReceiveData(2),
           TakeReply(a.rep0, <<a.high, rep[2]>>)
    PROVE  (Skips2 \/ TakesFirst \/ TakesLast) /\ MailType' /\ ArmType' /\ DspType'
  <1>1. Takes2 /\ MailType' /\ DspType'
    BY DEF dspReceiveData, Takes2, Protocol, MailType, DspType, Channels
  <1>2. MailType /\ ArmType /\ a.at \in 1 .. Tests + 2 /\ Tests \in Nat /\ a.stale \in Nat
    BY Numbers DEF Protocol, ArmType
  <1>3. /\ Len(Script) = Tests + 2 /\ Script[a.at] = Command /\ (HasSecond(Command.op) <=> Twice)
    BY ScriptFacts DEF Command, Twice
  <1>4. Got \in [1 .. Tests -> Results]
    <2>1. a.results \in [1 .. Tests -> Results]
      BY DEF Protocol, ArmType
    <2>2. a.rep0.status \in SeqStatuses /\ <<a.high, rep[2]>> \in SeqValues \X SeqValues
      BY DEF Protocol, ArmType, MailType, SeqReps
    <2>3. [status |-> a.rep0.status, value |-> <<a.high, rep[2]>>] \in Results
      BY <2>2 DEF Results
    <2> QED
      BY <2>1, <2>3 DEF Got
  <1>5. CASE ~Awaited(a.rep0)
    <2>1. a' = [a EXCEPT !.stale = a.stale + 1, !.pc = "rep0"]
      BY <1>5 DEF TakeReply
    <2>2. ArmType'
      <3>1. ArmType /\ a.stale + 1 \in Nat
        BY <1>2
      <3> QED
        BY <2>1, <3>1 DEF ArmType
    <2>3. Skips2
      BY <1>1, <1>2, <1>5, <2>1 DEF Skips2, ArmKeeps, Takes2, ArmType
    <2> QED
      BY <1>1, <2>2, <2>3
  <1>6. CASE Awaited(a.rep0) /\ Twice /\ a.part = 0
    <2>1. a' = [a EXCEPT !.results = Got, !.part = 1, !.pc = "rep0"]
      BY <1>3, <1>6 DEF TakeReply, Got
    <2>2. ArmType'
      BY <1>2, <1>4, <2>1 DEF ArmType
    <2>3. TakesFirst
      BY <1>1, <1>2, <1>6, <2>1 DEF TakesFirst, ArmType
    <2> QED
      BY <1>1, <2>2, <2>3
  <1>7. CASE Awaited(a.rep0) /\ ~(Twice /\ a.part = 0)
    <2> DEFINE after == IF a.at = Tests + 2 THEN "show" ELSE "prepare"
               count == IF Command.op = "STATS" THEN a.high.count ELSE a.count
               at == IF a.at = Tests + 2 THEN a.at ELSE a.at + 1
    <2>1. AfterReply(a.rep0.status, <<a.high, rep[2]>>) = after
      <3>1. RightReply /\ Read = 2 /\ ReadRep0 = a.rep0
        BY <1>1, <1>7, ReadCompletes DEF Takes2
      <3>2. Command.op = "INIT" => a.rep0.status = "OK" /\ a.high.count = Tests
        BY <3>1 DEF RightReply, RightStatus, RightValue, ValueOf
      <3> QED
        BY <1>3, <3>2 DEF AfterReply
    <2>2. a' = [a EXCEPT !.results = Got, !.pc = after, !.count = count, !.at = at]
      <3>1. a' = [a EXCEPT !.results = Got, !.pc = AfterReply(a.rep0.status, <<a.high, rep[2]>>),
                           !.count = IF Command.op = "STATS" THEN a.high.count ELSE a.count,
                           !.at = IF a.at = Len(Script) THEN a.at ELSE a.at + 1]
        BY <1>3, <1>7 DEF TakeReply, Got
      <3> QED
        BY <1>3, <2>1, <3>1
    <2>3. after \in {"show", "prepare"} /\ count \in Nat /\ at \in 1 .. Tests + 2
      <3>1. a.high.count \in Nat /\ a.count \in Nat
        BY DEF Protocol, ArmType, SeqValues
      <3> QED
        BY <1>2, <3>1
    <2>4. ArmType'
      <3> HIDE DEF after, count, at
      <3> QED
        BY <1>2, <1>4, <2>2, <2>3 DEF ArmType
    <2>5. TakesLast
      <3>1. /\ a'.results = Got /\ a'.pc = after /\ a'.count = count /\ a'.at = at
            /\ a'.part = a.part /\ a'.seq = a.seq /\ a'.runs = a.runs
        <4> HIDE DEF after, count, at
        <4> QED
          BY <1>2, <2>2 DEF ArmType
      <3> QED
        BY <1>1, <1>7, <3>1 DEF TakesLast
    <2> QED
      BY <1>1, <2>4, <2>5
  <1> QED
    BY <1>5, <1>6, <1>7

\* A reply that isn't new is never the one that is awaited.
LEMMA ReadOldEffect ==
    ASSUME UsesSeq, Protocol, ReadOldWords
    PROVE  SkipsOld /\ MailType' /\ ArmType' /\ DspType'
  <1>1. a.pc = "rep0" /\ Read = 0 /\ Awaiting /\ d' = d /\ UNCHANGED apbpVars
        /\ ~repUnread[0] /\ ~repUnread[2]
    BY DEF ReadOldWords, Read, Awaiting, Channels
  <1>2. ~Awaited(rep[0])
    <2>1. 0 \in Channels /\ 2 \in Channels /\ Written \in {0, 1, 2}
      BY DEF Channels, Written
    <2>2. ~ReplyBefore
      BY <1>1, <2>1 DEF ReplyBefore
    <2>3. SameReply
      BY <2>2 DEF Protocol, ReplyInv
    <2>4. Written = 0
      BY <1>1, <2>1, <2>3 DEF SameReply
    <2> QED
      BY <1>1, <2>3, <2>4 DEF Protocol, ReplyInv
  <1>3. a' = [a EXCEPT !.stale = a.stale + 1, !.pc = "rep0"]
    BY <1>2 DEF ReadOldWords, TakeReply
  <1>4. ArmType'
    <2>1. a.stale + 1 \in Nat
      BY DEF Protocol, ArmType
    <2> QED
      BY <1>3, <2>1 DEF Protocol, ArmType
  <1>5. SkipsOld
    BY <1>1, <1>3 DEF SkipsOld, ArmKeeps, Protocol, ArmType, apbpVars
  <1> QED
    BY <1>1, <1>4, <1>5 DEF Protocol, MailType, DspType, apbpVars

\* An old reply changes nothing but the count of such replies.
LEMMA SkipsOldKeeps ==
    ASSUME ex' = ex, UsesSeq, Protocol, SkipsOld PROVE Kept
  <1>1. /\ Command' = Command /\ Arg' = Arg /\ (Twice' <=> Twice) /\ ReplyArg' = ReplyArg
        /\ SentWord' = SentWord
    BY SameCommand DEF SkipsOld, ArmKeeps, SentWord
  <1>2. /\ Awaiting /\ Awaiting' /\ ~Between /\ ~Between' /\ ~Sending /\ ~Sending'
        /\ Read = 0 /\ Read' = 0 /\ Written' = Written /\ ReadRep0' = ReadRep0
        /\ (Executed' <=> Executed) /\ (Spurious' <=> Spurious) /\ (Replying' <=> Replying)
        /\ WrittenRep0' = WrittenRep0 /\ SeqValue' = SeqValue
    BY DEF SkipsOld, ArmKeeps, apbpVars, Between, Awaiting, Sending, Read, Written, ReadRep0,
       Executed, Spurious, Replying, Reading, WrittenRep0, SeqValue
  <1>3. CommandInv'
    BY <1>1, <1>2 DEF Protocol, CommandInv, SkipsOld, ArmKeeps, apbpVars
  <1>4. ServeInv'
    BY <1>1, <1>2 DEF Protocol, ServeInv, SkipsOld, ArmKeeps, apbpVars, RightStatus
  <1>5. ReplyInv'
    <2>1. (SameReply' <=> SameReply) /\ (ReplyBefore' <=> ReplyBefore)
      BY <1>2 DEF SameReply, ReplyBefore, SkipsOld, apbpVars
    <2>2. SpuriousReply' <=> SpuriousReply
      BY <1>2 DEF SpuriousReply, SkipsOld, ArmKeeps, apbpVars
    <2>3. RightReply' <=> RightReply
      BY <1>1, <1>2 DEF RightReply, RightStatus, RightValue, SkipsOld, ArmKeeps, apbpVars
    <2>4. ~Awaited(rep[0])' <=> ~Awaited(rep[0])
      BY DEF Awaited, SkipsOld, ArmKeeps, apbpVars
    <2> QED
      BY <1>2, <2>1, <2>2, <2>3, <2>4 DEF Protocol, ReplyInv, SkipsOld, ArmKeeps, apbpVars
  <1>6. ResultInv'
    BY <1>2, ResultsStay, Numbers DEF Protocol, ResultInv, SkipsOld, ArmKeeps
  <1> QED
    BY <1>3, <1>4, <1>5, <1>6 DEF Kept

\* After the last register of a reply, the ARM9 reads the one that the DSP is
\* writing.
LEMMA ReadsNext ==
    ASSUME ex' = ex, UsesSeq, Protocol, Takes2,
           a'.pc \in {"rep0", "prepare", "show"}
    PROVE  /\ Read' = 0 /\ Written' = Written /\ SameReply' /\ ~ReplyBefore'
           /\ (Spurious' <=> Spurious) /\ (Replying' <=> Replying) /\ (Reading' <=> Reading)
           /\ WrittenRep0' = WrittenRep0 /\ SeqValue' = SeqValue
           /\ ~Sending /\ ~Sending'
  <1>1. /\ Read' = 0 /\ Written' = Written /\ (Spurious' <=> Spurious) /\ (Replying' <=> Replying)
        /\ (Reading' <=> Reading) /\ WrittenRep0' = WrittenRep0 /\ SeqValue' = SeqValue
        /\ ~Sending /\ ~Sending' /\ Written \in {0, 1, 2}
    BY DEF Takes2, Read, Written, Spurious, Replying, Reading, WrittenRep0, SeqValue, Sending
  <1>2. ReplyBefore /\ Read = 2
    BY ReadCompletes DEF Takes2
  <1>3. /\ ~repUnread'[2] /\ repUnread'[0] = repUnread[0] /\ repUnread'[1] = repUnread[1]
        /\ Channels = {0, 1, 2}
    BY DEF Takes2, Protocol, MailType, Channels
  <1>4. SameReply' /\ ~ReplyBefore'
    BY <1>1, <1>2, <1>3 DEF SameReply, ReplyBefore
  <1> QED
    BY <1>1, <1>4

\* The reply to the spurious command is ignored.
LEMMA Skips2Keeps ==
    ASSUME ex' = ex, UsesSeq, Protocol, Skips2 PROVE Kept
  <1>1. /\ Command' = Command /\ Arg' = Arg /\ (Twice' <=> Twice) /\ ReplyArg' = ReplyArg
        /\ SentWord' = SentWord
    BY SameCommand DEF Skips2, ArmKeeps, SentWord
  <1>2. /\ ReplyBefore /\ Awaiting /\ ReadRep0 = a.rep0 /\ ~Spurious /\ SpuriousReply
    BY ReadCompletes DEF Skips2, Takes2
  <1>3. /\ Read' = 0 /\ Written' = Written /\ SameReply' /\ ~ReplyBefore'
        /\ (Spurious' <=> Spurious) /\ (Replying' <=> Replying) /\ (Reading' <=> Reading)
        /\ WrittenRep0' = WrittenRep0 /\ SeqValue' = SeqValue /\ ~Sending /\ ~Sending'
    BY ReadsNext DEF Skips2
  <1>4. Awaiting' /\ ~Between' /\ (Executed' <=> Executed)
    BY <1>2, <1>3 DEF Skips2, Takes2, Awaiting, Between, Executed
  <1>5. CommandInv'
    BY <1>1, <1>2, <1>3, <1>4 DEF Protocol, CommandInv, Skips2, ArmKeeps, Takes2
  <1>6. ServeInv'
    BY <1>1, <1>2, <1>3, <1>4 DEF Protocol, ServeInv, Skips2, ArmKeeps, Takes2, RightStatus
  <1>7. ReplyInv'
    <2>1. Replying => Executed
      BY <1>2 DEF Protocol, ServeInv, Replying, Reading, Executed
    <2>2. Written = 0 => ~Awaited(rep[0])'
      BY <1>2 DEF Protocol, ReplyInv, Awaited, Skips2, ArmKeeps
    <2> QED
      BY <1>2, <1>3, <1>4, <2>1, <2>2 DEF Protocol, ReplyInv, SpuriousReply, Skips2, ArmKeeps
  <1>8. ResultInv'
    BY <1>2, <1>4, ResultsStay, Numbers DEF Protocol, ResultInv, Skips2, ArmKeeps
  <1> QED
    BY <1>5, <1>6, <1>7, <1>8 DEF Kept

\* The first reply to a RUN of benchmark leaves the second one to wait for.
LEMMA TakesFirstKeeps ==
    ASSUME ex' = ex, UsesSeq, Protocol, TakesFirst PROVE Kept
  <1>1. /\ Command' = Command /\ Arg' = Arg /\ (Twice' <=> Twice) /\ ReplyArg' = ReplyArg
        /\ SentWord' = SentWord
    BY SameCommand DEF TakesFirst, SentWord
  <1>2. /\ ReplyBefore /\ Awaiting /\ ReadRep0 = a.rep0 /\ ~Spurious /\ RightReply
    BY ReadCompletes DEF TakesFirst, Takes2
  <1>3. /\ Read' = 0 /\ Written' = Written /\ SameReply' /\ ~ReplyBefore'
        /\ (Spurious' <=> Spurious) /\ (Replying' <=> Replying) /\ (Reading' <=> Reading)
        /\ WrittenRep0' = WrittenRep0 /\ SeqValue' = SeqValue /\ ~Sending /\ ~Sending'
    BY ReadsNext DEF TakesFirst
  <1>4. Awaiting' /\ ~Between' /\ Executed /\ Executed'
    BY <1>2, <1>3 DEF TakesFirst, Takes2, Awaiting, Between, Executed, RightReply
  <1>5. CommandInv'
    BY <1>1, <1>2, <1>3, <1>4 DEF Protocol, CommandInv, TakesFirst, Takes2
  <1>6. ServeInv'
    BY <1>1, <1>2, <1>3, <1>4 DEF Protocol, ServeInv, TakesFirst, Takes2, RightStatus
  <1>7. ReplyInv'
    <2>1. Replying /\ d.part = 1
      <3>1. d.pc # "receive"
        BY <1>2 DEF RightReply, TakesFirst
      <3>2. d.pc \in {"receive", "arg1", "arg2", "execute", "rep0", "rep1", "rep2"}
        BY DEF Protocol, DspType
      <3>3. Replying
        BY <1>4, <3>1, <3>2 DEF Executed, Reading, Replying
      <3> QED
        BY <1>2, <3>3 DEF RightReply
    <2>2. Written = 0 => ~Awaited(rep[0])'
      <3>1. ex = "benchmark"
        BY DEF TakesFirst, Twice, HasSecond
      <3>2. Written = 0 => rep[0].part = 0
        BY <1>2 DEF Protocol, ReplyInv, RightReply, TakesFirst
      <3> QED
        BY <3>1, <3>2 DEF Awaited, TakesFirst, Takes2
    <2> QED
      BY <1>2, <1>3, <1>4, <2>1, <2>2 DEF Protocol, ReplyInv, TakesFirst, Takes2
  <1>8. ResultInv'
    <2>1. ASSUME NEW t \in 1 .. Tests,
                 a'.runs > 0 \/ a'.at > t + 1 \/ (a'.at = t + 1 /\ a'.part = 1 /\ Awaiting')
          PROVE  RightResult(t)'
      <3>1. RightResult(t) \/ (a.at = t + 1 /\ a.part = 0)
        BY <2>1 DEF Protocol, ResultInv, TakesFirst
      <3> QED
        BY <3>1, GotRight DEF TakesFirst
    <2> QED
      BY <2>1 DEF Protocol, ResultInv, TakesFirst, Takes2
  <1> QED
    BY <1>5, <1>6, <1>7, <1>8 DEF Kept

\* The last reply to a command leaves nothing to read.
LEMMA TakesLastKeeps ==
    ASSUME ex' = ex, UsesSeq, Protocol, TakesLast PROVE Kept
  <1>1. /\ ReplyBefore /\ Awaiting /\ ReadRep0 = a.rep0 /\ ~Spurious /\ RightReply /\ Read = 2
    BY ReadCompletes DEF TakesLast, Takes2
  <1>2. /\ Read' = 0 /\ Written' = Written /\ SameReply' /\ ~ReplyBefore'
        /\ (Spurious' <=> Spurious) /\ (Replying' <=> Replying) /\ (Reading' <=> Reading)
        /\ WrittenRep0' = WrittenRep0 /\ SeqValue' = SeqValue /\ ~Sending /\ ~Sending'
    BY ReadsNext DEF TakesLast
  <1>3. ~Awaiting' /\ Between' /\ ~Executed' /\ Executed /\ ~cmdNew[0] /\ ~Reading
    BY <1>1 DEF TakesLast, Awaiting, Between, Executed, RightReply
  <1>4. d.pc = "receive" /\ Written = 0
    <2>1. ~Replying
      BY <1>1 DEF RightReply, Protocol, ServeInv, TakesLast, Replying
    <2>2. d.pc \in {"receive", "arg1", "arg2", "execute", "rep0", "rep1", "rep2"}
      BY DEF Protocol, DspType
    <2> QED
      BY <1>3, <2>1, <2>2 DEF Reading, Replying, Written
  <1>5. a.seq = cmd[0].seq /\ a.seq > 0 /\ a'.seq = a.seq
    BY <1>1, AwaitingFacts DEF TakesLast
  <1>6. CommandInv'
    <2>1. a'.pc = "show" => a'.at = Tests + 2
      BY DEF TakesLast
    <2> QED
      BY <1>2, <1>3, <1>5, <2>1 DEF CommandInv, TakesLast, Takes2, Sending
  <1>7. ServeInv'
    BY <1>1, <1>2, <1>3, <1>4, <1>5 DEF Protocol, ServeInv, TakesLast, Takes2
  <1>8. ReplyInv'
    <2>1. rep[0].seq = a.seq
      BY <1>1, <1>4 DEF Protocol, ReplyInv, RightReply
    <2> QED
      BY <1>1, <1>2, <1>3, <1>4, <1>5, <2>1 DEF ReplyInv, TakesLast, Takes2, Replying
  <1>9. ResultInv'
    <2>1. ASSUME NEW t \in 1 .. Tests,
                 a'.runs > 0 \/ a'.at > t + 1 \/ (a'.at = t + 1 /\ a'.part = 1 /\ Awaiting')
          PROVE  RightResult(t)'
      <3>1. a.runs > 0 \/ a.at > t + 1 \/ a.at = t + 1
        BY <1>3, <2>1, Numbers DEF TakesLast
      <3>2. a.at = t + 1 => a.part = 0 \/ (a.part = 1 /\ Awaiting)
        BY <1>1, Numbers
      <3>3. RightResult(t) \/ (a.at = t + 1 /\ a.part = 0)
        BY <3>1, <3>2 DEF Protocol, ResultInv
      <3> QED
        BY <3>3, GotRight DEF TakesLast
    <2>2. a'.count <= d'.repeated
      <3>1. CASE Command.op = "STATS"
        BY <1>1, <3>1 DEF RightReply, RightValue, ValueOf, TakesLast, Takes2
      <3>2. CASE Command.op # "STATS"
        BY <3>2 DEF Protocol, ResultInv, TakesLast, Takes2
      <3> QED
        BY <3>1, <3>2
    <2> QED
      BY <2>1, <2>2 DEF ResultInv
  <1> QED
    BY <1>6, <1>7, <1>8, <1>9 DEF Kept

\* The invariant holds at the start.
LEMMA SeqInitially == Init => SeqInv
  <1> SUFFICES ASSUME Init, UsesSeq PROVE Protocol
    BY DEF SeqInv, Protocol
  <1>1. SeqInit
    BY DEF Init, UsesSeq, UsesDma
  <1> USE SeqExamplesAssumption
  <1>2. /\ cmd = [i \in Channels |-> IF i = 0 THEN NoCommand ELSE "none"]
        /\ rep = [i \in Channels |-> IF i = 0 THEN NoRep ELSE NoValue]
        /\ cmdNew = [i \in Channels |-> FALSE] /\ repUnread = [i \in Channels |-> FALSE]
    BY <1>1 DEF SeqInit, ApbpInit
  <1>3. NoCommand \in SeqCmds /\ NoRep \in SeqReps /\ NoValue \in SeqValues
        /\ "none" \in Args /\ <<"none", "none">> \in Args \X Args
    BY DEF NoCommand, NoRep, NoValue, SeqCmds, SeqReps, SeqValues, SeqStatuses, Args, Ops
  <1>4. /\ cmd[0] = NoCommand /\ cmd[1] = "none" /\ cmd[2] = "none" /\ rep[0] = NoRep
        /\ rep[1] = NoValue /\ rep[2] = NoValue /\ \A i \in Channels : ~cmdNew[i] /\ ~repUnread[i]
        /\ ~cmdNew[0]
    BY <1>2 DEF Channels
  <1>5. MailType
    BY <1>2, <1>3, <1>4 DEF MailType
  <1>6. [status |-> "NONE", value |-> <<NoValue, NoValue>>] \in Results
    BY <1>3 DEF Results, SeqStatuses
  <1>7. ArmType
    <2>1. a = [pc |-> "prepare", at |-> 1, seq |-> 0, part |-> 0, rep0 |-> NoRep,
            high |-> NoValue, stale |-> 0, runs |-> 0, count |-> 0,
            results |-> [t \in 1 .. Tests |-> [status |-> "NONE", value |-> <<NoValue, NoValue>>]]]
      BY <1>1 DEF SeqInit
    <2>2. [t \in 1 .. Tests |-> [status |-> "NONE", value |-> <<NoValue, NoValue>>]]
            \in [1 .. Tests -> Results]
      BY <1>6
    <2>3. 1 \in 1 .. Tests + 2 /\ 0 \in 0 .. SeqCount
      OBVIOUS
    <2> QED
      BY <1>3, <2>1, <2>2, <2>3 DEF ArmType
  <1>8. DspType
    <2>1. d = [pc |-> "receive", cmd |-> NoCommand, arg |-> <<"none", "none">>,
               lastSeq |-> NoSeq, repeated |-> 0, status |-> "OK", part |-> 0]
      BY <1>1 DEF SeqInit
    <2>2. NoSeq \in 0 .. SeqCount + 1 /\ "OK" \in SeqStatuses
      BY DEF NoSeq, SeqStatuses
    <2> QED
      BY <1>3, <2>1, <2>2 DEF DspType
  <1>9. /\ a.pc = "prepare" /\ a.at = 1 /\ a.seq = 0 /\ a.part = 0 /\ a.runs = 0 /\ a.count = 0
        /\ d.pc = "receive" /\ d.cmd = NoCommand /\ d.arg = <<"none", "none">>
        /\ d.lastSeq = NoSeq /\ d.repeated = 0
    BY <1>1 DEF SeqInit
  <1>10. /\ ~Sending /\ ~Awaiting /\ Between /\ ~Spurious /\ ~Executed /\ ~Replying
         /\ Read = 0 /\ Written = 0
    BY <1>9 DEF Sending, Awaiting, Between, Spurious, Executed, Replying, Read, Written
  <1>11. CommandInv
    BY <1>4, <1>9, <1>10 DEF CommandInv, NoCommand
  <1>12. ServeInv
    BY <1>4, <1>9, <1>10 DEF ServeInv, NoCommand
  <1>13. ReplyInv
    <2>1. SameReply /\ ~ReplyBefore
      BY <1>4, <1>10 DEF SameReply, ReplyBefore, Channels
    <2> QED
      BY <1>4, <1>9, <1>10, <2>1 DEF ReplyInv, NoRep
  <1>14. ResultInv
    BY <1>9 DEF ResultInv
  <1> QED
    BY <1>5, <1>7, <1>8, <1>11, <1>12, <1>13, <1>14 DEF Protocol

\* The invariant holds after a stuttering step.
LEMMA SeqUnchanged == SeqInv /\ UNCHANGED vars => SeqInv'
  <1> SUFFICES ASSUME SeqInv, UNCHANGED vars, UsesSeq PROVE SeqInv'
    BY SameScript DEF SeqInv, vars
  <1>1. /\ ex' = ex /\ a' = a /\ d' = d /\ cmd' = cmd /\ cmdNew' = cmdNew /\ rep' = rep
        /\ repUnread' = repUnread
    BY DEF vars, apbpVars
  <1>2. /\ Command' = Command /\ Arg' = Arg /\ (Twice' <=> Twice) /\ ReplyArg' = ReplyArg
        /\ SentWord' = SentWord
    BY <1>1, SameCommand DEF SentWord
  <1>3. /\ (Sending' <=> Sending) /\ (Awaiting' <=> Awaiting) /\ (Between' <=> Between)
        /\ (Spurious' <=> Spurious) /\ (Replying' <=> Replying) /\ (Executed' <=> Executed)
        /\ Read' = Read /\ Written' = Written /\ ReadRep0' = ReadRep0
        /\ WrittenRep0' = WrittenRep0 /\ SeqValue' = SeqValue
    BY <1>1 DEF Sending, Awaiting, Between, Spurious, Replying, Executed, Reading, Read, Written,
       ReadRep0, WrittenRep0, SeqValue
  <1>4. MailType' /\ ArmType' /\ DspType'
    BY <1>1 DEF SeqInv, MailType, ArmType, DspType
  <1>5. CommandInv' /\ ServeInv'
    BY <1>1, <1>2, <1>3 DEF SeqInv, CommandInv, ServeInv, RightStatus
  <1>6. ReplyInv'
    <2>1. (SameReply' <=> SameReply) /\ (ReplyBefore' <=> ReplyBefore)
          /\ (SpuriousReply' <=> SpuriousReply)
      BY <1>1, <1>3 DEF SameReply, ReplyBefore, SpuriousReply
    <2>2. RightReply' <=> RightReply
      BY <1>1, <1>2, <1>3 DEF RightReply, RightStatus, RightValue
    <2>3. ~Awaited(rep[0])' <=> ~Awaited(rep[0])
      BY <1>1 DEF Awaited
    <2> QED
      BY <1>1, <1>3, <2>1, <2>2, <2>3 DEF SeqInv, ReplyInv
  <1>7. ResultInv'
    BY <1>1, <1>3, ResultsStay DEF SeqInv, ResultInv
  <1> QED
    BY <1>4, <1>5, <1>6, <1>7 DEF SeqInv

\* The DSP takes a new command for what it is, since the one before it had
\* another number.
LEMMA NewCommandDiffers ==
    ASSUME Protocol, cmdNew[0] PROVE d.lastSeq # cmd[0].seq
  BY AwaitingFacts DEF Protocol, ServeInv

\* Every step of every example keeps the invariant.
LEMMA SeqStep == SeqInv /\ [Next]_vars => SeqInv'
  <1>1. ASSUME SeqInv, Next PROVE SeqInv'
    <2>1. ex' = ex
      BY <1>1 DEF Next, Arm9, Dsp, Dma, Others
    <2> SUFFICES ASSUME UsesSeq PROVE MailType' /\ ArmType' /\ DspType' /\ Kept
      BY <2>1, SameScript DEF SeqInv, Kept
    <2>2. Protocol /\ MailType /\ ArmType /\ DspType
      BY <1>1 DEF SeqInv, Protocol
    <2>3. SeqArm9 \/ SeqDsp \/ RunAgain \/ ReadOldWords \/ SeqReceiveAgain
      BY <1>1 DEF Next, Arm9, Dsp, Dma, Others, NoDma, UsesSeq, UsesDma
    <2>4. CASE PrepareCommand
      BY <2>1, <2>2, <2>4, PrepareEffect, PrepareKeeps
    <2>5. CASE SendWords
      BY <2>1, <2>2, <2>5, SendEffect, SendArgumentKeeps, SendCommandKeeps
    <2>6. CASE ReadWords
      <3>1. d' = d
        BY <2>6 DEF ReadWords
      <3>2. CASE a.pc = "rep2" /\ dspReceiveData(2) /\ TakeReply(a.rep0, <<a.high, rep[2]>>)
        <4>1. (Skips2 \/ TakesFirst \/ TakesLast) /\ MailType' /\ ArmType' /\ DspType'
          BY <2>2, <3>1, <3>2, TakeEffect
        <4> QED
          BY <2>1, <2>2, <4>1, Skips2Keeps, TakesFirstKeeps, TakesLastKeeps
      <3>3. CASE \/ a.pc = "rep0" /\ dspReceiveData(0) /\ a' = [a EXCEPT !.pc = "rep1", !.rep0 = rep[0]]
                 \/ a.pc = "rep1" /\ dspReceiveData(1) /\ a' = [a EXCEPT !.pc = "rep2", !.high = rep[1]]
        <4>1. (Reads0 \/ Reads1) /\ MailType' /\ ArmType' /\ DspType'
          BY <2>2, <3>1, <3>3, ReadEffect
        <4> QED
          BY <2>1, <2>2, <4>1, Read0Keeps, Read1Keeps
      <3> QED
        BY <2>6, <3>2, <3>3 DEF ReadWords
    <2>7. CASE ReadOldWords
      BY <2>1, <2>2, <2>7, ReadOldEffect, SkipsOldKeeps
    <2>8. CASE RunAgain
      BY <2>1, <2>2, <2>8, RestartEffect, RestartKeeps
    <2>9. CASE SeqReceive \/ SeqReceiveAgain
      BY <2>1, <2>2, <2>9, NewCommandDiffers, DispatchEffect, IgnoresKeeps, TakesKeeps
    <2>10. CASE ReadArgument
      BY <2>1, <2>2, <2>10, ReadArgumentEffect, ReadsArgumentKeeps
    <2>11. CASE Execute
      BY <2>1, <2>2, <2>11, ExecuteEffect, ExecutesKeeps
    <2>12. CASE SeqReply
      BY <2>1, <2>2, <2>12, ReplyEffect, Writes0Keeps, Writes1Keeps, Writes2Keeps
    <2> QED
      BY <2>3, <2>4, <2>5, <2>6, <2>7, <2>8, <2>9, <2>10, <2>11, <2>12 DEF SeqArm9, SeqDsp
  <1> QED
    BY <1>1, SeqUnchanged

\* The protocol of codegen_check and benchmark keeps its invariant: whatever the
\* DSP sees again and whatever old reply the ARM9 reads, each CPU knows which
\* words of the mailbox belong to the command in progress.
THEOREM SeqInvHolds == FairSpec => []SeqInv
  <1>1. Init => SeqInv
    BY SeqInitially
  <1>2. SeqInv /\ [Next]_vars => SeqInv'
    BY SeqStep
  <1> QED
    BY <1>1, <1>2, PTL DEF FairSpec

\* What codegen_check and benchmark show is right, and they never give up
\* (SeqExamples: TakeReply, SeqReceive, SeqReply).
THEOREM ResultsRightHolds == FairSpec => []ResultsRight
  <1>1. SeqInv => ResultsRight
    <2> SUFFICES ASSUME SeqInv, UsesSeq PROVE a.pc # "failed" /\ (a.pc = "show" => SeqShown)
      BY DEF ResultsRight
    <2>1. a.pc # "failed" /\ Tests \in Nat
      BY SeqExamplesAssumption DEF SeqInv, ArmType
    <2>2. ASSUME a.pc = "show" PROVE SeqShown
      <3>1. a.at = Tests + 2
        BY <2>2 DEF SeqInv, CommandInv
      <3>2. \A t \in 1 .. Tests : RightResult(t)
        BY <2>1, <3>1 DEF SeqInv, ResultInv
      <3> QED
        BY <3>2 DEF SeqShown, RightResult, SeqInv, ResultInv
    <2> QED
      BY <2>1, <2>2
  <1>2. FairSpec => []SeqInv
    BY SeqInvHolds
  <1> QED
    BY <1>1, <1>2, PTL
=============================================================================
