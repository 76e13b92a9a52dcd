------------------------------- MODULE Frames -------------------------------
(***************************************************************************)
(* What the programs of examples/dsp share: the main() of the ARM9 does a  *)
(* frame for ever, and the main() of the DSP a loop.  In a frame the ARM9  *)
(* sends to the command channels that are ready and skips the others, and  *)
(* reads the replies that have come; it never waits.  The DSP waits for    *)
(* every command and for every reply to be read.                           *)
(*                                                                         *)
(* A frame and a loop are sequences of steps, one for each access to a     *)
(* register that the other CPU uses; "at" is the next step.                *)
(*                                                                         *)
(* Here are the steps for commands and replies, the semaphores of apbp.h,  *)
(* and three examples: cmd_reply, semaphores and fifo_transfers.           *)
(***************************************************************************)
EXTENDS Apbp, CInt, FiniteSetsExt

CONSTANTS
    MaxPresses,     \* bound on the frames in which the user presses keys
    Touches,        \* positions on the touch screen, cmd_reply
    SemaphoreBits,  \* bits of a semaphore register, 16
    Delay,          \* frames between two uses of the semaphores, 30
    FifoWords       \* words of a FIFO buffer, 12

ASSUME FramesAssumption ==
    /\ MaxPresses \in Nat /\ Touches \subseteq Nat \X Nat
    /\ SemaphoreBits \in Nat \ {0} /\ Delay \in Nat \ {0} /\ FifoWords \in Nat \ {0}

VARIABLES
    ex,         \* the example that runs
    toDsp,      \* semaphore bits set by the ARM9 and not acknowledged
    toArm,      \* semaphore bits set by the DSP and not acknowledged
    a,          \* ARM9: next step, settings of the user, replies shown
    d           \* DSP: next step, commands received, replies to send

semVars == <<toDsp, toArm>>

\* The frame and the loop of cmd_reply, which the examples with DMA begin with.
Sends == <<"send0", "send1", "send2">>
Reads == <<"read0", "read1", "read2">>
Receives == <<"receive0", "receive1", "receive2">>
Replies == <<"reply0", "reply1", "reply2">>

cmd_reply == [frame |-> <<"keys">> \o Sends \o Reads, loop |-> Receives \o Replies]
semaphores ==
    [frame |-> <<"send0", "delay", "get", "ack", "set", "read0", "read1", "read2">>,
     loop |-> <<"receive0", "reply0", "semGet", "semAck", "semRead", "semWrite",
                "reply1", "reply2">>]
fifo_transfers ==
    [frame |-> <<"keys", "fifoClear", "fifoWrite", "fifoRead">> \o Reads,
     loop |-> <<"load", "store">> \o Replies]

-----------------------------------------------------------------------------
(* Steps *)

\* The next step of the ARM9 (the DSP), and where it goes from there: forward,
\* or on to a step further on.
Place(steps, step) == CHOOSE i \in DOMAIN steps : steps[i] = step
AfterStep(steps, i) == (i % Len(steps)) + 1

ArmAt(program, step) == program.frame[a.at] = step
DspAt(program, step) == program.loop[d.at] = step
ArmForward(program) == AfterStep(program.frame, a.at)
DspForward(program) == AfterStep(program.loop, d.at)

\* ARM9: a command is sent if its channel is ready.
SendIfReady(program, id, data) ==
    /\ ArmAt(program, Sends[id + 1])
    /\ \/ dspSendData(id, data)
       \/ cmdNew[id] /\ UNCHANGED apbpVars
    /\ a' = [a EXCEPT !.at = ArmForward(program)]
    /\ UNCHANGED <<d, semVars>>

\* ARM9: a reply is read if there is one.
ReadIfReady(program, id) ==
    /\ ArmAt(program, Reads[id + 1])
    /\ \/ /\ dspReceiveData(id)
          /\ a' = [a EXCEPT !.at = ArmForward(program), !.shown[id] = rep[id]]
       \/ /\ ~repUnread[id]
          /\ a' = [a EXCEPT !.at = ArmForward(program)]
          /\ UNCHANGED apbpVars
    /\ UNCHANGED <<d, semVars>>

\* ARM9: the keys of a frame change the settings to one of "pressed", or nothing
\* is pressed.
Keys(program, pressed) ==
    /\ ArmAt(program, "keys")
    /\ \/ a' = [a EXCEPT !.at = ArmForward(program)]
       \/ /\ a.presses < MaxPresses
          /\ \E s \in pressed :
               a' = [a EXCEPT !.at = ArmForward(program), !.presses = @ + 1,
                              !.settings = s]
    /\ UNCHANGED <<apbpVars, semVars, d>>

ReceiveWord(program, id) ==
    /\ DspAt(program, Receives[id + 1])
    /\ apbpReceiveData(id)
    /\ d' = [d EXCEPT !.at = DspForward(program), !.data[id] = cmd[id]]
    /\ UNCHANGED <<a, semVars>>

ReplyWord(program, id, value) ==
    /\ DspAt(program, Replies[id + 1])
    /\ apbpSendData(id, value)
    /\ d' = [d EXCEPT !.at = DspForward(program)]
    /\ UNCHANGED <<a, semVars>>

-----------------------------------------------------------------------------
(* Semaphores of apbp.h *)

apbpGetSemaphore == toDsp

\* Mutant of apbpAckSemaphore: REG_APBP_PCLEAR isn't written.
AckNothing(mask) == UNCHANGED semVars

apbpAckSemaphore(mask) == toDsp' = toDsp \ mask /\ UNCHANGED toArm

\* apbpSetSemaphore() is a read of REG_APBP_PSEM and a write: what the ARM9
\* acknowledges between them is set again.
SetSemaphoreRead(program) ==
    /\ DspAt(program, "semRead")
    /\ d' = [d EXCEPT !.at = DspForward(program), !.psem = toArm]
    /\ UNCHANGED <<apbpVars, semVars, a>>
SetSemaphoreWrite(program, mask) ==
    /\ DspAt(program, "semWrite")
    /\ toArm' = d.psem \cup mask
    /\ d' = [d EXCEPT !.at = DspForward(program)]
    /\ UNCHANGED <<apbpVars, toDsp, a>>

\* libnds: what the ARM9 sees and does.
dspGetSemaphore == toArm
dspAckSemaphore(mask) == toArm' = toArm \ mask /\ UNCHANGED toDsp
dspSetSemaphore(mask) == toDsp' = toDsp \cup mask /\ UNCHANGED toArm

\* DSP: looks for bits in "mask"; without any, goes on at "other".
GetSemaphore(program, mask, other) ==
    /\ DspAt(program, "semGet")
    /\ LET bits == apbpGetSemaphore \cap mask
       IN  d' = [d EXCEPT !.bits = bits,
                          !.at = IF bits = {} THEN Place(program.loop, other)
                                 ELSE DspForward(program)]
    /\ UNCHANGED <<apbpVars, semVars, a>>
AckSemaphore(program) ==
    /\ DspAt(program, "semAck")
    /\ apbpAckSemaphore(d.bits)
    /\ d' = [d EXCEPT !.at = DspForward(program)]
    /\ UNCHANGED <<apbpVars, a>>

\* ARM9: the same.
ArmGet(program, mask, other) ==
    /\ ArmAt(program, "get")
    /\ LET bits == dspGetSemaphore \cap mask
       IN  a' = [a EXCEPT !.bits = bits,
                          !.at = IF bits = {} THEN Place(program.frame, other)
                                 ELSE ArmForward(program)]
    /\ UNCHANGED <<apbpVars, semVars, d>>
ArmAck(program) ==
    /\ ArmAt(program, "ack")
    /\ dspAckSemaphore(a.bits)
    /\ a' = [a EXCEPT !.at = ArmForward(program)]
    /\ UNCHANGED <<apbpVars, d>>
ArmSet(program, mask) ==
    /\ ArmAt(program, "set")
    /\ dspSetSemaphore(mask)
    /\ a' = [a EXCEPT !.at = ArmForward(program)]
    /\ UNCHANGED <<apbpVars, d>>

\* "x << 1" in 16 bits, and BIT(0) after the last bit.
AllBits == 0 .. SemaphoreBits - 1
NextBit(bits) ==
    LET shifted == {b + 1 : b \in bits} \cap AllBits
    IN  IF shifted = {} THEN {0} ELSE shifted

-----------------------------------------------------------------------------
(* cmd_reply *)

CmdReplyInit ==
    /\ a = [at |-> 1, presses |-> 0, settings |-> [count |-> 0, touch |-> <<0, 0>>],
            shown |-> [i \in Channels |-> 0]]
    /\ d = [at |-> 1, data |-> [i \in Channels |-> 0]]
    /\ toDsp = {} /\ toArm = {}
    /\ ApbpInit([i \in Channels |-> 0], [i \in Channels |-> 0])

\* A changes cmd0, a touch cmd1 and cmd2.
CmdReplyKeys(s) ==
    [count : {s.count, s.count + 1}, touch : Touches \cup {s.touch}]
CmdReplyCommand(s) == [i \in Channels |-> <<s.count, s.touch[1], s.touch[2]>>[i + 1]]

\* Mutant of CmdReplyAnswer: a word that was received before is used.
CmdReplyAnswerFirst(data) ==
    [i \in Channels |-> <<data[0], U(16, data[1] + data[1]), U(16, data[1] - data[2])>>[i + 1]]

\* "data1 + data2" and "data1 - data2" of uint16_t.
CmdReplyAnswer(data) ==
    [i \in Channels |-> <<data[0], U(16, data[1] + data[2]), U(16, data[1] - data[2])>>[i + 1]]

CmdReplyArm9 ==
    \/ Keys(cmd_reply, CmdReplyKeys(a.settings))
    \/ \E id \in Channels : \/ SendIfReady(cmd_reply, id, CmdReplyCommand(a.settings)[id])
                            \/ ReadIfReady(cmd_reply, id)
CmdReplyDsp ==
    \E id \in Channels : \/ ReceiveWord(cmd_reply, id)
                         \/ ReplyWord(cmd_reply, id, CmdReplyAnswer(d.data)[id])

\* The replies, in the int16_t variables of the ARM9.
CmdReplyShown ==
    LET s == a.settings
    IN  /\ S(16, a.shown[0]) = s.count
        /\ S(16, a.shown[1]) = s.touch[1] + s.touch[2]
        /\ S(16, a.shown[2]) = s.touch[1] - s.touch[2]

-----------------------------------------------------------------------------
(* semaphores *)

SemaphoresInit ==
    /\ a = [at |-> 1, bits |-> {}, delay |-> 0, shown |-> [i \in Channels |-> 0]]
    /\ d = [at |-> 1, data |-> [i \in Channels |-> 0], bits |-> {}, psem |-> {}]
    /\ toDsp = {0} /\ toArm = {}
    /\ ApbpInit([i \in Channels |-> 0], [i \in Channels |-> 0])

\* The ARM9 looks at the semaphores once every Delay frames.
CountDelay ==
    /\ ArmAt(semaphores, "delay")
    /\ a' = IF a.delay + 1 = Delay
            THEN [a EXCEPT !.delay = 0, !.at = ArmForward(semaphores)]
            ELSE [a EXCEPT !.delay = @ + 1, !.at = Place(semaphores.frame, "read0")]
    /\ UNCHANGED <<apbpVars, semVars, d>>

SemaphoresArm9 ==
    \/ SendIfReady(semaphores, 0, 0)
    \/ CountDelay
    \/ ArmGet(semaphores, AllBits, "read0") \/ ArmAck(semaphores)
    \/ ArmSet(semaphores, NextBit(a.bits))
    \/ \E id \in Channels : ReadIfReady(semaphores, id)
SemaphoresDsp ==
    \/ ReceiveWord(semaphores, 0) \/ ReplyWord(semaphores, 0, d.data[0])
    \/ GetSemaphore(semaphores, AllBits, "reply1") \/ AckSemaphore(semaphores)
    \/ SetSemaphoreRead(semaphores) \/ SetSemaphoreWrite(semaphores, NextBit(d.bits))
    \/ ReplyWord(semaphores, 1, 0) \/ ReplyWord(semaphores, 2, 0)

-----------------------------------------------------------------------------
(* fifo_transfers: the FIFO reads and writes the memory of the DSP *)

FifoIndex == 1 .. FifoWords
NoWords == [j \in FifoIndex |-> 0]

\* The words that are compressed into reply "id".
Group(id, words) == [j \in {i \in FifoIndex : ((i - 1) * 3) \div FifoWords = id} |-> words[j]]

\* IPC_ARM9_TO_DSP_ADDR and IPC_DSP_TO_ARM9_ADDR.
FifoInit ==
    /\ a = [at |-> 1, presses |-> 0, settings |-> [written |-> 1, read |-> 1],
            shown |-> [i \in Channels |-> Group(i, NoWords)], got |-> NoWords]
    /\ d = [at |-> 1, next |-> 1, ret |-> NoWords, fromArm |-> NoWords, forArm |-> NoWords]
    /\ toDsp = {} /\ toArm = {}
    /\ ApbpInit([i \in Channels |-> 0], [i \in Channels |-> Group(i, NoWords)])

ArmPattern(j) == j
DspPattern(j) == 10 * FifoWords - j

FifoKeys(s) ==
    [written : {s.written - 1, s.written, s.written + 1} \cap FifoIndex,
     read : {s.read - 1, s.read, s.read + 1} \cap FifoIndex]

FifoClear ==
    /\ ArmAt(fifo_transfers, "fifoClear")
    /\ d' = [d EXCEPT !.fromArm = NoWords]
    /\ a' = [a EXCEPT !.at = ArmForward(fifo_transfers)]
    /\ UNCHANGED <<apbpVars, semVars>>
FifoWrite ==
    /\ ArmAt(fifo_transfers, "fifoWrite")
    /\ d' = [d EXCEPT !.fromArm = [j \in FifoIndex |->
               IF j <= a.settings.written THEN ArmPattern(j) ELSE @[j]]]
    /\ a' = [a EXCEPT !.at = ArmForward(fifo_transfers)]
    /\ UNCHANGED <<apbpVars, semVars>>
FifoRead ==
    /\ ArmAt(fifo_transfers, "fifoRead")
    /\ a' = [a EXCEPT !.at = ArmForward(fifo_transfers),
                      !.got = [j \in FifoIndex |->
                         IF j <= a.settings.read THEN d.forArm[j] ELSE 0]]
    /\ UNCHANGED <<apbpVars, semVars, d>>

\* The DSP reads the buffer word by word, while the ARM9 may be writing it.
LoadWord ==
    /\ DspAt(fifo_transfers, "load")
    /\ d' = [d EXCEPT !.ret[d.next] = d.fromArm[d.next],
                      !.next = AfterStep(d.ret, @),
                      !.at = IF d.next = FifoWords THEN DspForward(fifo_transfers) ELSE @]
    /\ UNCHANGED <<apbpVars, semVars, a>>
StorePattern ==
    /\ DspAt(fifo_transfers, "store")
    /\ d' = [d EXCEPT !.at = DspForward(fifo_transfers), !.forArm = [j \in FifoIndex |-> DspPattern(j)]]
    /\ UNCHANGED <<apbpVars, semVars, a>>

FifoArm9 ==
    \/ Keys(fifo_transfers, FifoKeys(a.settings))
    \/ FifoClear \/ FifoWrite \/ FifoRead
    \/ \E id \in Channels : ReadIfReady(fifo_transfers, id)
FifoDsp ==
    \/ LoadWord \/ StorePattern
    \/ \E id \in Channels : ReplyWord(fifo_transfers, id, Group(id, d.ret))

\* What was read through the FIFO is the pattern of the DSP, and zeroes after
\* the words that were asked for.  The replies are words of the pattern of the
\* ARM9, each of which the DSP may have seen while it was cleared.
FifoShown ==
    /\ \A j \in FifoIndex : a.got[j] = IF j <= a.settings.read THEN DspPattern(j) ELSE 0
    /\ \A i \in Channels : \A j \in DOMAIN a.shown[i] :
          a.shown[i][j] \in {0} \cup {ArmPattern(k) : k \in {j} \cap (1 .. a.settings.written)}
=============================================================================
