------------------------------ MODULE Examples ------------------------------
(***************************************************************************)
(* The examples whose two CPUs only meet at the APBP, the DMA and the      *)
(* FIFO, side by side: each behaviour is one of them.                      *)
(***************************************************************************)
EXTENDS DmaExamples, SeqExamples

CONSTANT Running    \* the examples that may run

ASSUME RunningAssumption ==
    Running \subseteq {"cmd_reply", "semaphores", "fifo_transfers", "dma_arm_to_dsp",
                       "dma_dsp_to_arm", "dma_async", "codegen_check", "benchmark"}

vars == <<ex, apbpVars, semVars, a, d, dmaVars, bufferVars>>

UsesDma == ex \in {"dma_arm_to_dsp", "dma_dsp_to_arm", "dma_async"}
UsesSeq == ex \in {"codegen_check", "benchmark"}
HasToken == ex \in {"semaphores", "dma_dsp_to_arm", "dma_async"}
ChangesSum == ex \in {"dma_dsp_to_arm", "dma_async"}

Init ==
    /\ ex \in Running
    /\ \/ ex = "cmd_reply" /\ CmdReplyInit
       \/ ex = "semaphores" /\ SemaphoresInit
       \/ ex = "fifo_transfers" /\ FifoInit
       \/ UsesDma /\ DmaExamplesInit
       \/ UsesSeq /\ SeqInit
    /\ ~UsesDma => /\ DmaInit /\ ram = [w \in Words |-> 0]
                   /\ cached = ram /\ dirty = {} /\ lowOnly = FALSE

NoDma(step) == step /\ UNCHANGED <<dmaVars, bufferVars>>
Arm9 ==
    /\ \/ ex = "cmd_reply" /\ NoDma(CmdReplyArm9)
       \/ ex = "semaphores" /\ NoDma(SemaphoresArm9)
       \/ ex = "fifo_transfers" /\ NoDma(FifoArm9)
       \/ UsesDma /\ DmaArm9
       \/ UsesSeq /\ NoDma(SeqArm9)
    /\ UNCHANGED ex
Dsp ==
    /\ \/ ex = "cmd_reply" /\ NoDma(CmdReplyDsp)
       \/ ex = "semaphores" /\ NoDma(SemaphoresDsp)
       \/ ex = "fifo_transfers" /\ NoDma(FifoDsp)
       \/ UsesDma /\ DmaDsp
       \/ UsesSeq /\ NoDma(SeqDsp)
    /\ UNCHANGED ex
Dma == UsesDma /\ DmaHardware /\ UNCHANGED ex

\* The user asks for another run, what the hardware does wrong, and the cache.
Others ==
    /\ \/ UsesSeq /\ NoDma(RunAgain \/ ReadOldWords \/ SeqReceiveAgain)
       \/ UsesDma /\ WriteBack
    /\ UNCHANGED ex

Next == Arm9 \/ Dsp \/ Dma \/ Others

\* Both CPUs and the DMA go on; nobody has to press a key.
FairSpec == Init /\ [][Next]_vars /\ WF_vars(Arm9) /\ WF_vars(Dsp) /\ WF_vars(Dma)

-----------------------------------------------------------------------------

\* The bits that a CPU has acknowledged in its semaphore and not passed on yet.
TokenProgram == IF ex = "semaphores" THEN semaphores ELSE Program
Held(steps, at, got, passed, bits) ==
    IF at \in Place(steps, got) + 1 .. Place(steps, passed) THEN bits ELSE {}
ArmHolds == Held(TokenProgram.frame, a.at, "ack", "set", a.bits)
DspHolds == Held(TokenProgram.loop, d.at, "semAck", "semWrite", d.bits)

\* The semaphores that the examples pass on are exactly one bit at any time, in
\* the register of one CPU or in the hands of one: it is neither lost nor
\* doubled, although apbpSetSemaphore() is not atomic.
TokenKept ==
    HasToken => Cardinality(toDsp) + Cardinality(toArm) + Cardinality(ArmHolds)
                + Cardinality(DspHolds) = 1

\* No transfer is under way while the ARM9 adds the words of its buffer, which
\* is what the semaphore is for (dma_dsp_to_arm/arm9/source/main.c:11).
SumUndisturbed ==
    ChangesSum /\ ArmAt(Program, "sum") => started = {} /\ ~ahbmIsBusy

\* codegen_check and benchmark never give up, and what they show is right: a
\* repeated command or an old reply never leaves a value of another test there.
ResultsRight == UsesSeq => a.pc # "failed" /\ (a.pc = "show" => SeqShown)

\* dma_async: a transfer of no words is refused, and on a channel that no
\* transfer has ended on, its end is waited for nevertheless.
Stuck ==
    /\ ex = "dma_async"
    /\ DspAt(Program, "wait") /\ ~d.ok /\ DmaChannel \notin ended

\* What an example shows is right.
Settled ==
    CASE ex = "cmd_reply" -> CmdReplyShown
      [] ex = "fifo_transfers" -> FifoShown
      [] ex = "dma_arm_to_dsp" -> DmaShown
      [] UsesSeq -> a.pc = "show"
      [] OTHER -> TRUE

\* When the user presses no more keys, what is shown gets right, and stays so,
\* although ARM9 and DSP pass each other old and new words by turns; and the
\* semaphores never stop going to and fro, unless the DSP is stuck.
Settles ==
    /\ <>[]Settled
    /\ []<>(HasToken => toDsp # {} \/ Stuck)
    /\ []<>(HasToken => toArm # {} \/ Stuck)

\* "In order to synchronize the transfer, semaphores are used.": what the ARM9
\* shows after a transfer is the sum of the words that were sent.
SumRight ==
    ChangesSum /\ ArmAt(Program, "set") => a.sum = d.sent
=============================================================================
