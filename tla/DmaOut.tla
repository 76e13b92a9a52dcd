------------------------------- MODULE DmaOut -------------------------------
(***************************************************************************)
(* proto_dma_out() of the dsp-bench examples: a buffer of any size is sent *)
(* to ARM9 memory in transfers that stay inside a page.  The program can   *)
(* also have an asynchronous transfer from the ARM9 in progress, on        *)
(* another DMA channel, while it does so.                                  *)
(***************************************************************************)
EXTENDS Dma

CONSTANTS
    Addresses,      \* ARM9 addresses of the calls
    Sizes,          \* sizes of the buffers, in words
    OutChannel,     \* DMA_CHANNEL of proto_teak.c, 1
    AsyncCalls,     \* calls of dmaTransferArm9ToDspAsync(): channel, src, len
    MaxCalls        \* bound on the calls of the program

ASSUME DmaOutAssumption ==
    /\ Addresses \subseteq Nat /\ Sizes \subseteq Nat
    /\ OutChannel \in DmaChannels \ {0}
    /\ AsyncCalls \subseteq [channel : DmaChannels \ {OutChannel}, src : Nat,
                             len : Nat]
    /\ MaxCalls \in Nat

VARIABLES
    pc,         \* proto_dma_out(): "loop", "transfer", "running"; or "idle"
    p,          \* index of the next word of the buffer
    address,    \* its address in ARM9 memory
    words,      \* words left
    n,          \* words of this transfer
    status,     \* result of the last call
    call,       \* history: address and size of the last call
    async,      \* the asynchronous call in progress and its result, or NoAsync
    calls       \* calls so far

outVars == <<pc, p, address, words, n, status, call, async, calls>>
vars == <<dmaVars, outVars>>

NoAsync == [channel |-> 0, src |-> 0, len |-> 0, result |-> -1]

Init ==
    /\ DmaInit
    /\ pc = "idle" /\ p = 0 /\ address = 0 /\ words = 0 /\ n = 0
    /\ status = "OK" /\ call = [address |-> 0, words |-> 0]
    /\ async = NoAsync /\ calls = 0

\* A call of proto_dma_out(); what the last one stored is forgotten.
DmaOutCall ==
    /\ pc = "idle" /\ calls < MaxCalls
    /\ \E a \in Addresses, w \in Sizes :
         /\ address' = a /\ words' = w
         /\ call' = [address |-> a, words |-> w]
    /\ pc' = "loop" /\ p' = 0 /\ status' = "OK" /\ calls' = calls + 1
    /\ armMemory' = {}
    /\ UNCHANGED <<transfer, moved, started, ended, connected, queue, dspMemory,
                   n, async>>

\* Words until the next page boundary of ARM9 memory.
PageWords == (PageBytes - (address % PageBytes)) \div 2

\* The size of the next transfer (never more than DMA_MAX_WORDS).
ChunkWords == IF PageWords > words THEN words ELSE PageWords

\* The size of the next transfer is computed, then the AHBM is waited for.
Chunk ==
    /\ pc = "loop" /\ words > 0
    /\ n' = ChunkWords
    /\ ~ahbmIsBusy
    /\ pc' = "transfer"
    /\ UNCHANGED <<dmaVars, p, address, words, status, call, async, calls>>

\* dmaTransferDspToArm9() refuses the transfer.
TransferFails ==
    /\ pc = "transfer"
    /\ Check(OutChannel, address, n) # 0
    /\ status' = "DMA_ERROR"
    /\ pc' = "idle"
    /\ UNCHANGED <<dmaVars, p, address, words, n, call, async, calls>>

\* dmaTransferDspToArm9() starts the transfer.
TransferStarts ==
    /\ pc = "transfer"
    /\ Check(OutChannel, address, n) = 0
    /\ ~ahbmIsBusy
    /\ StartUnsafe(OutChannel, Transfer("DspToArm", address, p, n))
    /\ pc' = "running"
    /\ UNCHANGED <<p, address, words, n, status, call, async, calls>>

\* dmaTransferDspToArm9() has waited for the transfer and returns.
TransferDone ==
    /\ pc = "running"
    /\ ~dmaTransferIsRunning(OutChannel)
    /\ ahbmResetChannel(2)
    /\ p' = p + n /\ address' = address + 2 * n /\ words' = words - n
    /\ pc' = "loop"
    /\ UNCHANGED <<n, status, call, async, calls>>

DmaOutReturn ==
    /\ pc = "loop" /\ words = 0
    /\ pc' = "idle"
    /\ UNCHANGED <<dmaVars, p, address, words, n, status, call, async, calls>>

\* dmaTransferArm9ToDspAsync(), called when no other one is in progress.
AsyncCall ==
    /\ pc = "idle" /\ calls < MaxCalls
    /\ async = NoAsync
    /\ \E c \in AsyncCalls :
         LET result == Check(c.channel, c.src, c.len)
         IN  /\ async' = [channel |-> c.channel, src |-> c.src, len |-> c.len,
                          result |-> result]
             /\ IF result = 0
                THEN StartUnsafe(c.channel, Transfer("ArmToDsp", c.src, 0, c.len))
                ELSE UNCHANGED dmaVars
    /\ calls' = calls + 1
    /\ UNCHANGED <<pc, p, address, words, n, status, call>>

\* The program has found that the asynchronous transfer is not running.
AsyncDone ==
    /\ pc = "idle" /\ async # NoAsync
    /\ async.result = 0 => ~dmaTransferIsRunning(async.channel)
    /\ async' = NoAsync
    /\ dspMemory' = {}
    /\ UNCHANGED <<transfer, moved, started, ended, connected, queue, armMemory,
                   pc, p, address, words, n, status, call, calls>>

\* Inside proto_dma_out().
DmaOutSteps == Chunk \/ TransferFails \/ TransferStarts \/ TransferDone
               \/ DmaOutReturn

Next ==
    \/ DmaOutCall \/ DmaOutSteps \/ AsyncCall \/ AsyncDone
    \/ Hardware /\ UNCHANGED outVars

Spec == Init /\ [][Next]_vars

\* The function keeps running and so does the hardware.
FairSpec ==
    /\ Spec
    /\ WF_vars(DmaOutSteps)
    /\ WF_vars(Hardware /\ UNCHANGED outVars)

-----------------------------------------------------------------------------
(* Properties *)

TypeOK ==
    /\ transfer \in [DmaChannels -> Transfers]
    /\ moved \in [DmaChannels -> Nat]
    /\ started \subseteq DmaChannels /\ ended \subseteq DmaChannels
    /\ connected \in [{1, 2} -> SUBSET DmaChannels]
    /\ queue \in started \cup {NoWord}
    /\ armMemory \subseteq Nat \X Nat /\ dspMemory \subseteq Nat \X Nat
    /\ pc \in {"idle", "loop", "transfer", "running"}
    /\ p \in Nat /\ address \in Nat /\ words \in Nat /\ n \in Nat
    /\ status \in {"OK", "DMA_ERROR"}
    /\ call \in [address : Nat, words : Nat]
    /\ async \in [channel : DmaChannels, src : Nat, len : Nat, result : -4 .. 0]
    /\ calls \in Nat

\* The words of a buffer and where they belong in ARM9 memory.
Image(a, w) == {<<a + 2 * i, i>> : i \in 0 .. w - 1}

\* No transfer in progress crosses a boundary of a page of ARM9 memory, which
\* the AHB does not allow (Note 2 of dma.c), although the check is made on
\* clamped addresses.
InOnePage(a, w) == a \div PageBytes = (a + 2 * w - 1) \div PageBytes
BurstInPage ==
    \A c \in started : InOnePage(transfer[c].arm, Length(transfer[c]))

\* proto_dma_out() stores nothing but the buffer and, when it succeeds, all of
\* it.
OutArrives ==
    /\ armMemory \subseteq Image(call.address, call.words)
    /\ pc = "idle" /\ status = "OK" =>
         armMemory = Image(call.address, call.words)

\* It fails only for an odd address, and only when the buffer reaches the last
\* byte of a page.
OnlyOddFails ==
    status = "DMA_ERROR" =>
        /\ call.address % 2 = 1
        /\ call.address \div PageBytes
               # (call.address + 2 * call.words) \div PageBytes

\* An asynchronous transfer that isn't running any more has stored all of its
\* words and nothing else, whatever proto_dma_out() did meanwhile.
AsyncArrives ==
    async.result = 0 =>
        /\ dspMemory \subseteq Image(async.src, async.len)
        /\ ~dmaTransferIsRunning(async.channel) =>
             dspMemory = Image(async.src, async.len)

\* The channel of the FIFO functions keeps the settings of dmaInit().
FifoKept == transfer[0] = Fifo /\ 0 \notin started

\* A call of proto_dma_out() returns.
DmaOutReturns == pc # "idle" ~> pc = "idle"

-----------------------------------------------------------------------------
(* The inductive invariant *)

\* What a channel that carries "t" has done: it has stored "moved" words, and
\* runs until it has stored them all.
Carries(c, t) ==
    /\ transfer[c] = t /\ t.len > 0 /\ InOnePage(t.arm, t.len)
    /\ moved[c] <= t.len
    /\ c \in started <=> moved[c] < t.len
    /\ c \in ended <=> moved[c] = t.len

\* proto_dma_out() has sent "p" words, and those the channel has moved.
OutInv ==
    /\ call.words = p + words /\ address = call.address + 2 * p
    /\ pc = "running" =>
         /\ n <= words
         /\ Carries(OutChannel, Transfer("DspToArm", address, p, n))
         /\ armMemory = Image(call.address, p + moved[OutChannel])
    /\ pc # "running" =>
         /\ OutChannel \notin started
         /\ armMemory = Image(call.address, p)
    /\ pc = "transfer" => words > 0 /\ n = ChunkWords
    /\ pc # "idle" => status = "OK"
    /\ pc = "idle" /\ status = "OK" => words = 0

AsyncInv ==
    /\ async.result = 0 =>
         /\ async.channel \notin {0, OutChannel}
         /\ Carries(async.channel, Transfer("ArmToDsp", async.src, 0, async.len))
         /\ dspMemory = Image(async.src, moved[async.channel])
    /\ async.result # 0 => dspMemory = {}
    /\ \A c \in started : c = OutChannel \/ (async.result = 0 /\ c = async.channel)
    /\ transfer[0] = Fifo

DmaOutInv == OutInv /\ AsyncInv /\ OnlyOddFails
=============================================================================
