--------------------------------- MODULE Dma ---------------------------------
(***************************************************************************)
(* dma.c and ahbm.h: transfers between the memory of the ARM9 and the data *)
(* memory of the DSP, and the DMA and AHBM hardware that carries them out. *)
(*                                                                         *)
(* A transfer is the DMA channel's source, destination and length.  The    *)
(* ARM9 side is a byte address, the DSP side the index of a word.  Writing *)
(* the registers of a channel and starting it is one step: the functions   *)
(* are called by one program (not by an interrupt handler), and the        *)
(* hardware does not look at a channel before it is started.               *)
(*                                                                         *)
(* The hardware moves one word at a time through the AHBM channel that the *)
(* DMA channel is connected to: Fetch puts it in the AHBM queue, Store     *)
(* takes it out.                                                           *)
(***************************************************************************)
EXTENDS Integers

CONSTANTS
    DmaChannels,    \* DMA channels, 0 .. 7 in the hardware
    PageBytes,      \* PAGE_SIZE of dma.c, 1024
    Wrap            \* 2^16, what an address is clamped to

ASSUME DmaAssumption ==
    /\ DmaChannels \subseteq Nat /\ 0 \in DmaChannels
    /\ PageBytes \in Nat \ {0} /\ PageBytes % 2 = 0
    /\ Wrap \in Nat \ {0} /\ Wrap % PageBytes = 0 /\ Wrap > PageBytes

VARIABLES
    transfer,   \* the registers of every DMA channel
    moved,      \* how many words of its transfer a channel has stored
    started,    \* channels that were started and have not finished
    ended,      \* REG_DMA_DIM2_END
    connected,  \* REG_AHBM_CH_CFG_DMA of AHBM channels 1 and 2
    queue,      \* the DMA channel whose word is in the AHBM queue, or NoWord
    armMemory,  \* words stored in ARM9 memory: ARM9 address and DSP word
    dspMemory   \* words stored in DSP memory: ARM9 address and DSP word

dmaVars == <<transfer, moved, started, ended, connected, queue, armMemory,
             dspMemory>>

NoWord == 0 - 1

\* ARM9 to DSP transfers use AHBM channel 1, the others AHBM channel 2.
AhbmChannel == [ArmToDsp |-> 1, DspToArm |-> 2]

\* A transfer between ARM9 address "arm" and DSP word "dsp".
Transfers == [direction : {"ArmToDsp", "DspToArm"}, arm : Nat, dsp : Nat,
              len : Nat]
Transfer(direction, arm, dsp, len) ==
    [direction |-> direction, arm |-> arm, dsp |-> dsp, len |-> len]

\* teakInit(): channel 0 is set up for the FIFO of the ARM9 by dmaInit().
Fifo == Transfer("ArmToDsp", 0, 0, 0)
DmaInit ==
    /\ transfer = [c \in DmaChannels |-> Fifo]
    /\ moved = [c \in DmaChannels |-> 0]
    /\ started = {} /\ ended = {}
    /\ connected = [a \in {1, 2} |-> {}]
    /\ queue = NoWord
    /\ armMemory = {} /\ dspMemory = {}

-----------------------------------------------------------------------------
(* dma.c *)

\* The page of an ARM9 address, which has been clamped to 16 bits.
ClampedPage(address) == (address % Wrap) \div PageBytes

\* Mutants of Check: the byte after the last word counts as well; the page
\* or the size is not checked.
CheckPageEnd(channel, address, len) ==
    IF len = 0 THEN -1
    ELSE IF len > PageBytes \div 2 THEN -2
    ELSE IF channel = 0 THEN -3
    ELSE IF ClampedPage(address) # ClampedPage(address + 2 * len) THEN -4
    ELSE 0
CheckNoPage(channel, address, len) ==
    IF len = 0 THEN -1 ELSE IF len > PageBytes \div 2 THEN -2
    ELSE IF channel = 0 THEN -3 ELSE 0
CheckNoSize(channel, address, len) ==
    IF len > PageBytes \div 2 THEN -2 ELSE IF channel = 0 THEN -3 ELSE 0

\* The checks of the four transfer functions in their order, and what they return.
Check(channel, address, len) ==
    IF len = 0 THEN -1
    ELSE IF len > PageBytes \div 2 THEN -2
    ELSE IF channel = 0 THEN -3
    ELSE IF ClampedPage(address) # ClampedPage(address + 2 * len - 1) THEN -4
    ELSE 0

ahbmIsBusy == queue # NoWord

\* dmaTransferStart...Unsafe(): resets the AHBM channel, sets up the DMA
\* channel, connects it and starts it.
StartUnsafe(channel, t) ==
    /\ transfer' = [transfer EXCEPT ![channel] = t]
    /\ moved' = [moved EXCEPT ![channel] = 0]
    /\ started' = started \cup {channel}
    /\ ended' = ended \ {channel}
    /\ connected' = [connected EXCEPT ![AhbmChannel[t.direction]] = {channel}]
    /\ UNCHANGED <<queue, armMemory, dspMemory>>

ahbmResetChannel(channel) ==
    /\ connected' = [connected EXCEPT ![channel] = {}]
    /\ UNCHANGED <<transfer, moved, started, ended, queue, armMemory, dspMemory>>

\* Mutant of dmaTransferIsRunning: the flag is not waited for.
IsRunningNever(channel) == FALSE

dmaTransferIsRunning(channel) == channel # 0 /\ channel \notin ended

-----------------------------------------------------------------------------
(* Hardware *)

\* A copy of size 0 still copies one word.
Length(t) == IF t.len = 0 THEN 1 ELSE t.len

Fetch(c) ==
    /\ c \in started /\ ~ahbmIsBusy
    /\ c \in connected[AhbmChannel[transfer[c].direction]]
    /\ queue' = c
    /\ UNCHANGED <<transfer, moved, started, ended, connected, armMemory,
                   dspMemory>>

\* The word is stored; after the last one the channel ends.
Store ==
    LET c == queue
        t == transfer[c]
        word == <<t.arm + 2 * moved[c], t.dsp + moved[c]>>
        last == moved[c] + 1 >= Length(t)
    IN  /\ ahbmIsBusy
        /\ queue' = NoWord
        /\ moved' = [moved EXCEPT ![c] = @ + 1]
        /\ IF t.direction = "DspToArm"
           THEN armMemory' = armMemory \cup {word} /\ UNCHANGED dspMemory
           ELSE dspMemory' = dspMemory \cup {word} /\ UNCHANGED armMemory
        /\ IF last
           THEN started' = started \ {c} /\ ended' = ended \cup {c}
           ELSE UNCHANGED <<started, ended>>
        /\ UNCHANGED <<transfer, connected>>

Hardware == Store \/ \E c \in DmaChannels : Fetch(c)
=============================================================================
