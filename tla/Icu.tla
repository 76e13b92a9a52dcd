--------------------------------- MODULE Icu ---------------------------------
(***************************************************************************)
(* icu.c and btdmp.c: the functions that set up the interrupts of the DSP. *)
(*                                                                         *)
(* A register is a set of flags: the ICU registers have a flag for every   *)
(* peripheral ("source") that can request an interrupt, "cpu" holds the    *)
(* interrupt enables of the CPU, "transmit" and "receive" the channels of  *)
(* the BTDMP that are enabled (each named by its interrupt source).        *)
(*                                                                         *)
(* A function is the sequence of the writes that it does: the hardware, or *)
(* an interrupt handler, can act between any two of them.                  *)
(***************************************************************************)
EXTENDS Integers, Sequences

CONSTANTS
    Sources,        \* flags of the ICU registers
    Btdmp           \* ICU_IRQ_MASK_BTDMP0 and 1: the source of each channel

ASSUME IcuAssumption == Btdmp \in [{0, 1} -> Sources]

VARIABLE reg        \* the registers

Irqs == "irqs"
IntReg == [k \in 0 .. 2 |-> <<"int0", "int1", "int2">>[k + 1]]
CpuFlags == {Irqs, "int0", "int1", "int2", "vint"}
ControlFlags == {"CMD0", "CMD1", "CMD2"}
Flags == Sources \cup CpuFlags \cup ControlFlags

Registers == {"pending", "disable", "mode", "polarity", "int0", "int1", "int2",
              "vint", "cpu", "transmit", "receive", "control"}

-----------------------------------------------------------------------------
(* Writes *)

\* A write keeps some of the flags of a register and adds others.
Writes == [reg : Registers, keep : SUBSET Flags, add : SUBSET Flags]
Assign(r, flags) == [reg |-> r, keep |-> {}, add |-> flags]
OrIn(r, flags) == [reg |-> r, keep |-> Flags, add |-> flags]
AndNot(r, flags) == [reg |-> r, keep |-> Flags \ flags, add |-> {}]
Ack(flags) == AndNot("pending", flags)

Others(s) == Sources \ {s}

Write(w) == reg' = [reg EXCEPT ![w.reg] = (@ \cap w.keep) \cup w.add]

-----------------------------------------------------------------------------
(* icu.c *)

icuInit == <<
    AndNot("cpu", {Irqs}),
    Assign("disable", Sources), Ack(Sources),
    Assign("int0", {}), Assign("int1", {}), Assign("int2", {}),
    Assign("vint", {}), Assign("mode", {}), Assign("polarity", {}),
    AndNot("cpu", {"int0"}), AndNot("cpu", {"int1"}), AndNot("cpu", {"int2"}),
    AndNot("cpu", {"vint"}), OrIn("cpu", {Irqs}) >>

\* Mutants of icuIrqSetup: other sources are left enabled; the wrong ones are
\* disabled; the interrupt isn't routed first.
SetupKeepsOthers(s, index) == <<
    OrIn("mode", {s}), Assign("polarity", Others(s)),
    AndNot("disable", {s}), Ack({s}), Assign(IntReg[index], {s}) >>
SetupEnablesOthers(s, index) == <<
    OrIn("mode", {s}), Assign("polarity", Others(s)),
    Assign("disable", {s}), Ack({s}), Assign(IntReg[index], {s}) >>
SetupRoutesTo0(s, index) == <<
    OrIn("mode", {s}), Assign("polarity", Others(s)),
    Assign("disable", Others(s)), Ack({s}), Assign("int0", {s}) >>

icuIrqSetup(s, index) == <<
    OrIn("mode", {s}), Assign("polarity", Others(s)),
    Assign("disable", Others(s)), Ack({s}), Assign(IntReg[index], {s}) >>

icuIrqDisable(s) == << OrIn("disable", {s}), Ack({s}) >>

-----------------------------------------------------------------------------
(* btdmp.c *)

\* btdmpSetupOutputSpeakers() and btdmpSetupInputMicrophone(), which differ in
\* the direction that they enable.
BtdmpSetup(direction, s, index) == <<
    AndNot(direction, {s}), Assign(IntReg[index], {s}),
    AndNot("mode", {s}), AndNot("polarity", {s}), AndNot("disable", {s}),
    Ack({s}), OrIn(direction, {s}) >>

btdmpDisableOutput(s) == <<
    OrIn("disable", Others(s)), Ack({s}), AndNot("transmit", {s}),
    AndNot("int0", {s}), AndNot("int1", {s}), AndNot("int2", {s}) >>

btdmpDisableInput(s) == <<
    OrIn("disable", {s}), Ack({s}), AndNot("receive", {s}),
    Assign("int0", {s}), Assign("int1", {s}), Assign("int2", {s}) >>

-----------------------------------------------------------------------------
(* Hardware *)

\* A peripheral requests an interrupt.
Request(s) == reg' = [reg EXCEPT !["pending"] = @ \cup {s}]

\* The sources that ask for CPU interrupt k.
Causes(k) == (reg["pending"] \cap reg[IntReg[k]]) \ reg["disable"]

\* The CPU takes an interrupt: others wait until the handler returns.
Accept(k) ==
    /\ {Irqs, IntReg[k]} \subseteq reg["cpu"]
    /\ Causes(k) # {}
    /\ Write(AndNot("cpu", {Irqs}))
=============================================================================
