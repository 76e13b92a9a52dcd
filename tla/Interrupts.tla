----------------------------- MODULE Interrupts -----------------------------
(***************************************************************************)
(* A program that calls the functions of icu.c and btdmp.c in any order,   *)
(* the peripherals that request interrupts meanwhile, and the handlers,    *)
(* which are fixed: crt0.s calls irqHandlerInt0() .. irqHandlerInt2(), and *)
(* each one is written for the sources it acknowledges.                    *)
(***************************************************************************)
EXTENDS Icu

CONSTANTS
    Handles,        \* what the handler of each CPU interrupt acknowledges
    Calls,          \* the calls: function, source and index of CPU interrupt
    MaxCalls,       \* bound on the calls
    MaxRequests     \* bound on the requests of the peripherals

Functions == {"icuInit", "icuIrqSetup", "icuIrqDisable",
              "btdmpSetupOutputSpeakers", "btdmpSetupInputMicrophone",
              "btdmpDisableOutput", "btdmpDisableInput", "cpuEnableInt"}

ASSUME InterruptsAssumption ==
    /\ Handles \in [0 .. 2 -> SUBSET Sources]
    /\ Calls \subseteq [function : Functions, source : Sources, index : 0 .. 2]
    /\ MaxCalls \in Nat /\ MaxRequests \in Nat

VARIABLES
    todo,       \* writes left of the call in progress
    last,       \* the last call
    handler,    \* "none", or the interrupt being handled: "entered" and "acked"
    set,        \* history: sources set up, and not disabled since
    off,        \* history: sources disabled, and not set up since
    rerouted,   \* history: sources that were given to btdmpDisableInput()
    calls,
    requests

vars == <<reg, todo, last, handler, set, off, rerouted, calls, requests>>

None == [pc |-> "none", index |-> 0]

NoCall == [function |-> "icuInit", source |-> Btdmp[0], index |-> 0]

\* main() has just been called by crt0.s, with interrupts disabled.
Init ==
    /\ \E p \in {{}, Sources} :
         reg = [r \in Registers |-> IF r = "pending" THEN p ELSE {}]
    /\ todo = icuInit /\ last = NoCall
    /\ handler = None
    /\ set = {} /\ off = {} /\ rerouted = {}
    /\ calls = 0 /\ requests = 0

\* The writes of a call.
Body(c) ==
    CASE c.function = "icuInit" -> icuInit
      [] c.function = "icuIrqSetup" -> icuIrqSetup(c.source, c.index)
      [] c.function = "icuIrqDisable" -> icuIrqDisable(c.source)
      [] c.function = "btdmpSetupOutputSpeakers" ->
           BtdmpSetup("transmit", c.source, c.index)
      [] c.function = "btdmpSetupInputMicrophone" ->
           BtdmpSetup("receive", c.source, c.index)
      [] c.function = "btdmpDisableOutput" -> btdmpDisableOutput(c.source)
      [] c.function = "btdmpDisableInput" -> btdmpDisableInput(c.source)
      [] c.function = "cpuEnableInt" -> <<OrIn("cpu", {IntReg[c.index]})>>

Enabling == {"icuIrqSetup", "btdmpSetupOutputSpeakers",
             "btdmpSetupInputMicrophone"}

\* A source is set up only for the CPU interrupt whose handler the program wrote
\* for it.
ASSUME SetupAssumption ==
    \A c \in Calls : c.function \in Enabling => c.source \in Handles[c.index]

\* The program calls a function.
Call ==
    /\ todo = <<>> /\ handler = None /\ calls < MaxCalls
    /\ \E c \in Calls :
         /\ todo' = Body(c) /\ last' = c
         /\ off' = IF c.function \in Enabling THEN off \ {c.source} ELSE off
         /\ set' = CASE c.function \in Enabling -> set
                     [] c.function = "icuInit" -> {}
                     [] c.function = "cpuEnableInt" -> set
                     [] OTHER -> set \ {c.source}
         /\ rerouted' = IF c.function = "btdmpDisableInput"
                        THEN rerouted \cup {c.source} ELSE rerouted
    /\ calls' = calls + 1
    /\ UNCHANGED <<reg, handler, requests>>

\* Its next write.  After the last one, the call has done what it is for.
Step ==
    /\ todo # <<>> /\ handler = None
    /\ Write(Head(todo))
    /\ todo' = Tail(todo)
    /\ set' = IF Len(todo) = 1 /\ last.function \in Enabling
              THEN set \cup {last.source} ELSE set
    /\ off' = IF Len(todo) > 1 THEN off
              ELSE CASE last.function = "icuInit" -> Sources
                     [] last.function = "icuIrqDisable" -> off \cup {last.source}
                     [] OTHER -> off
    /\ UNCHANGED <<last, handler, rerouted, calls, requests>>

\* Peripherals request interrupts at any time.
Peripheral ==
    /\ requests < MaxRequests
    /\ \E s \in Sources : Request(s)
    /\ requests' = requests + 1
    /\ UNCHANGED <<todo, last, handler, set, off, rerouted, calls>>

Enter(k) ==
    /\ handler = None
    /\ Accept(k)
    /\ handler' = [pc |-> "entered", index |-> k]
    /\ UNCHANGED <<todo, last, set, off, rerouted, calls, requests>>

\* The handler acknowledges the interrupt before returning.
Acknowledge ==
    /\ handler.pc = "entered"
    /\ Write(Ack(Handles[handler.index]))
    /\ handler' = [handler EXCEPT !.pc = "acked"]
    /\ UNCHANGED <<todo, last, set, off, rerouted, calls, requests>>

\* "retic" of crt0.s enables interrupts again.
ReturnFromIrq ==
    /\ handler.pc = "acked"
    /\ Write(OrIn("cpu", {Irqs}))
    /\ handler' = None
    /\ UNCHANGED <<todo, last, set, off, rerouted, calls, requests>>

Interrupt == \E k \in 0 .. 2 : Enter(k)
Handler == Acknowledge \/ ReturnFromIrq

Next == Call \/ Step \/ Peripheral \/ Interrupt \/ Handler

Spec == Init /\ [][Next]_vars

\* The CPU doesn't stop, and takes the interrupts that it can take.
FairSpec == Spec /\ WF_vars(Step) /\ WF_vars(Interrupt) /\ WF_vars(Handler)
-----------------------------------------------------------------------------
(* Properties *)

Idle == todo = <<>>
Enabled == Sources \ reg["disable"]

\* A source that was disabled (icuIrqDisable(), icuInit()) stays disabled until
\* it is set up, whatever the calls for other sources write.
DisabledStays == off \subseteq reg["disable"]

\* Between calls, no source is enabled with inverted polarity: icuIrqSetup()
\* inverts all the others, but it disables them too.
SettledPolarity == Idle => Enabled \cap reg["polarity"] = {}

\* A CPU interrupt is only asked for by a source that its handler acknowledges,
\* even in the middle of a call.  The exception is a channel that was disabled
\* with btdmpDisableInput(), which routes it to all three (btdmp.c:168-170).
HandlerServes == \A k \in 0 .. 2 : Causes(k) \subseteq Handles[k] \cup rerouted

\* An interrupt that the CPU can take doesn't stay requested for ever: it is
\* handled (or disabled by a call).
Asks(s) == \E k \in 0 .. 2 : IntReg[k] \in reg["cpu"] /\ s \in Causes(k)
Served == \A s \in Sources : Asks(s) ~> ~Asks(s) \/ rerouted # {}

-----------------------------------------------------------------------------
(* What the comments say and the code doesn't do *)

\* icu.c:42, "Remove the mask that disables this interrupt": a source that was
\* set up is enabled until it is disabled.
SetUpStaysEnabled == Idle => set \cap reg["disable"] = {}
=============================================================================
