-------------------------------- MODULE Timer --------------------------------
(***************************************************************************)
(* timer.c and one of the timers of the DSP.  The counter is read through  *)
(* two registers, for its low and its high half, while it counts down:     *)
(* timerRead() latches it first.                                           *)
(*                                                                         *)
(* main() calls the functions.  An interrupt handler can call timerRead()  *)
(* too, at any moment; main() goes on when it has returned.                *)
(***************************************************************************)
EXTENDS Integers

CONSTANTS
    Half,           \* values of half of the counter, 2^16
    Reloads,        \* starting values of the calls of timerStart()
    Configs         \* configurations of those calls

\* A value of REG_TMR_CONTROL: paused, bit 9 (unfreeze) and the mode.
Modes == {"once", "reload", "freerun"}
Controls == [paused : BOOLEAN, unfreeze : BOOLEAN, mode : Modes]

ASSUME TimerAssumption ==
    /\ Half \in Nat \ {0}
    /\ Reloads \subseteq 0 .. Half * Half - 1
    /\ Configs \subseteq Controls

VARIABLES
    counter,        \* the counter
    latch,          \* what the counter registers hold while bit 9 is 0
    control,        \* REG_TMR_CONTROL
    reload,         \* REG_TMR_RELOAD_HI and LO
    timer_control,  \* the copy of what was written to REG_TMR_CONTROL
    pc,             \* what main() and the handler ("irq") do next
    config,         \* timerStart(): its arguments
    reload_value,
    saved,          \* timerRead(): "control" and "value"
    value,
    seen,           \* history: values of the counter during the call
    interrupted     \* history: did the handler read the timer after main()
                    \* had latched it and before it had read both halves?

hardwareVars == <<counter, latch, control, reload>>
callVars == <<pc, config, reload_value, saved, value>>
histVars == <<seen, interrupted>>
vars == <<hardwareVars, timer_control, callVars, histVars>>

Threads == {"main", "irq"}

\* Mutant of High: the half isn't shifted.
HighFar(v) == v

Low(v) == v % Half
High(v) == v \div Half
Top == Half * Half - 1

\* TMR_CONTROL_PAUSE, and 0: what is written by timerStop(), and what "control"
\* and its copy hold at first.
Pause == [paused |-> TRUE, unfreeze |-> FALSE, mode |-> "once"]
Zero == [paused |-> FALSE, unfreeze |-> FALSE, mode |-> "once"]

-----------------------------------------------------------------------------
(* Hardware *)

\* What the counter registers show.
Shown == IF control.unfreeze THEN counter ELSE latch

\* A write to REG_TMR_CONTROL.  The counter is latched when bit 9 changes from 1
\* to 0.
WriteControl(c) ==
    /\ control' = c
    /\ latch' = IF control.unfreeze /\ ~c.unfreeze THEN counter ELSE latch

\* What follows 0 depends on the mode.
AfterZero ==
    CASE control.mode = "once" -> 0
      [] control.mode = "reload" -> reload.hi * Half + reload.lo
      [] control.mode = "freerun" -> Top

\* Is a call of timerRead() in progress?
Reading == {"load", "unfreeze", "freeze", "readLow", "readHigh", "restore"}

Tick ==
    /\ ~control.paused
    /\ counter' = IF counter = 0 THEN AfterZero ELSE counter - 1
    /\ seen' = [t \in Threads |->
                   IF pc[t] \in Reading THEN seen[t] \cup {counter'} ELSE {}]
    /\ UNCHANGED <<latch, control, reload, timer_control, callVars, interrupted>>

-----------------------------------------------------------------------------
(* timer.c *)

\* Which thread runs.
Runs(t) == t = "main" => pc["irq"] = "idle"
At(t, label) == Runs(t) /\ pc[t] = label
Goto(t, label) == pc' = [pc EXCEPT ![t] = label]

\* A write that doesn't restart the timer.
WriteRegister(c) == WriteControl(c) /\ UNCHANGED <<counter, reload>>

\* timerStop(), alone or called by timerStart().
StopCopy(t) ==
    /\ \/ At(t, "stopCopy") /\ Goto(t, "stopWrite")
       \/ At(t, "startStopCopy") /\ Goto(t, "startStopWrite")
    /\ timer_control' = Pause
    /\ UNCHANGED <<hardwareVars, config, reload_value, saved, value, histVars>>
StopWrite(t) ==
    /\ \/ At(t, "stopWrite") /\ Goto(t, "idle")
       \/ At(t, "startStopWrite") /\ Goto(t, "reloadLow")
    /\ WriteRegister(Pause)
    /\ UNCHANGED <<timer_control, config, reload_value, saved, value, histVars>>

\* timerStart()
ReloadLow(t) ==
    /\ At(t, "reloadLow") /\ Goto(t, "reloadHigh")
    /\ reload' = [reload EXCEPT !.lo = Low(reload_value)]
    /\ UNCHANGED <<counter, latch, control, timer_control, config, reload_value,
                   saved, value, histVars>>
ReloadHigh(t) ==
    /\ At(t, "reloadHigh") /\ Goto(t, "startCopy")
    /\ reload' = [reload EXCEPT !.hi = High(reload_value)]
    /\ UNCHANGED <<counter, latch, control, timer_control, config, reload_value,
                   saved, value, histVars>>
StartCopy(t) ==
    /\ At(t, "startCopy") /\ Goto(t, "restart")
    /\ timer_control' = config
    /\ UNCHANGED <<hardwareVars, config, reload_value, saved, value, histVars>>

\* The restart bit: the counter starts again.
Restart(t) ==
    /\ At(t, "restart") /\ Goto(t, "idle")
    /\ WriteControl(config)
    /\ counter' = IF config.mode = "freerun" THEN Top
                  ELSE reload.hi * Half + reload.lo
    /\ config' = Zero /\ reload_value' = 0
    /\ UNCHANGED <<reload, timer_control, saved, value, histVars>>

\* timerRead()
LoadCopy(t) ==
    /\ At(t, "load") /\ Goto(t, "unfreeze")
    /\ saved' = [saved EXCEPT ![t] = timer_control]
    /\ UNCHANGED <<hardwareVars, timer_control, config, reload_value, value, histVars>>

\* Mutants of Unfreeze and Freeze: bit 9 isn't set first; the pause bit is
\* cleared as well.
UnfreezeNot(c) == c
FreezeUnpaused(c) == [c EXCEPT !.unfreeze = FALSE, !.paused = FALSE]

Unfreeze(c) == [c EXCEPT !.unfreeze = TRUE]
Freeze(c) == [c EXCEPT !.unfreeze = FALSE]

WriteUnfreeze(t) ==
    /\ At(t, "unfreeze") /\ Goto(t, "freeze")
    /\ WriteRegister(Unfreeze(saved[t]))
    /\ UNCHANGED <<timer_control, config, reload_value, saved, value, histVars>>
WriteFreeze(t) ==
    /\ At(t, "freeze") /\ Goto(t, "readLow")
    /\ WriteRegister(Freeze(saved[t]))
    /\ UNCHANGED <<timer_control, config, reload_value, saved, value, histVars>>
ReadLow(t) ==
    /\ At(t, "readLow") /\ Goto(t, "readHigh")
    /\ value' = [value EXCEPT ![t] = Low(Shown)]
    /\ UNCHANGED <<hardwareVars, timer_control, config, reload_value, saved, histVars>>
ReadHigh(t) ==
    /\ At(t, "readHigh") /\ Goto(t, "restore")
    /\ value' = [value EXCEPT ![t] = @ + High(Shown) * Half]
    /\ UNCHANGED <<hardwareVars, timer_control, config, reload_value, saved, histVars>>

\* Mutant of Restored: the frozen value is left in the register.
RestoredFrozen(t) == Freeze(saved[t])

Restored(t) == saved[t]

Restore(t) ==
    /\ At(t, "restore") /\ Goto(t, "idle")
    /\ WriteRegister(Restored(t))
    /\ saved' = [saved EXCEPT ![t] = Zero] /\ value' = [value EXCEPT ![t] = 0]
    /\ seen' = [seen EXCEPT ![t] = {}]
    /\ interrupted' = IF t = "main" THEN FALSE ELSE interrupted
    /\ UNCHANGED <<timer_control, config, reload_value>>

-----------------------------------------------------------------------------
CallStart ==
    /\ At("main", "idle") /\ Goto("main", "startStopCopy")
    /\ config' \in Configs /\ reload_value' \in Reloads
    /\ UNCHANGED <<hardwareVars, timer_control, saved, value, histVars>>
CallStop ==
    /\ At("main", "idle") /\ Goto("main", "stopCopy")
    /\ UNCHANGED <<hardwareVars, timer_control, config, reload_value, saved, value,
                   histVars>>
CallRead(t) ==
    /\ At(t, "idle") /\ Goto(t, "load")
    /\ seen' = [seen EXCEPT ![t] = {counter}]
    /\ interrupted' = \/ interrupted
                      \/ t = "irq" /\ pc["main"] \in {"readLow", "readHigh"}
    /\ UNCHANGED <<hardwareVars, timer_control, config, reload_value, saved, value>>

\* The functions up to the end of the call in progress.
Function(t) ==
    \/ StopCopy(t) \/ StopWrite(t)
    \/ ReloadLow(t) \/ ReloadHigh(t) \/ StartCopy(t) \/ Restart(t)
    \/ LoadCopy(t) \/ WriteUnfreeze(t) \/ WriteFreeze(t) \/ ReadLow(t) \/ ReadHigh(t)
    \/ Restore(t)

Init ==
    /\ counter = 0 /\ latch = 0 /\ control = Zero /\ reload = [lo |-> 0, hi |-> 0]
    /\ timer_control = Zero
    /\ pc = [t \in Threads |-> "idle"]
    /\ config = Zero /\ reload_value = 0
    /\ saved = [t \in Threads |-> Zero] /\ value = [t \in Threads |-> 0]
    /\ seen = [t \in Threads |-> {}] /\ interrupted = FALSE

Next ==
    \/ Tick \/ CallStart \/ CallStop
    \/ \E t \in Threads : CallRead(t) \/ Function(t)

Spec == Init /\ [][Next]_vars
-----------------------------------------------------------------------------
(* Properties *)

Values == 0 .. Top
Labels == {"idle", "stopCopy", "stopWrite", "startStopCopy", "startStopWrite",
           "reloadLow", "reloadHigh", "startCopy", "restart", "load", "unfreeze",
           "freeze", "readLow", "readHigh", "restore"}

TypeOK ==
    /\ counter \in Values /\ latch \in Values
    /\ control \in Controls /\ timer_control \in Controls
    /\ reload \in [lo : 0 .. Half - 1, hi : 0 .. Half - 1]
    /\ pc \in [Threads -> Labels]
    /\ config \in Configs \cup {Zero} /\ reload_value \in Reloads \cup {0}
    /\ saved \in [Threads -> Controls] /\ value \in [Threads -> Values]
    /\ seen \in [Threads -> SUBSET Values] /\ interrupted \in BOOLEAN

\* "Safely reads the 32-bit counter value" (timer.h:95): the value that
\* timerRead() returns was the value of the counter at one moment of the call,
\* never halves of two values nor an old value.  A read by an interrupt handler
\* spoils that of main() only between latching and the second half.
ReadSafe ==
    \A t \in Threads :
        pc[t] = "restore" /\ ~(t = "main" /\ interrupted) => value[t] \in seen[t]

\* Between calls, the register holds what its copy says: no call leaves the
\* timer stopped, running or frozen when it wasn't.
ControlKept == (\A t \in Threads : pc[t] = "idle") => control = timer_control

\* A timer that is stopped doesn't count until it is started again, however
\* often it is read.
StoppedStays ==
    [][timer_control.paused /\ pc["main"] \in Reading \cup {"idle"}
           => counter' = counter]_vars
=============================================================================
