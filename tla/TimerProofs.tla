----------------------------- MODULE TimerProofs -----------------------------
(***************************************************************************)
(* timerRead() is safe, for counters of any size, also when main() and an  *)
(* interrupt handler read the same timer: unless the handler does so after *)
(* main() has latched the counter and before it has read both halves.      *)
(***************************************************************************)
EXTENDS Timer, TLAPS

\* The halves of a value make it up.
LEMMA Halves ==
    ASSUME NEW v \in Nat
    PROVE  Low(v) + High(v) * Half = v
  <1> PICK h \in Nat : h = Half /\ h > 0
    BY TimerAssumption
  <1>1. v = h * (v \div h) + (v % h)
    BY SMT
  <1> QED
    BY <1>1 DEF Low, High

\* What each read relies on: the counter has been seen; from latching until both
\* halves have been read, the latch holds a value that was seen.  A read by the
\* handler between unfreezing and freezing may leave the timer frozen, but then
\* with a value that main() has seen too.
ReadTypes ==
    /\ counter \in Nat /\ latch \in Nat
    /\ reload \in [lo : Nat, hi : Nat] /\ config \in Controls
    /\ control \in Controls /\ timer_control \in Controls
    /\ pc \in [Threads -> Labels] /\ saved \in [Threads -> Controls]
    /\ value \in [Threads -> Nat] /\ seen \in [Threads -> SUBSET Nat]
    /\ reload_value \in Nat /\ interrupted \in BOOLEAN

HandlerInv ==
    /\ pc["irq"] \in Reading \cup {"idle"}
    /\ pc["irq"] \in Reading => counter \in seen["irq"]
    /\ pc["irq"] = "freeze" => control.unfreeze
    /\ pc["irq"] \in {"readLow", "readHigh"} =>
         ~control.unfreeze /\ latch \in seen["irq"]
    /\ pc["irq"] = "readHigh" => value["irq"] = Low(latch)
    /\ pc["irq"] = "restore" => value["irq"] \in seen["irq"]

MainInv ==
    /\ pc["main"] \in Reading => counter \in seen["main"]
    /\ pc["main"] = "freeze" => control.unfreeze \/ latch \in seen["main"]
    /\ pc["main"] \in {"readLow", "readHigh"} /\ ~interrupted =>
         pc["irq"] = "idle" /\ ~control.unfreeze /\ latch \in seen["main"]
    /\ pc["main"] = "readHigh" /\ ~interrupted => value["main"] = Low(latch)
    /\ pc["main"] = "restore" /\ ~interrupted => value["main"] \in seen["main"]

ReadInv == ReadTypes /\ HandlerInv /\ MainInv

\* The halves of a value, and the values that the counter restarts with, are
\* numbers.
LEMMA Numbers ==
    /\ Half * Half - 1 \in Nat
    /\ \A v \in Nat : Low(v) \in Nat /\ High(v) \in Nat /\ High(v) * Half \in Nat
    /\ \A r \in [lo : Nat, hi : Nat] : r.hi * Half + r.lo \in Nat
    /\ Reloads \subseteq Nat
  <1> PICK h \in Nat : h = Half /\ h > 0
    BY TimerAssumption
  <1>1. h * h - 1 \in Nat
    BY SMT
  <1>2. \A v \in Nat : v % h \in Nat /\ v \div h \in Nat
    BY SMT
  <1>3. \A a, b \in Nat : a * h \in Nat /\ a * h + b \in Nat
    BY SMT
  <1>4. \A v \in Nat : Low(v) \in Nat /\ High(v) \in Nat
    BY <1>2 DEF Low, High
  <1>5. \A r \in [lo : Nat, hi : Nat] : r.lo \in Nat /\ r.hi \in Nat
    OBVIOUS
  <1>6. Reloads \subseteq Nat
    BY TimerAssumption
  <1> QED
    BY <1>1, <1>3, <1>4, <1>5, <1>6

\* No read has begun.
LEMMA InitReadInv == Init => ReadInv
  <1> SUFFICES ASSUME Init PROVE ReadInv
    OBVIOUS
  <1>1. Zero \in Controls
    BY DEF Zero, Controls, Modes
  <1>2. ReadTypes
    BY <1>1 DEF Init, ReadTypes, Threads, Labels
  <1>3. HandlerInv /\ MainInv
    BY DEF Init, HandlerInv, MainInv, Threads, Reading
  <1> QED
    BY <1>2, <1>3 DEF ReadInv

\* One step of the hardware, of main() or of the handler keeps the invariant.
LEMMA StepReadInv ==
    ASSUME ReadInv, [Next]_vars
    PROVE  ReadInv'
  <1> USE DEF ReadInv, ReadTypes, HandlerInv, MainInv, Threads, Labels, Reading
  <1>0. Pause \in Controls /\ Zero \in Controls
    BY DEF Pause, Zero, Controls, Modes
  <1>1. CASE Tick
    <2>1. counter' \in Nat
      BY <1>1, Numbers DEF Tick, AfterZero, Controls, Modes, Top
    <2> QED
      BY <1>1, <2>1 DEF Tick, callVars
  <1>2. CASE CallStart
    <2>1. config' \in Controls /\ reload_value' \in Nat
      BY <1>2, Numbers, TimerAssumption DEF CallStart
    <2> QED
      BY <1>2, <2>1 DEF CallStart, At, Runs, Goto, hardwareVars, histVars
  <1>3. CASE CallStop
    BY <1>3 DEF CallStop, At, Runs, Goto, hardwareVars, histVars
  <1>4. ASSUME NEW t \in Threads, CallRead(t)
        PROVE  ReadInv'
    BY <1>4 DEF CallRead, At, Runs, Goto, hardwareVars
  \* timerStart() and timerStop(), which only main() calls
  <1>5. ASSUME NEW t \in Threads,
               StopCopy(t) \/ StopWrite(t) \/ ReloadLow(t) \/ ReloadHigh(t)
                 \/ StartCopy(t) \/ Restart(t)
        PROVE  ReadInv'
    <2>1. t = "main" /\ pc["irq"] = "idle"
      BY <1>5 DEF StopCopy, StopWrite, ReloadLow, ReloadHigh, StartCopy, Restart, At,
        Runs
    <2>2. CASE StopCopy("main")
      BY <1>0, <2>1, <2>2 DEF StopCopy, At, Goto, hardwareVars, histVars
    <2>3. CASE StopWrite("main")
      BY <1>0, <2>1, <2>3 DEF StopWrite, At, Goto, WriteRegister, WriteControl, histVars
    <2>4. CASE ReloadLow("main")
      BY <2>1, <2>4, Numbers DEF ReloadLow, At, Goto, histVars
    <2>5. CASE ReloadHigh("main")
      BY <2>1, <2>5, Numbers DEF ReloadHigh, At, Goto, histVars
    <2>6. CASE StartCopy("main")
      BY <2>1, <2>6 DEF StartCopy, At, Goto, hardwareVars, histVars
    <2>7. CASE Restart("main")
      <3>1. counter' \in Nat
        BY <2>7, Numbers DEF Restart, Top
      <3> QED
        BY <1>0, <2>1, <2>7, <3>1 DEF Restart, At, Goto, WriteControl, histVars
    <2> QED
      BY <1>5, <2>1, <2>2, <2>3, <2>4, <2>5, <2>6, <2>7
  <1>6. ASSUME NEW t \in Threads, LoadCopy(t)
        PROVE  ReadInv'
    BY <1>6 DEF LoadCopy, At, Runs, Goto, hardwareVars, histVars
  <1>7. ASSUME NEW t \in Threads, WriteUnfreeze(t)
        PROVE  ReadInv'
    BY <1>7 DEF WriteUnfreeze, Unfreeze, At, Runs, Goto, WriteRegister, WriteControl,
      Controls, histVars
  <1>8. ASSUME NEW t \in Threads, WriteFreeze(t)
        PROVE  ReadInv'
    <2> DEFINE c == Freeze(saved[t])
    <2>1. c \in Controls /\ ~c.unfreeze
      BY DEF Freeze, Controls
    <2>2. /\ pc[t] = "freeze" /\ (t = "main" => pc["irq"] = "idle")
          /\ pc' = [pc EXCEPT ![t] = "readLow"] /\ control' = c
          /\ latch' = IF control.unfreeze /\ ~c.unfreeze THEN counter ELSE latch
          /\ UNCHANGED <<counter, reload, timer_control, config, reload_value, saved,
                         value, seen, interrupted>>
      BY <1>8 DEF WriteFreeze, At, Runs, Goto, WriteRegister, WriteControl, histVars
    <2> HIDE DEF c
    <2>3. CASE t = "irq"
      BY <2>1, <2>2, <2>3
    <2>4. CASE t = "main"
      BY <2>1, <2>2, <2>4
    <2> QED
      BY <2>3, <2>4
  <1>9. ASSUME NEW t \in Threads, ReadLow(t)
        PROVE  ReadInv'
    BY <1>9, Numbers DEF ReadLow, Shown, At, Runs, Goto, hardwareVars, histVars
  <1>10. ASSUME NEW t \in Threads, ReadHigh(t)
         PROVE  ReadInv'
    <2>1. value[t] + High(Shown) * Half \in Nat
      BY Numbers DEF Shown
    <2>2. value' = [value EXCEPT ![t] = value[t] + High(Shown) * Half]
      BY <1>10 DEF ReadHigh
    <2>3. Low(latch) + High(latch) * Half = latch
      BY Halves
    <2>4. t = "irq" \/ ~interrupted => value'[t] = latch
      BY <1>10, <2>2, <2>3 DEF ReadHigh, Shown, At
    <2> HIDE DEF High, Low, Shown
    <2> QED
      BY <1>10, <2>1, <2>2, <2>4 DEF ReadHigh, At, Runs, Goto, hardwareVars, histVars
  <1>11. ASSUME NEW t \in Threads, Restore(t)
         PROVE  ReadInv'
    BY <1>0, <1>11 DEF Restore, Restored, At, Runs, Goto, WriteRegister, WriteControl
  <1>12. CASE UNCHANGED vars
    BY <1>12 DEF vars, hardwareVars, callVars, histVars
  <1> QED
    BY <1>1, <1>2, <1>3, <1>4, <1>5, <1>6, <1>7, <1>8, <1>9, <1>10, <1>11, <1>12
    DEF Next, Function

\* What timerRead() returns was the value of the counter at one moment of the
\* call (timer.h:95), whatever main() and the handler do.
THEOREM ReadsAreSafe == Spec => []ReadSafe
  <1>1. ReadInv => ReadSafe
    BY DEF ReadInv, HandlerInv, MainInv, ReadSafe, Threads, ReadTypes, Reading
  <1>2. ReadInv /\ [Next]_vars => ReadInv'
    BY StepReadInv
  <1> QED
    BY InitReadInv, <1>1, <1>2, PTL DEF Spec

-----------------------------------------------------------------------------
(* The counter and its halves stay within their widths: nothing that       *)
(* timerStart() writes or timerRead() puts together wraps.                 *)

Halved == 0 .. Half - 1

\* A value of the counter has two halves, and two halves make a value.
LEMMA Widths ==
    /\ \A v \in Values : Low(v) \in Halved /\ High(v) \in Halved
    /\ \A lo, hi \in Halved : hi * Half + lo \in Values /\ lo + hi * Half \in Values
    /\ 0 \in Halved /\ 0 \in Values /\ Top \in Values
  <1> PICK h \in Nat : h = Half /\ h > 0
    BY TimerAssumption
  <1>1. ASSUME NEW v \in 0 .. h * h - 1
        PROVE  v % h \in 0 .. h - 1 /\ v \div h \in 0 .. h - 1
    <2>1. v % h \in 0 .. h - 1 /\ v \div h \in Nat /\ v = h * (v \div h) + (v % h)
      BY SMT
    <2>2. \A q \in Nat : q >= h => h * q >= h * h
      BY SMT
    <2> QED
      BY <2>1, <2>2
  <1>2. ASSUME NEW lo \in 0 .. h - 1, NEW hi \in 0 .. h - 1
        PROVE  hi * h + lo \in 0 .. h * h - 1
    <2>1. hi * h <= (h - 1) * h
      BY SMT
    <2>2. hi * h + lo <= (h - 1) * h + (h - 1)
      BY <2>1, SMT
    <2>3. (h - 1) * h + (h - 1) = h * h - 1
      BY SMT
    <2>4. hi * h \in Nat
      BY SMT
    <2> QED
      BY <2>2, <2>3, <2>4
  <1>3. h * h - 1 \in Nat
    BY SMT
  <1>4. \A v \in Values : Low(v) \in Halved /\ High(v) \in Halved
    BY <1>1 DEF Values, Top, Low, High, Halved
  <1>5. \A lo, hi \in Halved : hi * Half + lo \in Values /\ lo + hi * Half \in Values
    <2> SUFFICES ASSUME NEW lo \in 0 .. h - 1, NEW hi \in 0 .. h - 1
                 PROVE  hi * h + lo \in 0 .. h * h - 1 /\ lo + hi * h \in 0 .. h * h - 1
      BY DEF Halved, Values, Top
    <2>1. hi * h + lo = lo + hi * h
      BY SMT
    <2> QED
      BY <1>2, <2>1
  <1> QED
    BY <1>3, <1>4, <1>5 DEF Halved, Values, Top

\* What timerRead() has read first is a half when it adds the second one.
TypeInv ==
    /\ TypeOK
    /\ \A t \in Threads : pc[t] = "readHigh" => value[t] \in Halved

\* The variables have their types at the start.
LEMMA InitTypeInv == Init => TypeInv
  <1> SUFFICES ASSUME Init PROVE TypeInv
    OBVIOUS
  <1>1. Zero \in Controls
    BY DEF Zero, Controls, Modes
  <1> QED
    BY <1>1, Widths DEF Init, TypeInv, TypeOK, Threads, Labels, Halved

\* Every step keeps the types.
LEMMA StepTypeInv ==
    ASSUME TypeInv, [Next]_vars
    PROVE  TypeInv'
  <1> USE DEF TypeInv, TypeOK, Threads, Labels
  <1>0. Pause \in Controls /\ Zero \in Controls /\ Configs \subseteq Controls
    BY TimerAssumption DEF Pause, Zero, Controls, Modes
  <1>a. reload.lo \in Halved /\ reload.hi \in Halved /\ Shown \in Values
    BY DEF Halved, Shown
  <1>1. CASE Tick
    <2>1. AfterZero \in Values
      BY <1>a, Widths DEF AfterZero, Controls, Modes
    <2>2. counter' \in Values
      <3>1. Top \in Nat
        BY Numbers DEF Top
      <3> QED
        BY <1>1, <2>1, <3>1 DEF Tick, Values
    <2> QED
      BY <1>1, <2>2 DEF Tick, callVars
  <1>2. CASE CallStart
    BY <1>2 DEF CallStart, At, Runs, Goto, hardwareVars, histVars
  <1>3. CASE CallStop
    BY <1>3 DEF CallStop, At, Runs, Goto, hardwareVars, histVars
  <1>4. ASSUME NEW t \in Threads, CallRead(t)
        PROVE  TypeInv'
    BY <1>4 DEF CallRead, At, Runs, Goto, hardwareVars
  <1>5. ASSUME NEW t \in Threads, StopCopy(t)
        PROVE  TypeInv'
    BY <1>0, <1>5 DEF StopCopy, At, Goto, hardwareVars, histVars
  <1>6. ASSUME NEW t \in Threads, StopWrite(t)
        PROVE  TypeInv'
    BY <1>0, <1>6 DEF StopWrite, At, Goto, WriteRegister, WriteControl, histVars
  <1>7. ASSUME NEW t \in Threads, ReloadLow(t) \/ ReloadHigh(t)
        PROVE  TypeInv'
    <2>1. reload_value \in Values
      BY Widths, TimerAssumption DEF Values, Top
    <2>2. Low(reload_value) \in 0 .. Half - 1 /\ High(reload_value) \in 0 .. Half - 1
      BY <2>1, Widths DEF Halved
    <2>3. CASE ReloadLow(t)
      BY <2>2, <2>3 DEF ReloadLow, At, Goto, histVars
    <2>4. CASE ReloadHigh(t)
      BY <2>2, <2>4 DEF ReloadHigh, At, Goto, histVars
    <2> QED
      BY <1>7, <2>3, <2>4
  <1>8. ASSUME NEW t \in Threads, StartCopy(t)
        PROVE  TypeInv'
    BY <1>0, <1>8 DEF StartCopy, At, Goto, hardwareVars, histVars
  <1>9. ASSUME NEW t \in Threads, Restart(t)
        PROVE  TypeInv'
    <2>1. counter' \in Values
      BY <1>9, <1>a, Widths DEF Restart
    <2> QED
      BY <1>0, <1>9, <2>1 DEF Restart, At, Goto, WriteControl, histVars
  <1>10. ASSUME NEW t \in Threads, LoadCopy(t)
         PROVE  TypeInv'
    BY <1>10 DEF LoadCopy, At, Goto, hardwareVars, histVars
  <1>11. ASSUME NEW t \in Threads, WriteUnfreeze(t) \/ WriteFreeze(t)
         PROVE  TypeInv'
    <2>1. Unfreeze(saved[t]) \in Controls /\ Freeze(saved[t]) \in Controls
      BY DEF Unfreeze, Freeze, Controls
    <2> QED
      BY <1>11, <2>1 DEF WriteUnfreeze, WriteFreeze, At, Goto, WriteRegister,
        WriteControl, histVars
  <1>12. ASSUME NEW t \in Threads, ReadLow(t)
         PROVE  TypeInv'
    <2>1. Low(Shown) \in Halved
      BY <1>a, Widths
    <2>2. 0 * Half + Low(Shown) \in Values /\ Low(Shown) \in Nat
      BY <2>1, Widths DEF Halved
    <2>3. 0 * Half = 0
      BY TimerAssumption
    <2>4. Low(Shown) \in Values
      BY <2>2, <2>3
    <2> QED
      BY <1>12, <2>1, <2>4 DEF ReadLow, At, Goto, hardwareVars, histVars
  <1>13. ASSUME NEW t \in Threads, ReadHigh(t)
         PROVE  TypeInv'
    <2>1. value[t] + High(Shown) * Half \in Values
      BY <1>13, <1>a, Widths DEF ReadHigh, At
    <2> HIDE DEF Values
    <2> QED
      BY <1>13, <2>1 DEF ReadHigh, At, Goto, hardwareVars, histVars
  <1>14. ASSUME NEW t \in Threads, Restore(t)
         PROVE  TypeInv'
    BY <1>0, <1>14, Widths DEF Restore, Restored, At, Goto, WriteRegister, WriteControl
  <1>15. CASE UNCHANGED vars
    BY <1>15 DEF vars, hardwareVars, callVars, histVars
  <1> QED
    BY <1>1, <1>2, <1>3, <1>4, <1>5, <1>6, <1>7, <1>8, <1>9, <1>10, <1>11, <1>12,
       <1>13, <1>14, <1>15
    DEF Next, Function

\* The counter, its halves and what timerRead() returns keep within their
\* widths, and the registers hold values that the code may write.
THEOREM TimerTypes == Spec => []TypeOK
  <1>1. TypeInv => TypeOK
    BY DEF TypeInv
  <1>2. TypeInv /\ [Next]_vars => TypeInv'
    BY StepTypeInv
  <1> QED
    BY InitTypeInv, <1>1, <1>2, PTL DEF Spec

-----------------------------------------------------------------------------
(* The control register and its copy.                                      *)

\* timerStart() and timerStop() write the copy first; timerRead() puts back
\* what the copy said, and the copy doesn't change meanwhile, not even when the
\* handler reads the timer in the middle of one of them.
ControlInv ==
    /\ control \in Controls /\ timer_control \in Controls /\ config \in Controls
    /\ pc \in [Threads -> Labels] /\ saved \in [Threads -> Controls]
    /\ pc["irq"] \in Reading \cup {"idle"}
    /\ \A t \in Threads : pc[t] \in Reading \ {"load"} => saved[t] = timer_control
    /\ pc["main"] \in {"stopWrite", "startStopWrite"} => timer_control = Pause
    /\ pc["main"] = "restart" => timer_control = config
    /\ pc["main"] \in Reading \cup {"idle"} => control.paused = timer_control.paused
    /\ ControlKept

\* The register and its copy agree at the start.
LEMMA InitControlInv == Init => ControlInv
  <1> SUFFICES ASSUME Init PROVE ControlInv
    OBVIOUS
  <1>1. Zero \in Controls
    BY DEF Zero, Controls, Modes
  <1> QED
    BY <1>1 DEF Init, ControlInv, ControlKept, Threads, Labels, Reading

\* No step of main() or of the handler makes the register and its copy differ
\* for good.
LEMMA StepControlInv ==
    ASSUME ControlInv, [Next]_vars
    PROVE  ControlInv'
  <1> USE DEF ControlInv, ControlKept, Threads, Labels, Reading
  <1>0. /\ Pause \in Controls /\ Zero \in Controls /\ Configs \subseteq Controls
        /\ \A c \in Controls : /\ Unfreeze(c) \in Controls /\ Unfreeze(c).paused = c.paused
                               /\ Freeze(c) \in Controls /\ Freeze(c).paused = c.paused
    BY TimerAssumption DEF Pause, Zero, Controls, Modes, Unfreeze, Freeze
  <1>1. CASE Tick
    BY <1>1 DEF Tick, callVars
  <1>2. CASE CallStart
    BY <1>0, <1>2 DEF CallStart, At, Runs, Goto, hardwareVars, histVars
  <1>3. CASE CallStop
    BY <1>3 DEF CallStop, At, Runs, Goto, hardwareVars, histVars
  <1>4. ASSUME NEW t \in Threads, CallRead(t)
        PROVE  ControlInv'
    BY <1>4 DEF CallRead, At, Runs, Goto, hardwareVars
  <1>5. ASSUME NEW t \in Threads, StopCopy(t) \/ StopWrite(t)
        PROVE  ControlInv'
    BY <1>0, <1>5 DEF StopCopy, StopWrite, At, Runs, Goto, WriteRegister, WriteControl,
      hardwareVars, histVars
  <1>6. ASSUME NEW t \in Threads, ReloadLow(t) \/ ReloadHigh(t)
        PROVE  ControlInv'
    BY <1>6 DEF ReloadLow, ReloadHigh, At, Runs, Goto, histVars
  <1>7. ASSUME NEW t \in Threads, StartCopy(t) \/ Restart(t)
        PROVE  ControlInv'
    BY <1>0, <1>7 DEF StartCopy, Restart, At, Runs, Goto, WriteControl, hardwareVars,
      histVars
  <1>8. ASSUME NEW t \in Threads, LoadCopy(t)
        PROVE  ControlInv'
    BY <1>8 DEF LoadCopy, At, Runs, Goto, hardwareVars, histVars
  <1>9. ASSUME NEW t \in Threads, WriteUnfreeze(t) \/ WriteFreeze(t)
        PROVE  ControlInv'
    BY <1>0, <1>9 DEF WriteUnfreeze, WriteFreeze, At, Runs, Goto, WriteRegister,
      WriteControl, histVars
  <1>10. ASSUME NEW t \in Threads, ReadLow(t) \/ ReadHigh(t)
         PROVE  ControlInv'
    BY <1>10 DEF ReadLow, ReadHigh, At, Runs, Goto, hardwareVars, histVars
  <1>11. ASSUME NEW t \in Threads, Restore(t)
         PROVE  ControlInv'
    BY <1>0, <1>11 DEF Restore, Restored, At, Runs, Goto, WriteRegister, WriteControl
  <1>12. CASE UNCHANGED vars
    BY <1>12 DEF vars, hardwareVars, callVars, histVars
  <1> QED
    BY <1>1, <1>2, <1>3, <1>4, <1>5, <1>6, <1>7, <1>8, <1>9, <1>10, <1>11, <1>12
    DEF Next, Function

\* Only a tick or a restart changes the counter: not while the copy says that
\* the timer is stopped and no timerStart() or timerStop() is in progress.
LEMMA StoppedStep ==
    ASSUME ControlInv, [Next]_vars,
           timer_control.paused, pc["main"] \in Reading \cup {"idle"}
    PROVE  counter' = counter
  <1> USE DEF ControlInv, Threads, Reading
  <1>1. ~Tick
    BY DEF Tick
  <1>2. \A t \in Threads : ~Restart(t)
    BY DEF Restart, At
  <1>3. CASE CallStart \/ CallStop
    BY <1>3 DEF CallStart, CallStop, hardwareVars
  <1>4. ASSUME NEW t \in Threads, CallRead(t) \/ Function(t)
        PROVE  counter' = counter
    BY <1>2, <1>4 DEF CallRead, Function, StopCopy, StopWrite, ReloadLow, ReloadHigh,
      StartCopy, LoadCopy, WriteUnfreeze, WriteFreeze, ReadLow, ReadHigh, Restore,
      WriteRegister, hardwareVars
  <1>5. CASE UNCHANGED vars
    BY <1>5 DEF vars, hardwareVars
  <1> QED
    BY <1>1, <1>3, <1>4, <1>5 DEF Next

\* Between calls the register holds what its copy says, whatever the handler
\* did during them.
THEOREM ControlIsKept == Spec => []ControlKept
  <1>1. ControlInv => ControlKept
    BY DEF ControlInv
  <1>2. ControlInv /\ [Next]_vars => ControlInv'
    BY StepControlInv
  <1> QED
    BY InitControlInv, <1>1, <1>2, PTL DEF Spec

\* A stopped timer doesn't count, however often it is read.
THEOREM StaysStopped == Spec => StoppedStays
  <1>1. ControlInv /\ [Next]_vars => ControlInv'
    BY StepControlInv
  <1>2. ControlInv /\ [Next]_vars
          => [timer_control.paused /\ pc["main"] \in Reading \cup {"idle"}
                 => counter' = counter]_vars
    BY StoppedStep
  <1> QED
    BY InitControlInv, <1>1, <1>2, PTL DEF Spec, StoppedStays
=============================================================================
