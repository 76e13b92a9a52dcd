---------------------------- MODULE MCInterrupts ----------------------------
(* Two peripherals that have a handler each, a third that shares one with the *)
(* first, and BTDMP 1, which isn't used.                                      *)
EXTENDS Interrupts

MCSources == {"APBP", "TMR0", "BTDMP0", "BTDMP1"}
MCBtdmp == [c \in {0, 1} |-> IF c = 0 THEN "BTDMP0" ELSE "BTDMP1"]
MCHandles == [k \in 0 .. 2 |-> CASE k = 0 -> {"APBP"} [] k = 1 -> {"BTDMP0"}
                                 [] k = 2 -> {"APBP", "TMR0"}]

MCCall(f, s, k) == [function |-> f, source |-> s, index |-> k]

EnableCalls == {MCCall("cpuEnableInt", "APBP", 0), MCCall("cpuEnableInt", "BTDMP0", 1),
                MCCall("cpuEnableInt", "TMR0", 2)}
SetupCalls == {MCCall("icuIrqSetup", "APBP", 0), MCCall("icuIrqSetup", "TMR0", 2),
               MCCall("icuIrqSetup", "APBP", 2), MCCall("icuInit", "APBP", 0),
               MCCall("icuIrqDisable", "APBP", 0), MCCall("icuIrqDisable", "BTDMP0", 0)}
AudioCalls == {MCCall("btdmpSetupOutputSpeakers", "BTDMP0", 1),
               MCCall("btdmpSetupInputMicrophone", "BTDMP0", 1),
               MCCall("btdmpDisableOutput", "BTDMP0", 0)}
InputOffCalls == {MCCall("btdmpDisableInput", "BTDMP0", 0)}

AllCalls == EnableCalls \cup SetupCalls \cup AudioCalls \cup InputOffCalls

TwoSetups == {MCCall("icuIrqSetup", "APBP", 0), MCCall("icuIrqSetup", "TMR0", 2)}
=============================================================================
