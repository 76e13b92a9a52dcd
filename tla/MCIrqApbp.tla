------------------------------ MODULE MCIrqApbp ------------------------------
EXTENDS IrqApbp

MCBtdmp == [c \in {0, 1} |-> "BTDMP"]
=============================================================================
