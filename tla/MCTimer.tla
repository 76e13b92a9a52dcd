------------------------------- MODULE MCTimer -------------------------------
(* The configuration of the examples, one without bit 9, one in mode reload   *)
(* and one in mode freerun; values around the carry between the halves.       *)
EXTENDS Timer

MCConfig(unfreeze, mode) == [paused |-> FALSE, unfreeze |-> unfreeze, mode |-> mode]
MCConfigs == {MCConfig(TRUE, "once"), MCConfig(FALSE, "once"),
              MCConfig(TRUE, "reload"), MCConfig(TRUE, "freerun")}
=============================================================================
