---------------------------- MODULE MCSpeakersMic ----------------------------
(* The two channels of the BTDMP. *)
EXTENDS SpeakersMic

MCBtdmp == [i \in {0, 1} |-> <<"BTDMP0", "BTDMP1">>[i + 1]]
MCSources == {"BTDMP0", "BTDMP1"}
=============================================================================
