-------------------------------- MODULE Apbp --------------------------------
(***************************************************************************)
(* The APBP mailbox between the ARM9 and the DSP: three command registers  *)
(* (ARM9 to DSP) and three reply registers (DSP to ARM9).  A register has  *)
(* a flag in REG_APBP_STAT that its writer sets and its reader clears.     *)
(*                                                                         *)
(* This module holds the registers and one operator per access.  A wait    *)
(* loop on a flag and the access after it are one step: only the other CPU *)
(* changes that flag in the direction that ends the wait, and nobody       *)
(* changes it back before the access (each register has one writer and one *)
(* reader in the programs modelled here).                                  *)
(***************************************************************************)
EXTENDS Naturals

VARIABLES
    cmd,        \* contents of REG_APBP_CMD0..2
    cmdNew,     \* APBP_STAT_CMDn_NEW
    rep,        \* contents of REG_APBP_REP0..2
    repUnread   \* APBP_STAT_REPn_UNREAD

apbpVars == <<cmd, cmdNew, rep, repUnread>>

Channels == 0..2

\* The mailbox after a reset, holding "c" and "r" in its registers.
ApbpInit(c, r) ==
    /\ cmd = c
    /\ cmdNew = [i \in Channels |-> FALSE]
    /\ rep = r
    /\ repUnread = [i \in Channels |-> FALSE]

\* Mutant of apbpSendData: the last reply isn't waited for.
SendDataNoWait(id, data) ==
    /\ rep' = [rep EXCEPT ![id] = data]
    /\ repUnread' = [repUnread EXCEPT ![id] = TRUE]
    /\ UNCHANGED <<cmd, cmdNew>>

\* DSP: wait until the ARM9 has read the last reply of the channel, write.
apbpSendData(id, data) ==
    /\ ~repUnread[id]
    /\ rep' = [rep EXCEPT ![id] = data]
    /\ repUnread' = [repUnread EXCEPT ![id] = TRUE]
    /\ UNCHANGED <<cmd, cmdNew>>

\* DSP: a load of REG_APBP_CMDn, which also clears its "new" flag.
LoadCmd(id) ==
    /\ cmdNew' = [cmdNew EXCEPT ![id] = FALSE]
    /\ UNCHANGED <<cmd, rep, repUnread>>

\* DSP: wait for a new command in the channel and read it.
apbpReceiveData(id) == cmdNew[id] /\ LoadCmd(id)

\* ARM9 (libnds): wait until the DSP has read the last command, write.
dspSendData(id, data) ==
    /\ ~cmdNew[id]
    /\ cmd' = [cmd EXCEPT ![id] = data]
    /\ cmdNew' = [cmdNew EXCEPT ![id] = TRUE]
    /\ UNCHANGED <<rep, repUnread>>

\* ARM9 (libnds): wait for an unread reply in the channel and read it.
dspReceiveData(id) ==
    /\ repUnread[id]
    /\ repUnread' = [repUnread EXCEPT ![id] = FALSE]
    /\ UNCHANGED <<cmd, cmdNew, rep>>
=============================================================================
