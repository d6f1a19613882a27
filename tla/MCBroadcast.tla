----------------------------- MODULE MCBroadcast -----------------------------
(***************************************************************************)
(* Small instances of Broadcast for TLC: two processes, one account that   *)
(* an action may need.                                                     *)
(***************************************************************************)
EXTENDS Broadcast
CONSTANTS p1, p2, ata
=============================================================================
