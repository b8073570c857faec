---------------------------- MODULE MCEventReplay ----------------------------
(***************************************************************************)
(* Instances of EventReplay for TLC.                                       *)
(***************************************************************************)
EXTENDS EventReplay, TLC
=============================================================================
