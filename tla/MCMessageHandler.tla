--------------------------- MODULE MCMessageHandler ---------------------------
(***************************************************************************)
(* Instances of MessageHandler for TLC.                                    *)
(***************************************************************************)
EXTENDS MessageHandler, TLC
=============================================================================
