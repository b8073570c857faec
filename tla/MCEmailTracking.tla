--------------------------- MODULE MCEmailTracking ---------------------------
(***************************************************************************)
(* Instances of EmailTracking for TLC: one e-mail whose provider reports    *)
(* that it was delivered, and later that the recipient complained.          *)
(***************************************************************************)
EXTENDS EmailTracking, TLC

CONSTANTS m1, delivery, complaint, h1, h2

MCMessageOf == delivery :> m1 @@ complaint :> m1
MCKindOf == delivery :> "delivered" @@ complaint :> "complained"
MCOccurredAt == delivery :> 1 @@ complaint :> 2

MCHandlers == {h1, h2}
=============================================================================
