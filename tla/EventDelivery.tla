--------------------------- MODULE EventDelivery ---------------------------
(***************************************************************************)
(* What the transactional outbox promises of each event, with no tables,  *)
(* pollers or statements: an event is accepted once; while it is open it   *)
(* may be delivered, any number of times; it is closed only when it was    *)
(* delivered; it may be parked, and only an explicit revival opens it      *)
(* again; and it is forgotten only when delivered or parked.               *)
(***************************************************************************)
CONSTANT Events

VARIABLES phase,      \* [Events -> Phase]
          delivered   \* the events delivered at least once

vars == <<phase, delivered>>

Phase == {"new", "open", "closed", "parked", "forgotten"}

Move(e, from, to) == phase[e] = from /\ phase' = [phase EXCEPT ![e] = to]

Accept(e) == Move(e, "new", "open") /\ UNCHANGED delivered

Deliver(e) ==
    /\ phase[e] = "open"
    /\ delivered' = delivered \cup {e}
    /\ UNCHANGED phase

Close(e) == e \in delivered /\ Move(e, "open", "closed") /\ UNCHANGED delivered

Park(e) == Move(e, "open", "parked") /\ UNCHANGED delivered

Revive(e) == Move(e, "parked", "open") /\ UNCHANGED delivered

Forget(S) ==
    /\ \A e \in S :
          \/ phase[e] = "parked"
          \/ phase[e] \in {"open", "closed"} /\ e \in delivered
    /\ phase' = [e \in Events |-> IF e \in S THEN "forgotten" ELSE phase[e]]
    /\ UNCHANGED delivered

Init == phase = [e \in Events |-> "new"] /\ delivered = {}

Next ==
    \/ \E e \in Events :
          Accept(e) \/ Deliver(e) \/ Close(e) \/ Park(e) \/ Revive(e)
    \/ \E S \in SUBSET Events : Forget(S)

Spec == Init /\ [][Next]_vars
=============================================================================
