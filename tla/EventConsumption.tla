-------------------------- MODULE EventConsumption --------------------------
(***************************************************************************)
(* What a consumer with retries promises of each event, with no log,       *)
(* offsets, retry counts or callbacks: an event that was accepted waits    *)
(* until it is processed or parked; it is parked only when it has earned   *)
(* it; and the consumer stops waiting for an event it neither processed    *)
(* nor parked only when there is nothing in it, or when there is nowhere   *)
(* to park it and its retries are exhausted, and then for good.            *)
(***************************************************************************)
EXTENDS Naturals

CONSTANTS
    Events,        \* events that may be accepted
    Empty,         \* events with nothing in them
    MaxRetries,    \* how many failures of an event are tried again
    HasDeadLetter  \* is there a place to park events?

VARIABLES
    accepted,   \* events accepted
    waiting,    \* events of which an attempt is still to come, or under way
    processed,  \* events processed, once or more
    parked,     \* events parked
    failures,   \* failed attempts, by event
    refusals    \* refused requests to try again later, by event

vars == <<accepted, waiting, processed, parked, failures, refusals>>

\* An attempt at an event may be under way: it waits, or was delivered again
\* after it was processed or parked.
Attempted(e) == e \in waiting \cup processed \cup parked

Exhausted(e) == failures[e] > MaxRetries

Accept(e) ==
    /\ e \notin accepted
    /\ accepted' = accepted \cup {e}
    /\ waiting' = waiting \cup {e}
    /\ UNCHANGED <<processed, parked, failures, refusals>>

Process(e) ==
    /\ Attempted(e)
    /\ processed' = processed \cup {e}
    /\ waiting' = waiting \ {e}
    /\ UNCHANGED <<accepted, parked, failures, refusals>>

Fail(e) ==
    /\ Attempted(e)
    /\ failures' = [failures EXCEPT ![e] = @ + 1]
    /\ UNCHANGED <<accepted, waiting, processed, parked, refusals>>

Refuse(e) ==
    /\ Attempted(e)
    /\ refusals' = [refusals EXCEPT ![e] = @ + 1]
    /\ UNCHANGED <<accepted, waiting, processed, parked, failures>>

Park(e) ==
    /\ Attempted(e)
    /\ HasDeadLetter
    /\ Exhausted(e) \/ refusals[e] > 0
    /\ parked' = parked \cup {e}
    /\ waiting' = waiting \ {e}
    /\ UNCHANGED <<accepted, processed, failures, refusals>>

Forgo(S) ==
    /\ \A e \in S : e \in Empty \/ (~HasDeadLetter /\ Exhausted(e))
    /\ waiting' = waiting \ S
    /\ UNCHANGED <<accepted, processed, parked, failures, refusals>>

Init ==
    /\ accepted = {} /\ waiting = {} /\ processed = {} /\ parked = {}
    /\ failures = [e \in Events |-> 0]
    /\ refusals = [e \in Events |-> 0]

Next ==
    \/ \E e \in Events :
          Accept(e) \/ Process(e) \/ Fail(e) \/ Refuse(e) \/ Park(e)
    \/ \E S \in SUBSET waiting : Forgo(S)

Spec == Init /\ [][Next]_vars
=============================================================================
