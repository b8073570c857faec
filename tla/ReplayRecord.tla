---------------------------- MODULE ReplayRecord ----------------------------
(***************************************************************************)
(* What replay sessions promise, with no tasks, semaphores or queues: a     *)
(* session sends the events it has picked, at most MaxParallel of them at   *)
(* once and none that takes off after it was cancelled; a row is marked by  *)
(* an event that lands and was sent; and a session is completed when every  *)
(* event it has picked has succeeded, and keeps that result.                *)
(***************************************************************************)
EXTENDS Naturals, FiniteSets

CONSTANTS Events, Replays, MaxParallel, None

VARIABLES
    status,  \* of each session
    fate,    \* of each event in it
    sent,    \* events of which a message of the session exists
    row      \* the events' rows, with the session that replayed them last

vars == <<status, fate, sent, row>>

Fated(r, S) == {e \in Events : fate[r][e] \in S}

Turn(r, from, to) == status[r] \in from /\ status' = [status EXCEPT ![r] = to]

Start(r) == Turn(r, {"none"}, "pending") /\ UNCHANGED <<fate, sent, row>>

\* A session with nothing to replay is complete.
Pick(r, batch) ==
    /\ status[r] = "pending" /\ Fated(r, {"none"}) = Events
    /\ \A e \in batch : row[e].exists
    /\ fate' = [fate EXCEPT ![r] = [e \in Events |->
                    IF e \in batch THEN "picked" ELSE "none"]]
    /\ status' = IF batch = {} THEN [status EXCEPT ![r] = "completed"] ELSE status
    /\ UNCHANGED <<sent, row>>

Refuse(r) ==
    /\ Turn(r, {"pending"}, "failed")
    /\ Fated(r, {"none"}) = Events
    /\ UNCHANGED <<fate, sent, row>>

\* A cancellation that comes before the session begins is overlooked.
Begin(r) ==
    /\ Turn(r, {"pending", "cancelled"}, "in_progress")
    /\ Fated(r, {"none", "picked"}) = Events
    /\ UNCHANGED <<fate, sent, row>>

Cancel(r) ==
    /\ Turn(r, {"pending", "in_progress"}, "cancelled")
    /\ UNCHANGED <<fate, sent, row>>

TakeOff(r, e) ==
    /\ status[r] = "in_progress"
    /\ fate[r][e] = "picked"
    /\ Cardinality(Fated(r, {"flying"})) < MaxParallel
    /\ fate' = [fate EXCEPT ![r][e] = "flying"]
    /\ UNCHANGED <<status, sent, row>>

Send(r, e) ==
    /\ fate[r][e] = "flying"
    /\ sent' = [sent EXCEPT ![r] = @ \cup {e}]
    /\ UNCHANGED <<status, fate, row>>

\* The row of an event that was sent takes note of it, if there is one.
Mark(r, e) ==
    /\ e \in sent[r]
    /\ row' = IF row[e].exists
              THEN [row EXCEPT ![e] = [row[e] EXCEPT
                        !.lastReplay = r, !.replayedCount = row[e].replayedCount + 1]]
              ELSE row

Land(r, e) ==
    /\ fate[r][e] = "flying"
    /\ \/ /\ fate' = [fate EXCEPT ![r][e] = "succeeded"]
          /\ Mark(r, e) /\ UNCHANGED sent
       \/ /\ fate' = [fate EXCEPT ![r][e] = "failed"]
          /\ \/ (Mark(r, e) \/ UNCHANGED row) /\ UNCHANGED sent
             \/ sent' = [sent EXCEPT ![r] = @ \cup {e}] /\ UNCHANGED row
    /\ UNCHANGED status

Conclude(r) ==
    /\ Fated(r, {"none", "succeeded", "failed"}) = Events
    /\ Turn(r, {"in_progress"},
            IF Fated(r, {"failed"}) = {} THEN "completed" ELSE "failed")
    /\ UNCHANGED <<fate, sent, row>>

Forget(r) ==
    /\ Turn(r, {"completed", "failed", "cancelled"}, "gone")
    /\ Fated(r, {"flying"}) = {}
    /\ UNCHANGED <<fate, sent, row>>

\* The sessions are lost; what flies may still land.
Die ==
    /\ status' = [r \in Replays |-> IF status[r] = "none" THEN "none" ELSE "gone"]
    /\ UNCHANGED <<fate, sent, row>>

Discard(e) ==
    /\ row' = [row EXCEPT ![e].exists = FALSE]
    /\ UNCHANGED <<status, fate, sent>>

Unmark(e) ==
    /\ row[e].lastReplay # None
    /\ status[row[e].lastReplay] \in {"completed", "failed", "gone"}
    /\ row' = [row EXCEPT ![e].lastReplay = None, ![e].replayedCount = 0]
    /\ UNCHANGED <<status, fate, sent>>

Init ==
    /\ status = [r \in Replays |-> "none"]
    /\ fate = [r \in Replays |-> [e \in Events |-> "none"]]
    /\ sent = [r \in Replays |-> {}]
    /\ row = [e \in Events |->
                [exists |-> TRUE, lastReplay |-> None, replayedCount |-> 0]]

Next ==
    \/ \E r \in Replays :
          \/ Start(r) \/ Refuse(r) \/ Begin(r) \/ Cancel(r) \/ Conclude(r) \/ Forget(r)
          \/ \E batch \in SUBSET Events : Pick(r, batch)
          \/ \E e \in Events : TakeOff(r, e) \/ Send(r, e) \/ Land(r, e)
    \/ \E e \in Events : Discard(e) \/ Unmark(e)
    \/ Die

Spec == Init /\ [][Next]_vars
=============================================================================
