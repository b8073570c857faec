----------------------------- MODULE EventReplay -----------------------------
(***************************************************************************)
(* EventReplayService of packages/events: replay sessions that republish  *)
(* historical (published) outbox events in the background, a semaphore    *)
(* bounding how many are in flight, and cancellation by administrators.   *)
(*                                                                         *)
(* One process owns the sessions: they live in the activeReplays map of   *)
(* its memory.  A step is what runs between two awaits.  processEvents-   *)
(* Batch calls acquire() for every event in one synchronous pass, in the  *)
(* order of created_at, and never again: the semaphore's wait queue is    *)
(* therefore the set of waiting events, served from its smallest.         *)
(***************************************************************************)
EXTENDS Naturals, FiniteSets

CONSTANTS
    Events,       \* published events, numbered in the order of created_at
    Replays,      \* replay sessions
    MaxParallel,  \* ReplayConfig.maxParallel
    StopOnError,  \* ReplayConfig.stopOnError
    MaxCrashes,   \* bound: deaths of the process in one behaviour
    None

ASSUME ReplayAssumption ==
    /\ Events \subseteq Nat
    /\ IsFiniteSet(Events)
    /\ IsFiniteSet(Replays)
    /\ MaxParallel \in Nat \ {0}
    /\ StopOnError \in BOOLEAN
    /\ MaxCrashes \in Nat
    /\ None \notin Replays

VARIABLES
    status,      \* ReplaySession.status; "none" before, "gone" once deleted
    task,        \* how far startReplay and its background task have come
    step,        \* what became of each event of a session
    available,   \* Semaphore.available of the session's batch
    counts,      \* processedCount, successCount and failureCount
    row,         \* the outbox rows and their replay columns
    republished, \* events of which Kafka has a message of the session
    sentAtCancel,\* history: messages of the session when it was cancelled
    crashes      \* deaths of the process so far

vars == <<status, task, step, available, counts, row, republished,
          sentAtCancel, crashes>>

Status == {"none", "pending", "in_progress", "completed", "failed",
           "cancelled", "gone"}
Task == {"none", "loading", "scheduled", "processing", "settled", "ended", "dead"}
\* none: not of this batch; loaded: read, not yet started; waiting: queued for
\* a slot; granted: its acquire() is resolved; publishing and marking: a call
\* is in flight; the rest: the result of the event.
Step == {"none", "loaded", "waiting", "granted", "publishing", "marking",
         "succeeded", "failed", "skipped"}
Holding == {"granted", "publishing", "marking"}
Result == {"succeeded", "failed", "skipped"}

Counts == [processed : Nat, success : Nat, failure : Nat]
Row == [exists : BOOLEAN, lastReplay : Replays \cup {None}, replayedCount : Nat]

TypeOK ==
    /\ status \in [Replays -> Status]
    /\ task \in [Replays -> Task]
    /\ step \in [Replays -> [Events -> Step]]
    /\ available \in [Replays -> 0..MaxParallel]
    /\ counts \in [Replays -> Counts]
    /\ row \in [Events -> Row]
    /\ republished \in [Replays -> SUBSET Events]
    /\ sentAtCancel \in [Replays -> Nat]
    /\ crashes \in 0..MaxCrashes

Init ==
    /\ status = [r \in Replays |-> "none"]
    /\ task = [r \in Replays |-> "none"]
    /\ step = [r \in Replays |-> [e \in Events |-> "none"]]
    /\ available = [r \in Replays |-> MaxParallel]
    /\ counts = [r \in Replays |-> [processed |-> 0, success |-> 0, failure |-> 0]]
    /\ row = [e \in Events |->
                [exists |-> TRUE, lastReplay |-> None, replayedCount |-> 0]]
    /\ republished = [r \in Replays |-> {}]
    /\ sentAtCancel = [r \in Replays |-> 0]
    /\ crashes = 0

In(r, S) == {e \in Events : step[r][e] \in S}
Batch(r) == In(r, Step \ {"none"})

-----------------------------------------------------------------------------
(* Starting a session *)

StartReplay(r) ==
    /\ status[r] = "none"
    /\ status' = [status EXCEPT ![r] = "pending"]
    /\ task' = [task EXCEPT ![r] = "loading"]
    /\ UNCHANGED <<step, available, counts, row, republished, sentAtCancel, crashes>>

\* The query answers with the published events the options select.  An empty
\* answer completes the session at once; otherwise the batch is scheduled with
\* setImmediate and the caller learns the replayId.
Load(r) == \E batch \in SUBSET {e \in Events : row[e].exists} :
    /\ task[r] = "loading"
    /\ step' = [step EXCEPT ![r] = [e \in Events |->
                    IF e \in batch THEN "loaded" ELSE "none"]]
    /\ IF batch = {}
       THEN /\ status' = [status EXCEPT ![r] = "completed"]
            /\ task' = [task EXCEPT ![r] = "ended"]
       ELSE /\ task' = [task EXCEPT ![r] = "scheduled"]
            /\ UNCHANGED status
    /\ UNCHANGED <<available, counts, row, republished, sentAtCancel, crashes>>

LoadFails(r) ==
    /\ task[r] = "loading"
    /\ status' = [status EXCEPT ![r] = "failed"]
    /\ task' = [task EXCEPT ![r] = "ended"]
    /\ UNCHANGED <<step, available, counts, row, republished, sentAtCancel, crashes>>

-----------------------------------------------------------------------------
(* Processing the batch *)

HasError(r) == In(r, {"failed"}) # {}

\* The events of S whose acquire() finds a slot.
FirstSlots(S) == {e \in S : Cardinality({x \in S : x < e}) < MaxParallel}

\* setImmediate fires: the status is set whatever it was, and every event
\* checks for a cancellation and for an error before it asks for a slot.
Begin(r) ==
    LET admitted == IF StopOnError /\ HasError(r) THEN {} ELSE Batch(r)
    IN
    /\ task[r] = "scheduled"
    /\ status' = [status EXCEPT ![r] = "in_progress"]
    /\ task' = [task EXCEPT ![r] = "processing"]
    /\ step' = [step EXCEPT ![r] = [e \in Events |->
                    IF e \in FirstSlots(admitted) THEN "granted"
                    ELSE IF e \in admitted THEN "waiting"
                    ELSE IF e \in Batch(r) THEN "skipped" ELSE "none"]]
    /\ available' = [available EXCEPT
                        ![r] = @ - Cardinality(FirstSlots(admitted))]
    /\ UNCHANGED <<counts, row, republished, sentAtCancel, crashes>>

Waiting(r) == In(r, {"waiting"})
\* Semaphore.waitQueue.shift()
NextWaiter(r) == CHOOSE e \in Waiting(r) : \A x \in Waiting(r) : e <= x

\* Mutants of Finish: the waiter is not woken; the slot is given to a waiter
\* and to the counter.
FinishWithoutWaking(r, e, result) ==
    /\ step' = [step EXCEPT ![r][e] = result]
    /\ available' = [available EXCEPT ![r] = @ + (IF Waiting(r) = {} THEN 1 ELSE 0)]
FinishTwice(r, e, result) ==
    /\ step' = IF Waiting(r) = {}
               THEN [step EXCEPT ![r][e] = result]
               ELSE [step EXCEPT ![r][e] = result, ![r][NextWaiter(r)] = "granted"]
    /\ available' = [available EXCEPT
                        ![r] = IF @ < MaxParallel THEN @ + 1 ELSE @]

\* An event ends with a result and releases its slot: to the next waiter, or
\* back to the semaphore.
Finish(r, e, result) ==
    IF Waiting(r) = {}
    THEN /\ step' = [step EXCEPT ![r][e] = result]
         /\ available' = [available EXCEPT ![r] = @ + 1]
    ELSE /\ step' = [step EXCEPT ![r][e] = result,
                                 ![r][NextWaiter(r)] = "granted"]
         /\ UNCHANGED available

\* The slot arrived: the session is looked up again before publishing.
SkipCancelled(r, e) ==
    /\ task[r] = "processing"
    /\ step[r][e] = "granted"
    /\ status[r] = "cancelled"
    /\ Finish(r, e, "skipped")
    /\ UNCHANGED <<status, task, counts, row, republished, sentAtCancel, crashes>>

Move(r, e, from, to) ==
    /\ task[r] = "processing"
    /\ step[r][e] = from
    /\ step' = [step EXCEPT ![r][e] = to]
    /\ UNCHANGED <<status, task, available, counts, row, sentAtCancel, crashes>>

\* Mutant of Publish: no second look at the session.
PublishUnchecked(r, e) ==
    /\ Move(r, e, "granted", "publishing")
    /\ UNCHANGED republished

Publish(r, e) ==
    /\ status[r] # "cancelled"
    /\ Move(r, e, "granted", "publishing")
    /\ UNCHANGED republished

\* Kafka has a message (r, e) from now on.
Sent(r, e) == republished' = [republished EXCEPT ![r] = @ \cup {e}]

\* UPDATE ... WHERE event_id = e: no effect when the row is gone.
Marked(r, e) ==
    IF row[e].exists
    THEN [row EXCEPT ![e] = [row[e] EXCEPT
              !.lastReplay = r, !.replayedCount = row[e].replayedCount + 1]]
    ELSE row

\* Mutant of PublishSucceeds: the row is marked with the request.
MarkEarly(r, e) ==
    /\ task[r] = "processing"
    /\ step[r][e] = "publishing"
    /\ step' = [step EXCEPT ![r][e] = "marking"]
    /\ row' = Marked(r, e)
    /\ UNCHANGED <<status, task, available, counts, republished, sentAtCancel, crashes>>

\* eventBus.publish() answers.
PublishSucceeds(r, e) ==
    /\ Move(r, e, "publishing", "marking")
    /\ Sent(r, e)

\* ... or rejects: the message may have arrived all the same.
PublishFails(r, e) ==
    /\ task[r] = "processing"
    /\ step[r][e] = "publishing"
    /\ Sent(r, e) \/ UNCHANGED republished
    /\ Finish(r, e, "failed")
    /\ UNCHANGED <<status, task, counts, row, sentAtCancel, crashes>>

MarkSucceeds(r, e) ==
    /\ task[r] = "processing"
    /\ step[r][e] = "marking"
    /\ row' = Marked(r, e)
    /\ Finish(r, e, "succeeded")
    /\ UNCHANGED <<status, task, counts, republished, sentAtCancel, crashes>>

\* The statement fails, executed or not.
MarkFails(r, e) ==
    /\ task[r] = "processing"
    /\ step[r][e] = "marking"
    /\ row' \in {row, Marked(r, e)}
    /\ Finish(r, e, "failed")
    /\ UNCHANGED <<status, task, counts, republished, sentAtCancel, crashes>>

-----------------------------------------------------------------------------
(* The end of a session *)

Ended(r) == Batch(r) = In(r, Result)

\* Mutant of Outcome: failures are overlooked.
OutcomeOverlooksFailures(r) ==
    IF status[r] \in {"pending", "in_progress"} THEN "completed" ELSE status[r]

Outcome(r) ==
    IF status[r] \notin {"pending", "in_progress"} THEN status[r]
    ELSE IF In(r, {"failed"}) = {} THEN "completed" ELSE "failed"

\* Promise.allSettled(): the results are counted, the status is set unless the
\* session has ended already, and the deletion of the session is scheduled.
Settle(r) ==
    /\ task[r] = "processing"
    /\ Ended(r)
    /\ status' = [status EXCEPT ![r] = Outcome(r)]
    /\ counts' = [counts EXCEPT ![r] =
                    [processed |-> Cardinality(Batch(r)),
                     success |-> Cardinality(In(r, {"succeeded"})),
                     failure |-> Cardinality(In(r, {"failed"}))]]
    /\ task' = [task EXCEPT ![r] = "settled"]
    /\ UNCHANGED <<step, available, row, republished, sentAtCancel, crashes>>

\* The five-minute timer.
Forget(r) ==
    /\ task[r] = "settled"
    /\ status' = [status EXCEPT ![r] = "gone"]
    /\ task' = [task EXCEPT ![r] = "ended"]
    /\ UNCHANGED <<step, available, counts, row, republished, sentAtCancel, crashes>>

\* Mutant of CancelReplay: the status is not looked at.
CancelAnything(r) ==
    /\ status[r] \notin {"none", "gone"}
    /\ status' = [status EXCEPT ![r] = "cancelled"]
    /\ sentAtCancel' = [sentAtCancel EXCEPT ![r] = Cardinality(republished[r])]
    /\ UNCHANGED <<task, step, available, counts, row, republished, crashes>>

\* The replayId is known once startReplay has returned.
CancelReplay(r) ==
    /\ task[r] # "loading"
    /\ status[r] \in {"pending", "in_progress"}
    /\ status' = [status EXCEPT ![r] = "cancelled"]
    /\ sentAtCancel' = [sentAtCancel EXCEPT ![r] = Cardinality(republished[r])]
    /\ UNCHANGED <<task, step, available, counts, row, republished, crashes>>

-----------------------------------------------------------------------------
(* The rows, and the process *)

\* Retention deletes a published row.
Cleanup(e) ==
    /\ row[e].exists
    /\ row' = [row EXCEPT ![e].exists = FALSE]
    /\ UNCHANGED <<status, task, step, available, counts, republished,
                   sentAtCancel, crashes>>

\* cleanupOldReplayMetadata() forgets replays that are retentionDays old: of
\* sessions that ended long ago.
CleanupMetadata(e) ==
    /\ row[e].lastReplay # None
    /\ task[row[e].lastReplay] \in {"ended", "dead"}
    /\ row' = [row EXCEPT ![e].lastReplay = None, ![e].replayedCount = 0]
    /\ UNCHANGED <<status, task, step, available, counts, republished,
                   sentAtCancel, crashes>>

\* The process dies, or is shut down: the sessions are lost, whatever ran.
Crash ==
    /\ crashes < MaxCrashes
    /\ crashes' = crashes + 1
    /\ status' = [r \in Replays |-> IF status[r] = "none" THEN "none" ELSE "gone"]
    /\ task' = [r \in Replays |-> IF task[r] \in {"none", "ended"} THEN task[r]
                                  ELSE "dead"]
    /\ UNCHANGED <<step, available, counts, row, republished, sentAtCancel>>

\* What was in flight may still arrive.
ArrivesLate(r, e) ==
    /\ task[r] = "dead"
    /\ \/ step[r][e] = "publishing" /\ Sent(r, e) /\ UNCHANGED row
       \/ step[r][e] = "marking" /\ row' = Marked(r, e) /\ UNCHANGED republished
    /\ step' = [step EXCEPT ![r][e] = "failed"]
    /\ UNCHANGED <<status, task, available, counts, sentAtCancel, crashes>>

Next ==
    \/ \E r \in Replays :
          \/ StartReplay(r) \/ Load(r) \/ LoadFails(r) \/ Begin(r)
          \/ Settle(r) \/ Forget(r) \/ CancelReplay(r)
    \/ \E r \in Replays, e \in Events :
          \/ SkipCancelled(r, e) \/ Publish(r, e)
          \/ PublishSucceeds(r, e) \/ PublishFails(r, e)
          \/ MarkSucceeds(r, e) \/ MarkFails(r, e) \/ ArrivesLate(r, e)
    \/ \E e \in Events : Cleanup(e) \/ CleanupMetadata(e)
    \/ Crash

\* The event loop runs what is ready, and a call in flight is answered (both
\* clients have request timeouts).
Progress(r) ==
    \/ Load(r) \/ LoadFails(r) \/ Begin(r) \/ Settle(r) \/ Forget(r)
    \/ \E e \in Events :
          \/ SkipCancelled(r, e) \/ Publish(r, e)
          \/ PublishSucceeds(r, e) \/ PublishFails(r, e)
          \/ MarkSucceeds(r, e) \/ MarkFails(r, e)

Spec == Init /\ [][Next]_vars /\ \A r \in Replays : WF_vars(Progress(r))

-----------------------------------------------------------------------------
(* What must hold.  The type invariant is TypeOK, above. *)

\* The semaphore neither loses nor creates slots, and no event waits while one
\* is free (Semaphore.acquire and release, lines 91-133): the slots counted
\* and the slots held are always MaxParallel together.
SlotsConserved ==
    \A r \in Replays : task[r] # "dead" =>
        /\ available[r] + Cardinality(In(r, Holding)) = MaxParallel
        /\ Waiting(r) # {} => available[r] = 0

\* A cancelled session sends at most what was in flight: no more than
\* MaxParallel further messages, however many events are left (the second look
\* at the session, lines 590-594, together with the semaphore).
CancelStopsSoon ==
    \A r \in Replays : status[r] = "cancelled" =>
        Cardinality(republished[r]) <= sentAtCancel[r] + MaxParallel

\* A session reported completed has sent every event of its batch and counted
\* every one as a success: no failure or skipped event hides in it.
CompletedIsComplete ==
    \A r \in Replays : status[r] = "completed" =>
        /\ Batch(r) \subseteq republished[r]
        /\ counts[r].success = Cardinality(Batch(r))

\* The replay columns of a row never claim a replay that sent nothing ("Only
\* mark as replayed after successful publish", line 632), also across failed
\* statements, concurrent sessions and the death of the process.
MarksAreEarned ==
    \A e \in Events :
        /\ row[e].lastReplay # None => e \in republished[row[e].lastReplay]
        /\ row[e].replayedCount <= Cardinality({r \in Replays : e \in republished[r]})

\* A session that has completed or failed is never cancelled or restarted: it
\* keeps its status until it is deleted (cancelReplay, line 480).
ResultIsFinal ==
    [][\A r \in Replays : status[r] \in {"completed", "failed"} =>
          status'[r] \in {status[r], "gone"}]_vars

\* What has become of an event, whoever holds or awaits a slot.
Fate(r, e) ==
    CASE step[r][e] = "none" -> "none"
      [] step[r][e] \in {"publishing", "marking"} -> "flying"
      [] step[r][e] \in {"succeeded", "failed"} -> step[r][e]
      [] OTHER -> "picked"

Fates == [r \in Replays |-> [e \in Events |-> Fate(r, e)]]

Record == INSTANCE ReplayRecord WITH fate <- Fates, sent <- republished

\* The background task, its semaphore and its awaits implement ReplayRecord: no
\* more than maxParallel events in the air, none that takes off under a
\* cancellation, rows marked only by events that were sent, and COMPLETED only
\* over a batch that has succeeded (processEventsBatch, processEventsBatchAsync).
ImplementsReplayRecord == Record!Spec

\* Every scheduled batch comes to an end, whatever fails and whoever waits for
\* a slot: its session settles, unless the process dies.
BatchEnds ==
    \A r \in Replays :
        task[r] = "scheduled" ~> task[r] \in {"settled", "ended", "dead"}

-----------------------------------------------------------------------------
(* What the code says of itself, and does not hold *)

\* "preserve cancelled/completed/failed state" (line 391): a cancellation that
\* cancelReplay() has confirmed is never undone.
CancelledIsFinal ==
    [][\A r \in Replays : status[r] = "cancelled" =>
          status'[r] \in {"cancelled", "gone"}]_vars
=============================================================================
