------------------------------- MODULE Outbox -------------------------------
(***************************************************************************)
(* The transactional outbox of packages/events: the outbox table and its  *)
(* repository, the poller instances that move its rows to Kafka, the      *)
(* dead-letter service, the administrators who replay or delete           *)
(* dead-lettered rows, and the two retention jobs.                        *)
(*                                                                         *)
(* One SQL statement is one step (the repository opens no transaction of  *)
(* its own), and every await of the poller between two statements is a    *)
(* point where the other actors run.                                      *)
(***************************************************************************)
EXTENDS Naturals, FiniteSets

CONSTANTS
    Events,         \* events, numbered in the order of their created_at
    Workers,        \* poller instances, each with its own workerId
    Admins,         \* concurrent callers of the dead-letter service
    Poison,         \* events the event bus rejects (EventValidationError)
    MaxRetries,     \* OutboxPollerConfig.maxRetries
    BatchSize,      \* OutboxPollerConfig.batchSize
    DeadLetterWired,\* was the poller constructed with a DeadLetterService?
    Faults,         \* kinds of faults the environment may produce
    MaxFaults,      \* bound: faults in one behaviour
    MaxReplays,     \* bound: resets by administrators in one behaviour
    MaxRetryCount,  \* bound: rows with this retry_count stop becoming due
    None

FaultKinds ==
    {"kafka",   \* the producer reports an error, delivered or not
     "db",      \* a statement fails without having been executed
     "lost",    \* a statement is executed but its reply is an error
     "crash",   \* the process of a poller dies or is shut down
     "boot"}    \* the Kafka connection check at start-up fails

ASSUME OutboxAssumption ==
    /\ Events \subseteq Nat
    /\ Poison \subseteq Events
    /\ MaxRetries \in Nat \ {0}
    /\ BatchSize \in Nat \ {0}
    /\ DeadLetterWired \in BOOLEAN
    /\ Faults \subseteq FaultKinds
    /\ MaxFaults \in Nat
    /\ MaxReplays \in Nat
    /\ MaxRetryCount \in Nat
    /\ None \notin Events \cup Workers

VARIABLES
    row,        \* the outbox table, by event
    pc,         \* where each poller is in processPendingEvents
    todo,       \* copies of claimed rows a poller has not started on
    cur,        \* the event a poller is processing, or None
    replaying,  \* the event an administrator found dead-lettered, or None
    delivered,  \* events of which Kafka holds at least one message
    attempts,   \* history: publishes of an event since it was (re)inserted
    faults,     \* faults so far
    replays     \* resets so far

vars == <<row, pc, todo, cur, replaying, delivered, attempts, faults, replays>>
table == <<row, delivered, attempts>>
poller == <<pc, todo, cur>>

Status == {"none", "pending", "processing", "published", "failed", "deleted"}
\* next_retry_at, compared with NOW(): unset, in the near future (backoff),
\* a year away, or in the past.
RetryTime == {"unset", "backoff", "year", "due"}

Row == [status : Status, lockedBy : Workers \cup {None}, retryCount : Nat,
        nextRetryAt : RetryTime, deadLettered : BOOLEAN]
\* What a poller keeps of a claimed row: it is never read again.
Copy == [id : Events, retryCount : Nat, fresh : BOOLEAN]

Label == {"off", "disabled", "idle", "claimed", "loop", "publish", "mark",
          "failing", "park"}

-----------------------------------------------------------------------------
(* Rows *)

NewRow == [status |-> "pending", lockedBy |-> None, retryCount |-> 0,
           nextRetryAt |-> "unset", deadLettered |-> FALSE]
NoRow == [NewRow EXCEPT !.status = "none"]

Exists(e) == row[e].status \notin {"none", "deleted"}

\* UPDATE ... WHERE event_id = e: no effect when the row is gone.
Updated(e, new) == IF Exists(e) THEN [row EXCEPT ![e] = new] ELSE row

\* The rows after one UPDATE of claimPending / claimRetryable.
Claimed(batch, w) ==
    [e \in Events |->
        IF e \in batch
        THEN [row[e] EXCEPT !.status = "processing", !.lockedBy = w]
        ELSE row[e]]

CopiesOf(batch, fresh) ==
    {[id |-> e, retryCount |-> row[e].retryCount, fresh |-> fresh] : e \in batch}

MarkedPublished(e) ==
    Updated(e, [row[e] EXCEPT !.status = "published", !.lockedBy = None])

\* Mutant: a next retry never set.
FailedForGood(e, retryAt) ==
    Updated(e, [row[e] EXCEPT !.status = "failed", !.lockedBy = None,
                              !.retryCount = @ + 1])

MarkedFailed(e, retryAt) ==
    Updated(e, [row[e] EXCEPT !.status = "failed", !.lockedBy = None,
                              !.nextRetryAt = retryAt, !.retryCount = @ + 1])

MarkedDeadLettered(e) ==
    Updated(e, [row[e] EXCEPT !.status = "failed", !.lockedBy = None,
                              !.nextRetryAt = "unset", !.deadLettered = TRUE])

\* Mutants: rows that no poller finished, and rows that nobody locks, are
\* claimed instead of the rows with status "pending".
UnfinishedRows == {e \in Events : row[e].status \in {"pending", "processing"}}
UnlockedRows == {e \in Events : Exists(e) /\ row[e].lockedBy = None}

Pending == {e \in Events : row[e].status = "pending"}
Retryable == {e \in Events : row[e].status = "failed" /\ row[e].nextRetryAt = "due"}

\* LIMIT n over rows ordered by created_at, and over rows ordered by a
\* next_retry_at the model does not keep (any n of them).
Oldest(S, n) == {e \in S : Cardinality({f \in S : f < e}) < n}
AnyOf(S, n) ==
    {T \in SUBSET S : Cardinality(T) = n \/ (T = S /\ Cardinality(S) < n)}

-----------------------------------------------------------------------------
(* Faults *)

Fault(kind) ==
    /\ kind \in Faults
    /\ faults < MaxFaults
    /\ faults' = faults + 1

\* One statement that turns the table into `after`, and what its caller sees.
Executed(after, reply) ==
    \/ reply = "ok"    /\ row' = after /\ UNCHANGED faults
    \/ reply = "error" /\ row' = row   /\ Fault("db")
    \/ reply = "error" /\ row' = after /\ Fault("lost")

Reply == {"ok", "error"}

-----------------------------------------------------------------------------
(* The producers of events: insert inside a business transaction. *)

Insert(e) ==
    /\ row[e].status = "none"
    /\ row' = [row EXCEPT ![e] = NewRow]
    /\ UNCHANGED <<poller, replaying, delivered, attempts, faults, replays>>

-----------------------------------------------------------------------------
(* A poller instance *)

Goto(w, label) == pc' = [pc EXCEPT ![w] = label]

\* The poller stops caring about what it claimed: the rows stay as they are.
Abandon(w, label) ==
    /\ Goto(w, label)
    /\ todo' = [todo EXCEPT ![w] = {}]
    /\ cur' = [cur EXCEPT ![w] = None]

EndEvent(w) ==
    /\ Goto(w, "loop")
    /\ cur' = [cur EXCEPT ![w] = None]
    /\ UNCHANGED todo

\* onModuleInit: the poller runs only if Kafka answers now.
Start(w) ==
    /\ pc[w] = "off"
    /\ \/ Goto(w, "idle") /\ UNCHANGED faults
       \/ Goto(w, "disabled") /\ Fault("boot")
    /\ UNCHANGED <<table, todo, cur, replaying, replays>>

\* processPendingEvents, first statement. isProcessing keeps the timer from
\* starting it again: a poller leaves "idle" only when nothing is in progress.
ClaimPending(w) ==
    /\ pc[w] = "idle"
    /\ \E reply \in Reply : LET batch == Oldest(Pending, BatchSize) IN
         /\ Executed(Claimed(batch, w), reply)
         /\ IF reply = "ok"
            THEN /\ todo' = [todo EXCEPT ![w] = CopiesOf(batch, TRUE)]
                 /\ Goto(w, "claimed")
            ELSE UNCHANGED <<todo, pc>>
    /\ UNCHANGED <<cur, replaying, delivered, attempts, replays>>

\* Second statement: when it fails, the catch of processPendingEvents drops
\* the rows the first one claimed.
ClaimRetryable(w) ==
    /\ pc[w] = "claimed"
    /\ \E reply \in Reply, batch \in AnyOf(Retryable, BatchSize) :
         /\ Executed(Claimed(batch, w), reply)
         /\ IF reply = "ok"
            THEN /\ todo' = [todo EXCEPT ![w] = @ \cup CopiesOf(batch, FALSE)]
                 /\ Goto(w, "loop")
                 /\ UNCHANGED cur
            ELSE Abandon(w, "idle")
    /\ UNCHANGED <<replaying, delivered, attempts, replays>>

\* Mutants: the row is marked before (and instead of) the publish, and the
\* retry limit is compared with > instead of >=.
MarkFirst(c) == IF c.retryCount >= MaxRetries THEN "park" ELSE "mark"
LimitOffByOne(c) == IF c.retryCount > MaxRetries THEN "park" ELSE "publish"

\* processEvent decides by the retry count of the copy.
FirstStep(c) == IF c.retryCount >= MaxRetries THEN "park" ELSE "publish"

\* The for loop: pending rows first, in the order RETURNING gave them (any).
PickEvent(w) ==
    /\ pc[w] = "loop"
    /\ \E c \in todo[w] :
         /\ c.fresh \/ \A d \in todo[w] : ~d.fresh
         /\ todo' = [todo EXCEPT ![w] = @ \ {c}]
         /\ cur' = [cur EXCEPT ![w] = c.id]
         /\ Goto(w, FirstStep(c))
    /\ UNCHANGED <<table, replaying, faults, replays>>

EndBatch(w) ==
    /\ pc[w] = "loop"
    /\ todo[w] = {}
    /\ Goto(w, "idle")
    /\ UNCHANGED <<table, todo, cur, replaying, faults, replays>>

\* eventBus.publish: rejected before sending, acknowledged by Kafka, or an
\* error that says nothing of whether the message was stored.
Publish(w) ==
    /\ pc[w] = "publish"
    /\ attempts' = [attempts EXCEPT ![cur[w]] = @ + 1]
    /\ \/ /\ cur[w] \in Poison
          /\ Goto(w, "failing")
          /\ UNCHANGED <<delivered, faults>>
       \/ /\ cur[w] \notin Poison
          /\ Goto(w, "mark")
          /\ delivered' = delivered \cup {cur[w]}
          /\ UNCHANGED faults
       \/ /\ cur[w] \notin Poison
          /\ Goto(w, "failing")
          /\ delivered' \in {delivered, delivered \cup {cur[w]}}
          /\ Fault("kafka")
    /\ UNCHANGED <<row, todo, cur, replaying, replays>>

\* markAsPublished; an error reaches the catch of processEvent.
MarkPublished(w) ==
    /\ pc[w] = "mark"
    /\ \E reply \in Reply :
         /\ Executed(MarkedPublished(cur[w]), reply)
         /\ IF reply = "ok"
            THEN EndEvent(w)
            ELSE Goto(w, "failing") /\ UNCHANGED <<todo, cur>>
    /\ UNCHANGED <<replaying, delivered, attempts, replays>>

\* markAsFailed in the catch of processEvent: an error here leaves the loop
\* and drops the rest of the batch.
MarkFailed(w) ==
    /\ pc[w] = "failing"
    /\ \E reply \in Reply :
         /\ Executed(MarkedFailed(cur[w], "backoff"), reply)
         /\ IF reply = "ok" THEN EndEvent(w) ELSE Abandon(w, "idle")
    /\ UNCHANGED <<replaying, delivered, attempts, replays>>

\* Mutant: the fallback sets the next retry as for any failure.
GivenUpBriefly(e) == IF DeadLetterWired THEN MarkedDeadLettered(e)
                     ELSE MarkedFailed(e, "backoff")

\* Retry limit reached: sendToDeadLetter, or without the service the fallback
\* that puts the next retry a year away.
GivenUp(e) == IF DeadLetterWired THEN MarkedDeadLettered(e)
              ELSE MarkedFailed(e, "year")

\* The message to the dead-letter topic is sent after the row is marked and its
\* errors are swallowed.
Park(w) ==
    /\ pc[w] = "park"
    /\ \E reply \in Reply :
         /\ Executed(GivenUp(cur[w]), reply)
         /\ IF reply = "ok"
            THEN EndEvent(w)
            ELSE Goto(w, "failing") /\ UNCHANGED <<todo, cur>>
    /\ UNCHANGED <<replaying, delivered, attempts, replays>>

\* The process dies, or exits after onModuleDestroy (which stops the timers
\* and does not wait for the batch in progress).
Crash(w) ==
    /\ pc[w] \notin {"off", "disabled"}
    /\ Fault("crash")
    /\ Abandon(w, "off")
    /\ UNCHANGED <<table, replaying, replays>>

\* A process whose poller is disabled can only be started again.
Restart(w) ==
    /\ pc[w] = "disabled"
    /\ Goto(w, "off")
    /\ UNCHANGED <<table, todo, cur, replaying, faults, replays>>

PollerStep(w) ==
    \/ ClaimPending(w) \/ ClaimRetryable(w) \/ PickEvent(w) \/ EndBatch(w)
    \/ Publish(w) \/ MarkPublished(w) \/ MarkFailed(w) \/ Park(w)

-----------------------------------------------------------------------------
(* Time, the retention jobs and the administrators *)

Elapse(e) ==
    /\ row[e].nextRetryAt \in {"backoff", "year"}
    /\ row[e].retryCount < MaxRetryCount
    /\ row' = [row EXCEPT ![e].nextRetryAt = "due"]
    /\ UNCHANGED <<poller, replaying, delivered, attempts, faults, replays>>

Deleted(S) == [e \in Events |-> IF e \in S THEN [NoRow EXCEPT !.status = "deleted"]
                                            ELSE row[e]]

\* cleanup and cleanupDeadLetters: the rows old enough are any of them.
CleanupPublished ==
    /\ \E S \in SUBSET {e \in Events : row[e].status = "published"} :
          S # {} /\ row' = Deleted(S)
    /\ UNCHANGED <<poller, replaying, delivered, attempts, faults, replays>>

CleanupDeadLetters ==
    /\ \E S \in SUBSET {e \in Events : row[e].deadLettered} :
          S # {} /\ row' = Deleted(S)
    /\ UNCHANGED <<poller, replaying, delivered, attempts, faults, replays>>

\* deleteDeadLetteredEvent: its DELETE repeats the condition it read.
DeleteDeadLettered(e) ==
    /\ row[e].deadLettered
    /\ row' = Deleted({e})
    /\ UNCHANGED <<poller, replaying, delivered, attempts, faults, replays>>

\* replayFromDeadLetter: getById and its checks ...
FindDeadLettered(a, e) ==
    /\ replaying[a] = None
    /\ row[e].deadLettered
    /\ replays < MaxReplays
    /\ replaying' = [replaying EXCEPT ![a] = e]
    /\ UNCHANGED <<table, poller, faults, replays>>

\* ... and then resetForRetry, which checks nothing again.
ResetForRetry(a) ==
    /\ replaying[a] # None
    /\ replays < MaxReplays
    /\ row' = Updated(replaying[a], NewRow)
    /\ attempts' = [attempts EXCEPT ![replaying[a]] = 0]
    /\ replaying' = [replaying EXCEPT ![a] = None]
    /\ replays' = replays + 1
    /\ UNCHANGED <<poller, delivered, faults>>

-----------------------------------------------------------------------------

Init ==
    /\ row = [e \in Events |-> NoRow]
    /\ pc = [w \in Workers |-> "off"]
    /\ todo = [w \in Workers |-> {}]
    /\ cur = [w \in Workers |-> None]
    /\ replaying = [a \in Admins |-> None]
    /\ delivered = {}
    /\ attempts = [e \in Events |-> 0]
    /\ faults = 0
    /\ replays = 0

Next ==
    \/ \E e \in Events : Insert(e) \/ Elapse(e) \/ DeleteDeadLettered(e)
    \/ \E w \in Workers : Start(w) \/ PollerStep(w) \/ Crash(w) \/ Restart(w)
    \/ \E a \in Admins : ResetForRetry(a) \/ \E e \in Events : FindDeadLettered(a, e)
    \/ CleanupPublished
    \/ CleanupDeadLetters

Spec == Init /\ [][Next]_vars

\* The timers of a running process fire, its statements return, and time
\* passes. Nothing obliges an administrator, a producer or a fault.
Fairness ==
    /\ \A w \in Workers : WF_vars(Start(w)) /\ WF_vars(PollerStep(w))
    /\ \A e \in Events : WF_vars(Elapse(e))

FairSpec == Spec /\ Fairness

-----------------------------------------------------------------------------
(* Properties *)

\* Every variable stays within its domain.
TypeOK ==
    /\ row \in [Events -> Row]
    /\ pc \in [Workers -> Label]
    /\ todo \in [Workers -> SUBSET Copy]
    /\ cur \in [Workers -> Events \cup {None}]
    /\ replaying \in [Admins -> Events \cup {None}]
    /\ delivered \subseteq Events
    /\ attempts \in [Events -> Nat]
    /\ faults \in Nat
    /\ replays \in Nat

\* The events a poller has claimed and not finished with.
Held(w) == {c.id : c \in todo[w]} \cup ({cur[w]} \ {None})

\* Claiming with FOR UPDATE SKIP LOCKED and the "processing" status keeps two
\* pollers from working on one event at the same time (claimPending,
\* claimRetryable).
ExclusiveClaim ==
    \A v, w \in Workers : v # w => Held(v) \cap Held(w) = {}

\* A row says "published" only if Kafka holds the event (processEvent marks
\* it after the publish returned).
PublishedIsDelivered ==
    \A e \in Events : row[e].status = "published" => e \in delivered

\* Between two resets an event is published at most MaxRetries times, and it
\* is given up only after all of them (the retry count a poller compares with
\* maxRetries is the one it copied when it claimed the row).
RetryBudget ==
    \A e \in Events :
        /\ attempts[e] <= MaxRetries
        /\ row[e].deadLettered => attempts[e] = MaxRetries

\* No retention job or administrator removes an event that was neither
\* delivered nor dead-lettered.
NoSilentLoss ==
    [][\A e \in Events :
        row[e].status # "deleted" /\ row'[e].status = "deleted"
            => e \in delivered \/ row[e].deadLettered]_vars

\* Once the poller that published it has finished with it, a published row
\* only ever disappears: it is not claimed, failed or reset again.
PublishedIsFinal ==
    [][\A e \in Events :
        row[e].status = "published" /\ (\A w \in Workers : cur[w] # e)
            => row'[e] = row[e] \/ row'[e].status = "deleted"]_vars

\* A dead-lettered row is out of the pollers' reach: it only comes back as
\* the reset row of replayFromDeadLetter, or disappears.
DeadLetterIsTerminal ==
    [][\A e \in Events :
        row[e].deadLettered /\ row'[e] # row[e]
            => row'[e] = NewRow \/ row'[e].status = "deleted"]_vars

\* The outbox implements EventDelivery. A published row is still open while
\* the poller that published it has not finished with it.
Phase(e) ==
    CASE row[e].status = "none" -> "new"
      [] row[e].status = "deleted" -> "forgotten"
      [] Exists(e) /\ row[e].deadLettered -> "parked"
      [] row[e].status = "published" /\ ~row[e].deadLettered
            /\ (\A w \in Workers : cur[w] # e) -> "closed"
      [] OTHER -> "open"

Delivery == INSTANCE EventDelivery
                WITH phase <- [e \in Events |-> Phase(e)], delivered <- delivered

\* Every step of the outbox is a step of EventDelivery or changes nothing it
\* speaks of: no delivery of a closed, parked or forgotten event, and no
\* event closed undelivered.
ImplementsDelivery == Delivery!Spec

\* Every inserted event is in the end delivered to Kafka or dead-lettered.
EventuallySettled ==
    \A e \in Events :
        row[e].status = "pending" ~> (e \in delivered \/ row[e].deadLettered)

\* Every inserted event the bus accepts is in the end marked published.
EventuallyPublished ==
    \A e \in Events \ Poison :
        row[e].status = "pending" ~> row[e].status \in {"published", "deleted"}

\* An event the bus rejects is tried as often as the limit says and then left
\* alone, without help: it is dead-lettered, or, by a poller without a
\* dead-letter service (all that events.module.ts builds), its next retry is a
\* year away (the limit and the fallback in processEvent).
EventuallyGivenUp ==
    \A e \in Poison :
        row[e].status = "pending" ~>
            /\ row[e].status = "failed" /\ attempts[e] = MaxRetries
            /\ row[e].deadLettered \/ row[e].nextRetryAt = "year"
=============================================================================
