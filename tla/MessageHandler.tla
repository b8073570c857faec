---------------------------- MODULE MessageHandler ----------------------------
(***************************************************************************)
(* MessageHandler of packages/events: one consumer of one topic partition *)
(* (topics are created with one), its eachMessage callback, the retries   *)
(* that republish a failed message at the end of the topic with a higher  *)
(* x-retry-count, and the dead-letter topic.                               *)
(*                                                                         *)
(* The log and the offsets are Kafka's and kafkajs's, modelled from how   *)
(* the callback relies on them: a callback that resolves moves on to the  *)
(* next message, one that rejects has its message delivered again, and a  *)
(* process that dies resumes from the offset committed last.              *)
(***************************************************************************)
EXTENDS Naturals, Sequences, FiniteSets

CONSTANTS
    Events,         \* events published to the topic
    Malformed,      \* events whose value is not JSON
    Empty,          \* messages without a value
    Unhandled,      \* events for which the handler always fails
    MaxRetries,     \* options.maxRetries
    HasDeadLetter,  \* is options.deadLetterTopic given?
    MaxFaults,      \* bound: transient failures of the handler and of sends
    MaxCrashes      \* bound: deaths of the process, or rebalances

ASSUME HandlerAssumption ==
    /\ Events \subseteq Nat
    /\ Malformed \subseteq Events /\ Empty \subseteq Events
    /\ Unhandled \subseteq Events
    /\ MaxRetries \in Nat
    /\ HasDeadLetter \in BOOLEAN
    /\ MaxFaults \in Nat /\ MaxCrashes \in Nat

VARIABLES
    log,          \* the partition: messages in the order of their offsets
    position,     \* offset of the next message the consumer fetches
    committed,    \* offset a restarted consumer begins at
    pc,           \* where eachMessage is
    handled,      \* events the handler has completed
    deadLettered, \* events in the dead-letter topic
    failed,       \* history: deliveries of an event that failed
    lostSends,    \* history: republications of an event that failed
    faults,       \* transient failures so far
    crashes       \* deaths so far

consumer == <<position, committed, pc>>
outcome == <<handled, deadLettered, failed, lostSends>>
bounds == <<faults, crashes>>
vars == <<log, consumer, outcome, bounds>>

\* A message: the event it carries and its x-retry-count header.
Message == [event : Events, retry : Nat]

TypeOK ==
    /\ log \in Seq(Message)
    /\ position \in 1..(Len(log) + 1)
    /\ committed \in 1..position
    /\ pc \in {"fetch", "handling", "republishing", "parking", "rejected"}
    /\ handled \subseteq Events
    /\ deadLettered \subseteq Events
    /\ failed \in [Events -> Nat]
    /\ lostSends \in [Events -> Nat]
    /\ faults \in 0..MaxFaults
    /\ crashes \in 0..MaxCrashes

Init ==
    /\ log = <<>>
    /\ position = 1
    /\ committed = 1
    /\ pc = "fetch"
    /\ handled = {}
    /\ deadLettered = {}
    /\ failed = [e \in Events |-> 0]
    /\ lostSends = [e \in Events |-> 0]
    /\ faults = 0
    /\ crashes = 0

MessagesOf(e) == {i \in 1..Len(log) : log[i].event = e}
Current == log[position]
\* The callback resolves.
Resolve == pc' = "fetch" /\ position' = position + 1
Fault == faults < MaxFaults /\ faults' = faults + 1

-----------------------------------------------------------------------------
(* Kafka and kafkajs *)

Publish(e) ==
    /\ MessagesOf(e) = {}
    /\ log' = Append(log, [event |-> e, retry |-> 0])
    /\ UNCHANGED <<consumer, outcome, bounds>>

\* The offsets of resolved callbacks are committed from time to time.
Commit ==
    /\ committed < position
    /\ committed' = position
    /\ UNCHANGED <<log, position, pc, outcome, bounds>>

\* A callback has rejected: the message is fetched again.
Redeliver ==
    /\ pc = "rejected"
    /\ pc' = "fetch"
    /\ UNCHANGED <<log, position, committed, outcome, bounds>>

\* The process dies or loses the partition; the next owner resumes.
Crash ==
    /\ crashes < MaxCrashes
    /\ crashes' = crashes + 1
    /\ pc' = "fetch"
    /\ position' = committed
    /\ UNCHANGED <<log, committed, outcome, faults>>

-----------------------------------------------------------------------------
(* eachMessage *)

Fetched == pc = "fetch" /\ position <= Len(log)

SkipEmpty ==
    /\ Fetched
    /\ Current.event \in Empty
    /\ Resolve
    /\ UNCHANGED <<log, committed, outcome, bounds>>

\* JSON.parse() throws; the catch block parses the value once more, to log the
\* event's id, and throws out of the callback.
RejectMalformed ==
    /\ Fetched
    /\ Current.event \in Malformed \ Empty
    /\ pc' = "rejected"
    /\ UNCHANGED <<log, position, committed, outcome, bounds>>

\* await handler(event)
Handle ==
    /\ Fetched
    /\ Current.event \notin Malformed \cup Empty
    /\ pc' = "handling"
    /\ UNCHANGED <<log, position, committed, outcome, bounds>>

HandlerSucceeds ==
    /\ pc = "handling"
    /\ Current.event \notin Unhandled
    /\ handled' = handled \cup {Current.event}
    /\ Resolve
    /\ UNCHANGED <<log, committed, deadLettered, failed, lostSends, bounds>>

\* Mutants of AfterFailure: one retry too many; a message that has exhausted
\* its retries is dropped; every failed message is dead-lettered.
OneRetryMore ==
    IF Current.retry <= MaxRetries
    THEN pc' = "republishing" /\ UNCHANGED position
    ELSE IF HasDeadLetter
    THEN pc' = "parking" /\ UNCHANGED position
    ELSE Resolve
DropExhausted ==
    IF Current.retry < MaxRetries
    THEN pc' = "republishing" /\ UNCHANGED position
    ELSE Resolve
ParkAtOnce ==
    IF HasDeadLetter THEN pc' = "parking" /\ UNCHANGED position ELSE Resolve

\* A message is republished, dead-lettered after its last retry, or dropped
\* where no dead-letter topic is given.
AfterFailure ==
    IF Current.retry < MaxRetries
    THEN pc' = "republishing" /\ UNCHANGED position
    ELSE IF HasDeadLetter
    THEN pc' = "parking" /\ UNCHANGED position
    ELSE Resolve

HandlerFails ==
    /\ pc = "handling"
    /\ IF Current.event \in Unhandled THEN UNCHANGED faults ELSE Fault
    /\ failed' = [failed EXCEPT ![Current.event] = @ + 1]
    /\ AfterFailure
    /\ UNCHANGED <<log, committed, handled, deadLettered, lostSends, crashes>>

Retried == [event |-> Current.event, retry |-> Current.retry + 1]

\* Mutant of RepublishFails: the failure is only logged.
RepublishFailureLogged ==
    /\ pc = "republishing"
    /\ Fault
    /\ lostSends' = [lostSends EXCEPT ![Current.event] = @ + 1]
    /\ Resolve
    /\ UNCHANGED <<log, committed, handled, deadLettered, failed, crashes>>

RepublishSucceeds ==
    /\ pc = "republishing"
    /\ log' = Append(log, Retried)
    /\ Resolve
    /\ UNCHANGED <<committed, outcome, bounds>>

\* The send is reported as failed, the message stored or not: it goes to the
\* dead-letter topic, or the callback rejects.
RepublishFails ==
    /\ pc = "republishing"
    /\ Fault
    /\ lostSends' = [lostSends EXCEPT ![Current.event] = @ + 1]
    /\ log' \in {log, Append(log, Retried)}
    /\ pc' = IF HasDeadLetter THEN "parking" ELSE "rejected"
    /\ UNCHANGED <<position, committed, handled, deadLettered, failed, crashes>>

\* sendToDeadLetterTopic()
ParkSucceeds ==
    /\ pc = "parking"
    /\ deadLettered' = deadLettered \cup {Current.event}
    /\ Resolve
    /\ UNCHANGED <<log, committed, handled, failed, lostSends, bounds>>

\* It rejects, the message stored or not, and so does the callback.
ParkFails ==
    /\ pc = "parking"
    /\ Fault
    /\ deadLettered' \in {deadLettered, deadLettered \cup {Current.event}}
    /\ pc' = "rejected"
    /\ UNCHANGED <<log, position, committed, handled, failed, lostSends, crashes>>

-----------------------------------------------------------------------------

Callback ==
    \/ SkipEmpty \/ RejectMalformed \/ Handle
    \/ HandlerSucceeds \/ HandlerFails
    \/ RepublishSucceeds \/ RepublishFails
    \/ ParkSucceeds \/ ParkFails

Next ==
    \/ \E e \in Events : Publish(e)
    \/ Commit \/ Redeliver \/ Crash
    \/ Callback

\* Kafka delivers, handlers return, and kafkajs answers or times out.
Spec == Init /\ [][Next]_vars /\ WF_vars(Callback \/ Redeliver) /\ WF_vars(Commit)

-----------------------------------------------------------------------------
(* What must hold.  The type invariant is TypeOK, above. *)

Settled(e) == e \in handled \cup deadLettered \cup Empty

\* Settled, or dropped where no dead-letter topic is given.
Cleared(e) == Settled(e) \/ (~HasDeadLetter /\ failed[e] > MaxRetries)

\* Nothing is lost behind the committed offset: a message that will not be
\* delivered again has been handled or dead-lettered, or has a successor with
\* a higher retry count still ahead (handler.ts:211-247; whatever sends fail,
\* and wherever the process dies), unless it was dropped after its last retry.
NothingLost ==
    \A i \in 1..(committed - 1) :
        \/ Cleared(log[i].event)
        \/ \E j \in committed..Len(log) :
              log[j].event = log[i].event /\ log[j].retry > log[i].retry

\* An event reaches the dead-letter topic only when the handler has failed
\* MaxRetries + 1 times on it or Kafka refused to take a retry.
DeadLetterIsEarned ==
    \A e \in deadLettered : failed[e] > MaxRetries \/ lostSends[e] > 0

\* The messages of an event with a given retry count.
Copies(e, k) == {i \in MessagesOf(e) : log[i].retry = k}

\* "This ensures the DLQ threshold is properly enforced" (handler.ts:484): no
\* message carries a higher count than the limit, an event is published once,
\* and a message is republished once, and once more for each failed send,
\* failed attempt or restart; without them each count occurs once.
RetriesBounded ==
    /\ \A i \in 1..Len(log) : log[i].retry <= MaxRetries
    /\ \A e \in Events :
          /\ Cardinality(Copies(e, 0)) <= 1
          /\ \A k \in 0..MaxRetries :
                Cardinality(Copies(e, k + 1))
                    <= (1 + faults + crashes) * Cardinality(Copies(e, k))

\* The consumer has reached a value that is not JSON.
Blocked == position <= Len(log) /\ Current.event \in Malformed

\* Every event published is handled or dead-lettered in the end, when there is
\* a dead-letter topic and transient failures stop, unless the consumer gets
\* stuck at a value that is not JSON.
SettledUnlessBlocked ==
    \A e \in Events : MessagesOf(e) # {} ~> Settled(e) \/ Blocked

\* The consumer implements EventConsumption: an event has been accepted once it
\* is in the log; it waits while a message of it lies at or behind the committed
\* offset, until it is handled or dead-lettered.
Accepted == {e \in Events : MessagesOf(e) # {}}
Waiting == {e \in Events \ (handled \cup deadLettered) :
                \E i \in committed..Len(log) : log[i].event = e}

Consumption == INSTANCE EventConsumption
    WITH accepted <- Accepted, waiting <- Waiting, processed <- handled,
         parked <- deadLettered, failures <- failed, refusals <- lostSends

\* Whatever the order of deliveries, commits, failing sends and restarts, each
\* step of the consumer is a step of EventConsumption for one event, or for
\* what a commit leaves behind, or changes nothing it speaks of
\* (handler.ts:143-575).
ImplementsConsumption == Consumption!Spec

-----------------------------------------------------------------------------
(* What the documents say, and does not hold *)

\* "Failed events go here" (apps/api/docs/events/creating-consumers.md:357, of
\* the dead-letter topic): every event is handled or dead-lettered in the end.
\* A value that is not JSON is neither, and nothing behind it is delivered.
EventuallySettled == \A e \in Events : MessagesOf(e) # {} ~> Settled(e)

\* "Events that exceed max retries are sent to DLQ" (creating-consumers.md:415)
\* is NothingLost, in the configuration EventsModule registers handlers in.
=============================================================================
