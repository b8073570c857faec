---------------------------- MODULE EmailTracking ----------------------------
(***************************************************************************)
(* Tracked e-mails and the provider's webhooks about them: sendTrackedEmail *)
(* writes the e-mail's row, calls the provider and writes the provider's    *)
(* row, one statement at a time; meanwhile the ingestion handler stores     *)
(* each webhook event once and applies it to both rows in a transaction,    *)
(* and an administrator may have a stored event reprocessed.  Events are    *)
(* delivered in any order, more than once, and even before the provider's   *)
(* row exists.                                                              *)
(*                                                                          *)
(* A transaction runs at PostgreSQL's default, READ COMMITTED: a statement  *)
(* sees what has been committed when it starts, a row that was updated      *)
(* stays locked until the commit, and a reader is never blocked.            *)
(***************************************************************************)
EXTENDS Naturals

CONSTANTS
    Messages,       \* e-mails
    Events,         \* webhook events, by their dedupe key
    Handlers,       \* executions of the two handlers that may overlap
    MessageOf,      \* the e-mail an event is about
    KindOf,         \* its normalizedEventType
    OccurredAt,     \* its occurredAt, a positive number
    MaxDeliveries,  \* bound: deliveries of events, repeated ones included
    MaxReprocesses, \* bound: reprocess commands
    MaxFaults,      \* bound: exceptions inside the processing transaction
    MaxCrashes      \* bound: executions that end halfway

Kinds == {"sent", "delivered", "bounced", "complained", "failed", "opened"}

ASSUME TrackingAssumption ==
    /\ MessageOf \in [Events -> Messages]
    /\ KindOf \in [Events -> Kinds]
    /\ OccurredAt \in [Events -> Nat \ {0}]
    /\ MaxDeliveries \in Nat /\ MaxReprocesses \in Nat
    /\ MaxFaults \in Nat /\ MaxCrashes \in Nat

VARIABLES
    message,   \* status of the rows of email_messages
    provided,  \* rows of email_provider_messages: webhook time and status
    stored,    \* processing_status of the rows of email_webhook_events
    sender,    \* the execution of sendTrackedEmail for each e-mail
    taken,     \* e-mails the provider has accepted: their events may come
    run,       \* executions of the webhook handlers
    receipts,  \* history: events whose processing was committed as applied
    abandoned, \* history: events whose execution ended halfway
    deliveries, reprocesses, faults, crashes

tables == <<message, provided, stored>>
history == <<receipts, abandoned>>
bounds == <<deliveries, reprocesses, faults, crashes>>
vars == <<tables, sender, taken, run, history, bounds>>

Statuses == {"pending", "accepted", "delivered", "bounced", "complained",
             "failed"}
Outcomes == {"accepted", "failed"}
Retryable == {"failed", "persisted", "unmatched"}

\* No row: the sender has not written it yet.
NoRow == [exists |-> FALSE, last |-> 0, status |-> "none"]
ProviderRow == [exists : BOOLEAN, last : Nat,
                status : Outcomes \cup Kinds \cup {"none"}]

SenderState == [pc : {"idle", "sending", "tracking", "marking", "writing",
                      "done"},
                outcome : Outcomes,
                seen : Statuses \cup {"none"}]

\* An execution without an event; locked: it holds the provider row's lock.
IdleRun == [pc |-> "idle"]
InTransaction == {"resolving", "unmatching", "touching", "reading",
                  "committing"}
BusyRun == [pc : InTransaction \cup {"claiming", "rechecking", "failing"},
            event : Events, via : {"ingest", "reprocess"}, tries : 0..3,
            seen : Statuses \cup {"none"}, locked : BOOLEAN]

TypeOK ==
    /\ message \in [Messages -> Statuses \cup {"none"}]
    /\ provided \in [Messages -> ProviderRow]
    /\ stored \in [Events -> Retryable \cup {"none", "received", "applied"}]
    /\ sender \in [Messages -> SenderState]
    /\ taken \subseteq Messages
    /\ run \in [Handlers -> BusyRun \cup {IdleRun}]
    /\ receipts \subseteq Events
    /\ abandoned \subseteq Events
    /\ deliveries \in 0..MaxDeliveries
    /\ reprocesses \in 0..MaxReprocesses
    /\ faults \in 0..MaxFaults
    /\ crashes \in 0..MaxCrashes

Init ==
    /\ message = [m \in Messages |-> "none"]
    /\ provided = [m \in Messages |-> NoRow]
    /\ stored = [e \in Events |-> "none"]
    /\ sender = [m \in Messages |->
                   [pc |-> "idle", outcome |-> "accepted", seen |-> "none"]]
    /\ taken = {}
    /\ run = [h \in Handlers |-> IdleRun]
    /\ receipts = {} /\ abandoned = {}
    /\ deliveries = 0 /\ reprocesses = 0 /\ faults = 0 /\ crashes = 0

(***************************************************************************)
(* The statuses of an e-mail.                                               *)
(***************************************************************************)

\* mapNormalizedEventToMessageStatus: the status an event stands for.
StatusFor(kind) == CASE kind = "sent" -> "accepted"
                     [] kind = "opened" -> "none"
                     [] OTHER -> kind

\* Mutant of NextStatus: a delivery undoes a complaint.
NextStatusUndoing(current, incoming) ==
    CASE incoming = "none" -> "none"
      [] incoming = "accepted" /\ current = "pending" -> "accepted"
      [] incoming = "delivered" -> "delivered"
      [] incoming \in {"bounced", "failed"}
           /\ current \in {"pending", "accepted"} -> incoming
      [] incoming = "complained"
           /\ current \in {"pending", "accepted", "delivered"} -> incoming
      [] OTHER -> "none"

\* getNextWebhookStatus: the status to write over the one that was read, if
\* any.
NextStatus(current, incoming) ==
    CASE incoming = "accepted" /\ current = "pending" -> "accepted"
      [] incoming \in {"delivered", "bounced", "failed"}
           /\ current \in {"pending", "accepted"} -> incoming
      [] incoming = "complained"
           /\ current \in {"pending", "accepted", "delivered"} -> incoming
      [] OTHER -> "none"

(***************************************************************************)
(* sendTrackedEmail.                                                        *)
(***************************************************************************)

At(m, pc) == sender[m].pc = pc
GoTo(m, pc) == sender' = [sender EXCEPT ![m].pc = pc]

CreateMessage(m) ==
    /\ At(m, "idle")
    /\ message' = [message EXCEPT ![m] = "pending"]
    /\ GoTo(m, "sending")
    /\ UNCHANGED <<provided, stored, taken, run, history, bounds>>

\* The provider takes the e-mail, or answers that it does not.
SendAnswered(m) ==
    /\ At(m, "sending")
    /\ \E outcome \in Outcomes :
          /\ taken' = IF outcome = "accepted" THEN taken \cup {m} ELSE taken
          /\ sender' = [sender EXCEPT ![m] =
                          [@ EXCEPT !.pc = "tracking", !.outcome = outcome]]
    /\ UNCHANGED <<tables, run, history, bounds>>

\* sendEmail throws, and the provider may have taken the e-mail all the same:
\* the message is marked failed and no provider row is written.
SendThrows(m) ==
    /\ At(m, "sending")
    /\ taken' \in {taken, taken \cup {m}}
    /\ sender' = [sender EXCEPT ![m] =
                   [@ EXCEPT !.pc = "marking", !.outcome = "failed"]]
    /\ UNCHANGED <<tables, run, history, bounds>>

CreateProviderMessage(m) ==
    /\ At(m, "tracking")
    /\ provided' = [provided EXCEPT ![m] =
          [exists |-> TRUE, last |-> 0, status |-> sender[m].outcome]]
    /\ GoTo(m, "marking")
    /\ UNCHANGED <<message, stored, taken, run, history, bounds>>

\* updateStatus outside a transaction: one statement reads the row, the next
\* writes what follows from the status read.
ReadToMark(m) ==
    /\ At(m, "marking")
    /\ sender' = [sender EXCEPT ![m] =
          [@ EXCEPT !.seen = message[m],
                    !.pc = IF NextStatus(message[m], sender[m].outcome) = "none"
                           THEN "done" ELSE "writing"]]
    /\ UNCHANGED <<tables, taken, run, history, bounds>>

WriteMark(m) ==
    /\ At(m, "writing")
    /\ message' = [message EXCEPT
                     ![m] = NextStatus(sender[m].seen, sender[m].outcome)]
    /\ GoTo(m, "done")
    /\ UNCHANGED <<provided, stored, taken, run, history, bounds>>

\* A statement throws or the process dies: what was written stays.
SenderStops(m) ==
    /\ sender[m].pc \notin {"idle", "done"}
    /\ crashes < MaxCrashes
    /\ crashes' = crashes + 1
    /\ taken' \in IF At(m, "sending") THEN {taken, taken \cup {m}} ELSE {taken}
    /\ GoTo(m, "done")
    /\ UNCHANGED <<tables, run, history, deliveries, reprocesses, faults>>

(***************************************************************************)
(* The webhook handlers.                                                    *)
(***************************************************************************)

sending == <<sender, taken>>
InPc(h, pc) == run[h].pc = pc
Enter(h, pc) == run' = [run EXCEPT ![h].pc = pc]
Leave(h) == run' = [run EXCEPT ![h] = IdleRun]
Start(h, pc, e, via) ==
    run' = [run EXCEPT ![h] = [pc |-> pc, event |-> e, via |-> via,
                               tries |-> 0, seen |-> "none",
                               locked |-> FALSE]]
MessageOfRun(h) == MessageOf[run[h].event]
StoreRun(h, status) == stored' = [stored EXCEPT ![run[h].event] = status]

\* Mutant of Ingest: the duplicate check also lets an applied event through.
IngestAny(h, e) ==
    /\ InPc(h, "idle")
    /\ MessageOf[e] \in taken
    /\ deliveries < MaxDeliveries
    /\ deliveries' = deliveries + 1
    /\ Start(h, "resolving", e, "ingest")
    /\ stored' = [stored EXCEPT ![e] = "persisted"]
    /\ UNCHANGED <<message, provided, sending, history, reprocesses, faults,
                   crashes>>

\* The provider delivers an event. Its row is inserted unless the dedupe key
\* is known; a known event is claimed if its status allows a retry and is
\* answered as a duplicate otherwise.
Ingest(h, e) ==
    /\ InPc(h, "idle")
    /\ MessageOf[e] \in taken
    /\ deliveries < MaxDeliveries
    /\ deliveries' = deliveries + 1
    /\ \/ /\ stored[e] = "none"
          /\ stored' = [stored EXCEPT ![e] = "persisted"]
          /\ Start(h, "resolving", e, "ingest")
       \/ /\ stored[e] \in Retryable
          /\ Start(h, "claiming", e, "ingest")
          /\ UNCHANGED stored
       \/ /\ stored[e] \in {"received", "applied"}
          /\ UNCHANGED <<stored, run>>
    /\ UNCHANGED <<message, provided, sending, history, reprocesses, faults,
                   crashes>>

\* An administrator has an event reprocessed that is eligible for it.
Reprocess(h, e) ==
    /\ InPc(h, "idle")
    /\ stored[e] \in Retryable
    /\ reprocesses < MaxReprocesses
    /\ reprocesses' = reprocesses + 1
    /\ Start(h, "claiming", e, "reprocess")
    /\ UNCHANGED <<tables, sending, history, deliveries, faults, crashes>>

\* Mutant of Claim: the claimed event is not taken up.
ClaimAndForget(h) ==
    /\ InPc(h, "claiming")
    /\ StoreRun(h, "received")
    /\ Leave(h)
    /\ UNCHANGED <<message, provided, sending, history, bounds>>

\* prepareForReprocess: one UPDATE that moves an eligible event to received.
Claim(h) ==
    /\ InPc(h, "claiming")
    /\ IF stored[run[h].event] \in Retryable
       THEN StoreRun(h, "received") /\ Enter(h, "resolving")
       ELSE /\ run' = [run EXCEPT ![h] =
                         [@ EXCEPT !.pc = "rechecking", !.tries = run[h].tries + 1]]
            /\ UNCHANGED stored
    /\ UNCHANGED <<message, provided, sending, history, bounds>>

\* The claim was lost: read the event again, and claim it again up to three
\* times in all. A reprocess command that finds it received goes on with it,
\* although it is then in the hands of the execution that won the claim.
Recheck(h) ==
    LET status == stored[run[h].event]
    IN  /\ InPc(h, "rechecking")
        /\ \/ /\ status \in Retryable /\ run[h].tries < 3
              /\ Enter(h, "claiming")
           \/ /\ status = "received" /\ run[h].via = "reprocess"
              /\ Enter(h, "resolving")
           \/ /\ \/ status \in Retryable /\ run[h].tries = 3
                 \/ status = "received" /\ run[h].via = "ingest"
                 \/ status \in {"applied", "none"}
              /\ Leave(h)
        /\ UNCHANGED <<tables, sending, history, bounds>>

\* resolveProviderMessage: whichever identifier the event carries, it leads to
\* the one provider row of its e-mail, if that has been written.
Resolve(h) ==
    /\ InPc(h, "resolving")
    /\ Enter(h, IF provided[MessageOfRun(h)].exists THEN "touching"
                ELSE "unmatching")
    /\ UNCHANGED <<tables, sending, history, bounds>>

MarkUnmatched(h) ==
    /\ InPc(h, "unmatching")
    /\ StoreRun(h, "unmatched")
    /\ Leave(h)
    /\ UNCHANGED <<message, provided, sending, history, bounds>>

Locked(m) == \E h \in Handlers : /\ run[h].pc \in InTransaction
                                 /\ run[h].locked
                                 /\ MessageOfRun(h) = m

\* Mutant of IsNews: an event may overwrite a later one's receipt.
AlwaysNews(h) == TRUE

\* lte(lastWebhookOccurredAt, occurredAt), or no webhook yet.
IsNews(h) == provided[MessageOfRun(h)].last <= OccurredAt[run[h].event]

\* touchWebhookReceipt: the UPDATE takes the provider row's lock when the
\* event is no older than the last one, and touches nothing when it is.
Touch(h) ==
    /\ InPc(h, "touching")
    /\ \/ /\ IsNews(h)
          /\ ~Locked(MessageOfRun(h))
          /\ run' = [run EXCEPT ![h] =
                         [@ EXCEPT !.pc = "reading", !.locked = TRUE]]
       \/ ~IsNews(h) /\ Enter(h, "reading")
    /\ UNCHANGED <<tables, sending, history, bounds>>

\* updateStatusWithDatabase reads the e-mail's status without locking it.
ReadStatus(h) ==
    /\ InPc(h, "reading")
    /\ run' = [run EXCEPT ![h] =
                [@ EXCEPT !.pc = "committing",
                          !.seen = message[MessageOfRun(h)]]]
    /\ UNCHANGED <<tables, sending, history, bounds>>

\* The status an execution writes, from the one it has read.
StatusOfRun(h) == NextStatus(run[h].seen, StatusFor(KindOf[run[h].event]))

\* Mutant of WriteTables: the receipt is left out of the transaction.
WriteWithoutReceipt(h) ==
    /\ message' = IF StatusOfRun(h) = "none" THEN message
                  ELSE [message EXCEPT ![MessageOfRun(h)] = StatusOfRun(h)]
    /\ UNCHANGED provided

\* What the transaction's updates amount to at its commit.
WriteTables(h) ==
    /\ message' = IF StatusOfRun(h) = "none" THEN message
                  ELSE [message EXCEPT ![MessageOfRun(h)] = StatusOfRun(h)]
    /\ provided' = IF run[h].locked
                   THEN [provided EXCEPT ![MessageOfRun(h)] =
                           [exists |-> TRUE,
                            last |-> OccurredAt[run[h].event],
                            status |-> KindOf[run[h].event]]]
                   ELSE provided

\* The rest of the transaction: the e-mail's status, the event's, the commit.
Commit(h) ==
    /\ InPc(h, "committing")
    /\ WriteTables(h)
    /\ StoreRun(h, "applied")
    /\ receipts' = receipts \cup {run[h].event}
    /\ Leave(h)
    /\ UNCHANGED <<sending, abandoned, bounds>>

\* Mutant of Fail: the status written before the exception survives it.
FailHalfway(h) ==
    /\ InPc(h, "committing")
    /\ faults < MaxFaults
    /\ faults' = faults + 1
    /\ WriteTables(h)
    /\ run' = [run EXCEPT ![h] =
                [@ EXCEPT !.pc = "failing", !.locked = FALSE]]
    /\ UNCHANGED <<stored, sending, history, deliveries, reprocesses, crashes>>

\* An exception inside the transaction rolls it back.
Fail(h) ==
    /\ run[h].pc \in InTransaction
    /\ faults < MaxFaults
    /\ faults' = faults + 1
    /\ run' = [run EXCEPT ![h] =
                [@ EXCEPT !.pc = "failing", !.locked = FALSE]]
    /\ UNCHANGED <<tables, sending, history, deliveries, reprocesses, crashes>>

\* Mutant of MarkFailed: the failure is only reported.
ForgetFailure(h) ==
    /\ InPc(h, "failing")
    /\ Leave(h)
    /\ UNCHANGED <<tables, sending, history, bounds>>

\* markFailed, in a transaction of its own.
MarkFailed(h) ==
    /\ InPc(h, "failing")
    /\ StoreRun(h, "failed")
    /\ Leave(h)
    /\ UNCHANGED <<message, provided, sending, history, bounds>>

\* The process dies, or a statement outside the try block throws: an open
\* transaction is rolled back.
RunStops(h) ==
    /\ ~InPc(h, "idle")
    /\ crashes < MaxCrashes
    /\ crashes' = crashes + 1
    /\ abandoned' = abandoned \cup {run[h].event}
    /\ Leave(h)
    /\ UNCHANGED <<tables, sending, receipts, deliveries, reprocesses, faults>>

SenderStep(m) ==
    \/ CreateMessage(m) \/ SendAnswered(m) \/ SendThrows(m)
    \/ CreateProviderMessage(m) \/ ReadToMark(m) \/ WriteMark(m)

HandlerStep(h) ==
    \/ Claim(h) \/ Recheck(h) \/ Resolve(h) \/ MarkUnmatched(h) \/ Touch(h)
    \/ ReadStatus(h) \/ Commit(h) \/ MarkFailed(h)

Next ==
    \/ \E m \in Messages : SenderStep(m) \/ SenderStops(m)
    \/ \E h \in Handlers : HandlerStep(h) \/ Fail(h) \/ RunStops(h)
    \/ \E h \in Handlers, e \in Events : Ingest(h, e) \/ Reprocess(h, e)

\* An execution that has begun goes on: its awaits resolve.
Fairness == \A h \in Handlers : WF_vars(HandlerStep(h))

Spec == Init /\ [][Next]_vars /\ Fairness

(***************************************************************************)
(* Properties.                                                              *)
(***************************************************************************)

Processing(h, e) == /\ run[h].pc \in InTransaction \cup {"failing"}
                    /\ run[h].event = e

ReceiptsOf(m) == {e \in receipts : MessageOf[e] = m}

\* In whatever order the webhooks of an e-mail are delivered, repeated and
\* processed, the provider row shows the newest of those that were applied
\* (the guard and the row lock of touchWebhookReceiptWithDatabase).
ReceiptIsNewest ==
    \A m \in Messages :
        IF ReceiptsOf(m) = {} THEN provided[m].last = 0
        ELSE \E e \in ReceiptsOf(m) :
                /\ provided[m].exists
                /\ provided[m].last = OccurredAt[e]
                /\ provided[m].status = KindOf[e]
                /\ \A d \in ReceiptsOf(m) : OccurredAt[d] <= OccurredAt[e]

\* An e-mail has a status only because the sender saw that outcome or an event
\* of that kind is recorded as applied: a processing that failed or died
\* leaves no trace in the e-mail (processWithDatabase in one transaction).
StatusHasCause ==
    \A m \in Messages :
        /\ message[m] \in {"delivered", "bounced", "complained"} =>
              \E e \in ReceiptsOf(m) : KindOf[e] = message[m]
        /\ message[m] = "accepted" =>
              \/ sender[m].pc = "done" /\ sender[m].outcome = "accepted"
              \/ \E e \in ReceiptsOf(m) : KindOf[e] = "sent"
        /\ message[m] = "failed" =>
              \/ sender[m].pc = "done" /\ sender[m].outcome = "failed"
              \/ \E e \in ReceiptsOf(m) : KindOf[e] = "failed"

\* An event that waits to be processed is in the hands of an execution, unless
\* one that had it ended halfway: no lost claim and no failure drops an event
\* (the statuses persisted and received, which no query looks for).
WaitingIsHeld ==
    \A e \in Events : stored[e] \in {"persisted", "received"} =>
        e \in abandoned \/ \E h \in Handlers : Processing(h, e)

\* A duplicate delivery or a reprocess command never begins to process an
\* event that has been applied, however the claims interleave (the status
\* checks of both handlers and of prepareForReprocessWithDatabase).
AppliedNotTakenUp ==
    [][\A h \in Handlers, e \in Events :
          Processing(h, e)' /\ ~Processing(h, e) => stored[e] # "applied"]_vars

Rank(status) == CASE status = "none" -> 0
                  [] status = "pending" -> 1
                  [] status = "accepted" -> 2
                  [] status = "complained" -> 4
                  [] OTHER -> 3

\* An e-mail's status moves forward only, except when its writer read it
\* before another one changed it (getNextWebhookStatus, and the unlocked read
\* of updateStatusWithDatabase).
StatusMovesForward ==
    [][\A m \in Messages : message[m]' # message[m] =>
          \/ Rank(message[m]') > Rank(message[m])
          \/ At(m, "writing") /\ sender[m].seen # message[m]
          \/ \E h \in Handlers : /\ InPc(h, "committing")
                                 /\ ~InPc(h, "committing")'
                                 /\ MessageOfRun(h) = m
                                 /\ run[h].seen # message[m]]_vars

\* However executions overlap, fail and die, an event is applied in one step or
\* leaves no trace: its receipt, the e-mail's status and its own status change
\* together, and what the provider row shows is as if webhooks came one by one
\* (processWithDatabase, whose first statement locks the provider row).
Finished == {m \in Messages : At(m, "done")}
Record == INSTANCE EmailRecord WITH finished <- Finished
ImplementsRecord == Record!Spec

\* Every event that is stored or claimed ends as applied, unmatched or failed,
\* unless an execution that had it ended halfway.
EventsSettle ==
    \A e \in Events : stored[e] \in {"persisted", "received"} ~>
                         \/ stored[e] \in {"applied", "unmatched", "failed"}
                         \/ e \in abandoned

\* What the reprocess handler's integration test says: a replay is rejected
\* once another one has claimed the event.
OneReplayAtATime ==
    \A g, h \in Handlers, e \in Events :
        /\ Processing(g, e) /\ Processing(h, e)
        /\ run[g].via = "reprocess" /\ run[h].via = "reprocess" => g = h
=============================================================================
