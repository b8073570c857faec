---------------------------- MODULE OutboxProofs ----------------------------
(***************************************************************************)
(* Theorems about Outbox, for any events, pollers, retry limit, batch size *)
(* and number of faults and resets.                                        *)
(***************************************************************************)
EXTENDS Outbox, TLAPS

\* A poller has a current event exactly in the middle of processEvent, and
\* between two runs of processPendingEvents it holds nothing.
Busy == {"publish", "mark", "failing", "park"}
PollerShape ==
    \A w \in Workers :
        /\ pc[w] \in Busy => cur[w] \in Events
        /\ pc[w] \notin Busy => cur[w] = None
        /\ pc[w] \in {"off", "disabled", "idle"} => todo[w] = {}

TypeInv == TypeOK /\ PollerShape

-----------------------------------------------------------------------------
(* Lemmas about the statements *)

\* Writing a row in place of an existing one keeps the table a table.
LEMMA UpdatedType ==
    ASSUME row \in [Events -> Row], NEW e, NEW r \in Row
    PROVE Updated(e, r) \in [Events -> Row]
BY DEF Updated

\* A new row and a row that is not there are rows.
LEMMA NewRowType == NewRow \in Row /\ NoRow \in Row
BY DEF NewRow, NoRow, Row, Status, RetryTime

\* markAsPublished, markAsDeadLettered and markAsFailed produce tables.
LEMMA MarkedType ==
    ASSUME row \in [Events -> Row], NEW e \in Events, NEW t \in RetryTime
    PROVE /\ MarkedPublished(e) \in [Events -> Row]
          /\ MarkedDeadLettered(e) \in [Events -> Row]
          /\ MarkedFailed(e, t) \in [Events -> Row]
<1>1. row[e] \in Row
  OBVIOUS
<1>2. [row[e] EXCEPT !.status = "published", !.lockedBy = None] \in Row
  BY <1>1 DEF Row, Status
<1>3. [row[e] EXCEPT !.status = "failed", !.lockedBy = None,
                     !.nextRetryAt = "unset", !.deadLettered = TRUE] \in Row
  BY <1>1 DEF Row, Status, RetryTime
<1>4. [row[e] EXCEPT !.status = "failed", !.lockedBy = None,
                     !.nextRetryAt = t, !.retryCount = @ + 1] \in Row
  <2>1. row[e].retryCount \in Nat
    BY <1>1 DEF Row
  <2>2. row[e].retryCount + 1 \in Nat
    BY <2>1
  <2> QED
    BY <1>1, <2>2 DEF Row, Status
<1>5. MarkedPublished(e) \in [Events -> Row]
  BY <1>2, UpdatedType DEF MarkedPublished
<1>6. MarkedDeadLettered(e) \in [Events -> Row]
  BY <1>3, UpdatedType DEF MarkedDeadLettered
<1>7. MarkedFailed(e, t) \in [Events -> Row]
  BY <1>4, UpdatedType DEF MarkedFailed
<1> QED
  BY <1>5, <1>6, <1>7

\* A claim produces a table, and copies.
LEMMA ClaimedType ==
    ASSUME row \in [Events -> Row], NEW S \in SUBSET Events, NEW w \in Workers,
           NEW b \in BOOLEAN
    PROVE /\ Claimed(S, w) \in [Events -> Row]
          /\ CopiesOf(S, b) \in SUBSET Copy
<1>1. ASSUME NEW e \in Events
      PROVE [row[e] EXCEPT !.status = "processing", !.lockedBy = w] \in Row
  BY DEF Row, Status
<1>2. Claimed(S, w) \in [Events -> Row]
  BY <1>1 DEF Claimed
<1>3. CopiesOf(S, b) \in SUBSET Copy
  BY DEF CopiesOf, Copy, Row
<1> QED
  BY <1>2, <1>3

\* The retention jobs and the deletion produce tables.
LEMMA DeletedType ==
    ASSUME row \in [Events -> Row], NEW S \in SUBSET Events
    PROVE Deleted(S) \in [Events -> Row]
<1>1. [NoRow EXCEPT !.status = "deleted"] \in Row
  BY NewRowType DEF Row, Status
<1> QED
  BY <1>1 DEF Deleted

\* The columns after each statement: e is the row it names, the other rows
\* keep theirs.
LEMMA MarkedPublishedColumns ==
    ASSUME row \in [Events -> Row], NEW e \in Events, NEW f \in Events
    PROVE LET r == MarkedPublished(e)[f] IN
          IF f = e /\ Exists(e)
          THEN /\ r.status = "published" /\ r.lockedBy = None
               /\ r.retryCount = row[f].retryCount
               /\ r.nextRetryAt = row[f].nextRetryAt
               /\ r.deadLettered = row[f].deadLettered
          ELSE r = row[f]
<1>1. row[f] \in Row
  OBVIOUS
<1> QED
  BY <1>1 DEF MarkedPublished, Updated, Row

LEMMA MarkedFailedColumns ==
    ASSUME row \in [Events -> Row], NEW e \in Events, NEW f \in Events, NEW t
    PROVE LET r == MarkedFailed(e, t)[f] IN
          IF f = e /\ Exists(e)
          THEN /\ r.status = "failed" /\ r.lockedBy = None
               /\ r.retryCount = row[f].retryCount + 1
               /\ r.nextRetryAt = t
               /\ r.deadLettered = row[f].deadLettered
          ELSE r = row[f]
<1>1. row[f] \in Row
  OBVIOUS
<1> QED
  BY <1>1 DEF MarkedFailed, Updated, Row

LEMMA MarkedDeadLetteredColumns ==
    ASSUME row \in [Events -> Row], NEW e \in Events, NEW f \in Events
    PROVE LET r == MarkedDeadLettered(e)[f] IN
          IF f = e /\ Exists(e)
          THEN /\ r.status = "failed" /\ r.lockedBy = None
               /\ r.retryCount = row[f].retryCount
               /\ r.nextRetryAt = "unset"
               /\ r.deadLettered
          ELSE r = row[f]
<1>1. row[f] \in Row
  OBVIOUS
<1> QED
  BY <1>1 DEF MarkedDeadLettered, Updated, Row

LEMMA ClaimedColumns ==
    ASSUME row \in [Events -> Row], NEW S, NEW w, NEW f \in Events
    PROVE LET r == Claimed(S, w)[f] IN
          IF f \in S
          THEN /\ r.status = "processing" /\ r.lockedBy = w
               /\ r.retryCount = row[f].retryCount
               /\ r.nextRetryAt = row[f].nextRetryAt
               /\ r.deadLettered = row[f].deadLettered
          ELSE r = row[f]
<1>1. row[f] \in Row
  OBVIOUS
<1> QED
  BY <1>1 DEF Claimed, Row

LEMMA ElapsedColumns ==
    ASSUME row \in [Events -> Row], NEW e \in Events, NEW f \in Events, Elapse(e)
    PROVE IF f = e
          THEN /\ row'[f].status = row[f].status
               /\ row'[f].lockedBy = row[f].lockedBy
               /\ row'[f].retryCount = row[f].retryCount
               /\ row'[f].nextRetryAt = "due"
               /\ row'[f].deadLettered = row[f].deadLettered
          ELSE row'[f] = row[f]
<1>1. row[f] \in Row
  OBVIOUS
<1> QED
  BY <1>1 DEF Elapse, Row

\* A statement leaves the table as it was or as the statement makes it.
LEMMA ExecutedRows ==
    ASSUME NEW after, NEW reply, Executed(after, reply), faults \in Nat
    PROVE (row' = row \/ row' = after) /\ faults' \in Nat
BY DEF Executed, Fault

-----------------------------------------------------------------------------

\* TypeOK is not inductive alone: Publish adds cur[w] to delivered, which
\* PollerShape makes an event.
LEMMA TypeInvariant == Spec => []TypeInv
<1>1. Init => TypeInv
  BY OutboxAssumption, NewRowType DEF Init, TypeInv, TypeOK, PollerShape,
     Label, Busy
<1>2. TypeInv /\ [Next]_vars => TypeInv'
  <2> SUFFICES ASSUME TypeInv, [Next]_vars PROVE TypeInv'
    OBVIOUS
  <2> USE OutboxAssumption
  <2>0. /\ row \in [Events -> Row] /\ faults \in Nat
        /\ \A w \in Workers : cur[w] \in Events \cup {None}
    BY DEF TypeInv, TypeOK
  <2>1. ASSUME NEW e \in Events, Insert(e) PROVE TypeInv'
    BY <2>1, NewRowType DEF Insert, TypeInv, TypeOK, PollerShape, poller
  <2>2. ASSUME NEW e \in Events, Elapse(e) PROVE TypeInv'
    <3>1. [row[e] EXCEPT !.nextRetryAt = "due"] \in Row
      BY <2>0 DEF Row, RetryTime
    <3> QED
      BY <2>2, <3>1 DEF Elapse, TypeInv, TypeOK, PollerShape, poller
  <2>3. ASSUME NEW e \in Events, DeleteDeadLettered(e) PROVE TypeInv'
    <3>1. Deleted({e}) \in [Events -> Row]
      BY <2>0, DeletedType
    <3> QED
      BY <2>3, <3>1 DEF DeleteDeadLettered, TypeInv, TypeOK, PollerShape, poller
  <2>4. ASSUME NEW w \in Workers, Start(w) PROVE TypeInv'
    BY <2>4 DEF Start, TypeInv, TypeOK, PollerShape, Busy, table, Goto, Fault,
       Label
  <2>5. ASSUME NEW w \in Workers, ClaimPending(w) PROVE TypeInv'
    <3> DEFINE batch == Oldest(Pending, BatchSize)
    <3>1. batch \in SUBSET Events
      BY DEF Oldest, Pending
    <3>2. PICK reply \in Reply :
             /\ Executed(Claimed(batch, w), reply)
             /\ IF reply = "ok"
                THEN /\ todo' = [todo EXCEPT ![w] = CopiesOf(batch, TRUE)]
                     /\ Goto(w, "claimed")
                ELSE UNCHANGED <<todo, pc>>
      BY <2>5 DEF ClaimPending
    <3>3. row' \in [Events -> Row] /\ faults' \in Nat
      BY <2>0, <3>1, <3>2, ClaimedType, ExecutedRows
    <3>4. CopiesOf(batch, TRUE) \in SUBSET Copy
      BY <2>0, <3>1, ClaimedType
    <3> HIDE DEF batch
    <3>5. TypeOK'
      <4>1. todo' \in [Workers -> SUBSET Copy] /\ pc' \in [Workers -> Label]
        BY <3>2, <3>4, ZenonT(30) DEF TypeInv, TypeOK, Goto, Label
      <4> QED
        BY <2>5, <3>3, <4>1 DEF ClaimPending, TypeInv, TypeOK
    <3>6. PollerShape'
      <4>1. pc[w] = "idle" /\ UNCHANGED cur
        BY <2>5 DEF ClaimPending
      <4>2. CASE UNCHANGED <<todo, pc>>
        BY <4>1, <4>2 DEF TypeInv, PollerShape
      <4>3. CASE todo' = [todo EXCEPT ![w] = CopiesOf(batch, TRUE)] /\ Goto(w, "claimed")
        BY <4>1, <4>3 DEF TypeInv, TypeOK, PollerShape, Goto, Busy
      <4> QED
        BY <3>2, <4>2, <4>3
    <3> QED
      BY <3>5, <3>6 DEF TypeInv
  <2>6. ASSUME NEW w \in Workers, ClaimRetryable(w) PROVE TypeInv'
    <3>1. PICK reply \in Reply, batch \in AnyOf(Retryable, BatchSize) :
             /\ Executed(Claimed(batch, w), reply)
             /\ IF reply = "ok"
                THEN /\ todo' = [todo EXCEPT ![w] = @ \cup CopiesOf(batch, FALSE)]
                     /\ Goto(w, "loop")
                     /\ UNCHANGED cur
                ELSE Abandon(w, "idle")
      BY <2>6 DEF ClaimRetryable
    <3>2. batch \in SUBSET Events
      BY <3>1 DEF AnyOf, Retryable
    <3>3. row' \in [Events -> Row] /\ faults' \in Nat
      BY <2>0, <3>1, <3>2, ClaimedType, ExecutedRows
    <3>4. CopiesOf(batch, FALSE) \in SUBSET Copy
      BY <2>0, <3>2, ClaimedType
    <3>5. TypeOK'
      <4>1. /\ todo' \in [Workers -> SUBSET Copy] /\ pc' \in [Workers -> Label]
            /\ cur' \in [Workers -> Events \cup {None}]
        <5>1. CASE reply = "ok"
          <6>1. todo[w] \cup CopiesOf(batch, FALSE) \in SUBSET Copy
            BY <3>4 DEF TypeInv, TypeOK
          <6>2. todo' = [todo EXCEPT ![w] = todo[w] \cup CopiesOf(batch, FALSE)]
            BY <3>1, <5>1
          <6> QED
            BY <3>1, <5>1, <6>1, <6>2 DEF TypeInv, TypeOK, Goto, Label
        <5>2. CASE reply # "ok"
          BY <3>1, <5>2 DEF TypeInv, TypeOK, Goto, Label, Abandon
        <5> QED
          BY <5>1, <5>2
      <4> QED
        BY <2>6, <3>3, <4>1 DEF ClaimRetryable, TypeInv, TypeOK
    <3>6. PollerShape'
      BY <2>6, <3>1, ZenonT(30) DEF ClaimRetryable, TypeInv, TypeOK,
         PollerShape, Goto, Busy, Abandon
    <3> QED
      BY <3>5, <3>6 DEF TypeInv
  <2>7. ASSUME NEW w \in Workers, PickEvent(w) PROVE TypeInv'
    <3>1. PICK c \in todo[w] :
             /\ todo' = [todo EXCEPT ![w] = @ \ {c}]
             /\ cur' = [cur EXCEPT ![w] = c.id]
             /\ Goto(w, FirstStep(c))
      BY <2>7 DEF PickEvent
    <3>2. c.id \in Events /\ FirstStep(c) \in {"park", "publish"}
      BY <3>1 DEF TypeInv, TypeOK, Copy, FirstStep
    <3> QED
      BY <2>7, <3>1, <3>2
         DEF PickEvent, TypeInv, TypeOK, PollerShape, Busy, table, Goto, Label
  <2>8. ASSUME NEW w \in Workers, EndBatch(w) PROVE TypeInv'
    BY <2>8 DEF EndBatch, TypeInv, TypeOK, PollerShape, Busy, table, Goto, Label
  <2>9. ASSUME NEW w \in Workers, Publish(w) PROVE TypeInv'
    <3>1. cur[w] \in Events
      BY <2>9 DEF Publish, TypeInv, PollerShape, Busy
    <3>2. attempts' \in [Events -> Nat]
      <4>1. attempts' = [attempts EXCEPT ![cur[w]] = @ + 1]
        BY <2>9 DEF Publish
      <4>2. attempts \in [Events -> Nat] /\ attempts[cur[w]] \in Nat
        BY <3>1 DEF TypeInv, TypeOK
      <4>3. attempts[cur[w]] + 1 \in Nat
        BY <4>2
      <4> QED
        BY <3>1, <4>1, <4>2, <4>3
    <3>3. delivered' \subseteq Events /\ faults' \in Nat
      <4>1. delivered' = delivered \/ delivered' = delivered \cup {cur[w]}
        BY <2>9 DEF Publish
      <4>2. faults' = faults \/ faults' = faults + 1
        BY <2>9 DEF Publish, Fault
      <4>3. delivered \subseteq Events /\ faults \in Nat
        BY DEF TypeInv, TypeOK
      <4>4. faults + 1 \in Nat
        BY <4>3
      <4> QED
        BY <3>1, <4>1, <4>2, <4>3, <4>4
    <3>4. pc' \in [Workers -> Label] /\ PollerShape'
      BY <2>9, <3>1 DEF Publish, TypeInv, TypeOK, PollerShape, Busy, Goto, Label
    <3> QED
      BY <2>9, <3>2, <3>3, <3>4 DEF Publish, TypeInv, TypeOK
  <2>10. ASSUME NEW w \in Workers, MarkPublished(w) \/ MarkFailed(w) \/ Park(w)
         PROVE TypeInv'
    <3>1. cur[w] \in Events
      BY <2>10 DEF MarkPublished, MarkFailed, Park, GivenUp, TypeInv,
         PollerShape, Busy
    <3>2. row' \in [Events -> Row] /\ faults' \in Nat
      <4>1. PICK reply \in Reply :
               \/ Executed(MarkedPublished(cur[w]), reply)
               \/ Executed(MarkedFailed(cur[w], "backoff"), reply)
               \/ Executed(IF DeadLetterWired THEN MarkedDeadLettered(cur[w])
                           ELSE MarkedFailed(cur[w], "year"), reply)
        BY <2>10 DEF MarkPublished, MarkFailed, Park, GivenUp
      <4>2. /\ MarkedPublished(cur[w]) \in [Events -> Row]
            /\ MarkedFailed(cur[w], "backoff") \in [Events -> Row]
            /\ (IF DeadLetterWired THEN MarkedDeadLettered(cur[w])
                ELSE MarkedFailed(cur[w], "year")) \in [Events -> Row]
        BY <2>0, <3>1, MarkedType DEF RetryTime
      <4> QED
        BY <2>0, <4>1, <4>2, ExecutedRows
    <3>3. EndEvent(w) \/ Abandon(w, "idle") \/ (Goto(w, "failing") /\ UNCHANGED <<todo, cur>>)
      BY <2>10 DEF MarkPublished, MarkFailed, Park, GivenUp
    <3>4. /\ pc' \in [Workers -> Label] /\ todo' \in [Workers -> SUBSET Copy]
          /\ cur' \in [Workers -> Events \cup {None}] /\ PollerShape'
      BY <2>10, <3>1, <3>3
         DEF TypeInv, TypeOK, PollerShape, Busy, EndEvent, Abandon, Goto, Label,
             MarkPublished, MarkFailed, Park, GivenUp
    <3> QED
      BY <2>10, <3>2, <3>4 DEF MarkPublished, MarkFailed, Park, GivenUp,
         TypeInv, TypeOK
  <2>11. ASSUME NEW w \in Workers, Crash(w) PROVE TypeInv'
    BY <2>11 DEF Crash, TypeInv, TypeOK, PollerShape, Busy, Abandon, Goto,
       Label, Fault, table
  <2>12. ASSUME NEW w \in Workers, Restart(w) PROVE TypeInv'
    BY <2>12 DEF Restart, TypeInv, TypeOK, PollerShape, Busy, Goto, Label, table
  <2>13. ASSUME NEW a \in Admins, ResetForRetry(a) PROVE TypeInv'
    <3>1. Updated(replaying[a], NewRow) \in [Events -> Row]
      BY <2>0, NewRowType, UpdatedType
    <3> QED
      BY <2>13, <3>1 DEF ResetForRetry, TypeInv, TypeOK, PollerShape, poller
  <2>14. ASSUME NEW a \in Admins, NEW e \in Events, FindDeadLettered(a, e)
         PROVE TypeInv'
    BY <2>14 DEF FindDeadLettered, TypeInv, TypeOK, PollerShape, table, poller
  <2>15. ASSUME CleanupPublished \/ CleanupDeadLetters PROVE TypeInv'
    <3>1. \E S \in SUBSET Events : row' = Deleted(S)
      BY <2>15 DEF CleanupPublished, CleanupDeadLetters
    <3>2. row' \in [Events -> Row]
      BY <2>0, <3>1, DeletedType
    <3> QED
      BY <2>15, <3>2 DEF CleanupPublished, CleanupDeadLetters, TypeInv,
         TypeOK, PollerShape, poller
  <2>16. CASE UNCHANGED vars
    BY <2>16 DEF vars, TypeInv, TypeOK, PollerShape
  <2> QED
    BY <2>1, <2>2, <2>3, <2>4, <2>5, <2>6, <2>7, <2>8, <2>9, <2>10, <2>11,
       <2>12, <2>13, <2>14, <2>15, <2>16 DEF Next, PollerStep
<1> QED
  BY <1>1, <1>2, PTL DEF Spec

\* Spec keeps every variable in its domain.
THEOREM TypeCorrect == Spec => []TypeOK
BY TypeInvariant, PTL DEF TypeInv

-----------------------------------------------------------------------------
(* A published row was delivered: whatever the faults and administrators do *)

DeliveredInv ==
    /\ PublishedIsDelivered
    /\ \A w \in Workers : pc[w] = "mark" => cur[w] \in delivered

\* A row becomes "published" only by MarkPublished, after Publish succeeded.
LEMMA DeliveredInvStep ==
    ASSUME TypeInv, DeliveredInv, [Next]_vars
    PROVE DeliveredInv'
<1> USE DEF TypeInv, TypeOK
<1>0. row \in [Events -> Row]
  OBVIOUS
<1>1. ASSUME row' = row, delivered \subseteq delivered',
             \A w \in Workers : pc'[w] = "mark" => cur'[w] \in delivered'
      PROVE DeliveredInv'
  BY <1>1 DEF DeliveredInv, PublishedIsDelivered
<1>2. ASSUME \A e \in Events : row'[e].status = "published" => row[e].status = "published",
             delivered' = delivered,
             \A w \in Workers : pc'[w] = "mark" => pc[w] = "mark" /\ cur'[w] = cur[w]
      PROVE DeliveredInv'
  BY <1>2 DEF DeliveredInv, PublishedIsDelivered
<1>3. ASSUME NEW e \in Events, Insert(e) \/ Elapse(e) \/ DeleteDeadLettered(e)
      PROVE DeliveredInv'
  <2>1. \A f \in Events : row'[f].status = "published" => row[f].status = "published"
    <3>1. CASE Elapse(e)
      BY <1>0, <3>1, ElapsedColumns
    <3>2. CASE Insert(e)
      BY <1>0, <3>2 DEF Insert, NewRow
    <3>3. CASE DeleteDeadLettered(e)
      BY <1>0, <3>3 DEF DeleteDeadLettered, NoRow, NewRow, Deleted
    <3> QED
      BY <1>3, <3>1, <3>2, <3>3
  <2> QED
    BY <1>2, <1>3, <2>1 DEF Insert, Elapse, DeleteDeadLettered, poller
<1>4. ASSUME CleanupPublished \/ CleanupDeadLetters PROVE DeliveredInv'
  <2>1. \A f \in Events : row'[f].status = "published" => row[f].status = "published"
    BY <1>4, ZenonT(30) DEF CleanupPublished, CleanupDeadLetters, Deleted,
       NoRow, NewRow
  <2> QED
    BY <1>2, <1>4, <2>1 DEF CleanupPublished, CleanupDeadLetters, poller
<1>5. ASSUME NEW a \in Admins, ResetForRetry(a) PROVE DeliveredInv'
  <2>1. \A f \in Events : row'[f].status = "published" => row[f].status = "published"
    BY <1>0, <1>5 DEF ResetForRetry, Updated, NewRow
  <2> QED
    BY <1>2, <1>5, <2>1 DEF ResetForRetry, poller
<1>6. ASSUME NEW a \in Admins, NEW e \in Events, FindDeadLettered(a, e)
      PROVE DeliveredInv'
  BY <1>2, <1>6 DEF FindDeadLettered, table, poller
<1>7. ASSUME NEW w \in Workers, Start(w) \/ PickEvent(w) \/ EndBatch(w) \/ Crash(w) \/ Restart(w)
      PROVE DeliveredInv'
  <2>1. row' = row /\ delivered' = delivered
    BY <1>7 DEF Start, PickEvent, EndBatch, Crash, Restart, table
  <2>2. \A v \in Workers : pc'[v] = "mark" => pc[v] = "mark" /\ cur'[v] = cur[v]
    BY <1>7 DEF Start, PickEvent, EndBatch, Crash, Restart, Goto, Abandon,
       FirstStep
  <2> QED
    BY <1>2, <2>1, <2>2
<1>8. ASSUME NEW w \in Workers, ClaimPending(w) PROVE DeliveredInv'
  <2>1. PICK reply \in Reply : Executed(Claimed(Oldest(Pending, BatchSize), w), reply)
    BY <1>8 DEF ClaimPending
  <2>2. \A f \in Events : row'[f].status = "published" => row[f].status = "published"
    <3>1. row' = row \/ row' = Claimed(Oldest(Pending, BatchSize), w)
      BY <2>1 DEF Executed
    <3> QED
      BY <1>0, <3>1, ClaimedColumns
  <2>3. \A v \in Workers : pc'[v] = "mark" => pc[v] = "mark" /\ cur'[v] = cur[v]
    BY <1>8 DEF ClaimPending, Goto
  <2> QED
    BY <1>2, <1>8, <2>2, <2>3 DEF ClaimPending
<1>9. ASSUME NEW w \in Workers, ClaimRetryable(w) PROVE DeliveredInv'
  <2>1. PICK reply \in Reply, batch \in AnyOf(Retryable, BatchSize) :
           Executed(Claimed(batch, w), reply)
    BY <1>9 DEF ClaimRetryable
  <2>2. \A f \in Events : row'[f].status = "published" => row[f].status = "published"
    <3>1. row' = row \/ row' = Claimed(batch, w)
      BY <2>1 DEF Executed
    <3> QED
      BY <1>0, <3>1, ClaimedColumns
  <2>3. \A v \in Workers : pc'[v] = "mark" => pc[v] = "mark" /\ cur'[v] = cur[v]
    BY <1>9 DEF ClaimRetryable, Goto, Abandon
  <2> QED
    BY <1>2, <1>9, <2>2, <2>3 DEF ClaimRetryable
<1>10. ASSUME NEW w \in Workers, Publish(w) PROVE DeliveredInv'
  BY <1>1, <1>10 DEF Publish, Goto, DeliveredInv
<1>11. ASSUME NEW w \in Workers, MarkPublished(w) PROVE DeliveredInv'
  <2>1. PICK reply \in Reply : Executed(MarkedPublished(cur[w]), reply)
    BY <1>11 DEF MarkPublished
  <2>2. \A f \in Events : row'[f].status = "published" => row[f].status = "published" \/ f = cur[w]
    <3>0. cur[w] \in Events
      BY <1>11 DEF MarkPublished, PollerShape, Busy
    <3>1. row' = row \/ row' = MarkedPublished(cur[w])
      BY <2>1 DEF Executed
    <3> QED
      BY <1>0, <3>0, <3>1, MarkedPublishedColumns
  <2>3. cur[w] \in delivered /\ delivered' = delivered
    BY <1>11 DEF MarkPublished, DeliveredInv
  <2>4. \A v \in Workers : pc'[v] = "mark" => pc[v] = "mark" /\ cur'[v] = cur[v]
    BY <1>11 DEF MarkPublished, Goto, EndEvent
  <2> QED
    BY <2>2, <2>3, <2>4 DEF DeliveredInv, PublishedIsDelivered
<1>12. ASSUME NEW w \in Workers, MarkFailed(w) \/ Park(w) PROVE DeliveredInv'
  <2>1. PICK reply \in Reply :
           \/ Executed(MarkedFailed(cur[w], "backoff"), reply)
           \/ Executed(MarkedFailed(cur[w], "year"), reply)
           \/ Executed(MarkedDeadLettered(cur[w]), reply)
    BY <1>12 DEF MarkFailed, Park, GivenUp
  <2>2. \A f \in Events : row'[f].status = "published" => row[f].status = "published"
    <3>0. cur[w] \in Events
      BY <1>12 DEF MarkFailed, Park, GivenUp, PollerShape, Busy
    <3>1. \/ row' = row \/ row' = MarkedFailed(cur[w], "backoff")
          \/ row' = MarkedFailed(cur[w], "year") \/ row' = MarkedDeadLettered(cur[w])
      BY <2>1 DEF Executed
    <3>2. CASE row' = MarkedDeadLettered(cur[w])
      BY <1>0, <3>0, <3>2, MarkedDeadLetteredColumns
    <3>3. CASE row' = MarkedFailed(cur[w], "backoff") \/ row' = MarkedFailed(cur[w], "year")
      BY <1>0, <3>0, <3>3, MarkedFailedColumns
    <3> QED
      BY <3>1, <3>2, <3>3
  <2>3. \A v \in Workers : pc'[v] = "mark" => pc[v] = "mark" /\ cur'[v] = cur[v]
    BY <1>12 DEF MarkFailed, Park, GivenUp, Goto, EndEvent, Abandon
  <2> QED
    BY <1>2, <1>12, <2>2, <2>3 DEF MarkFailed, Park, GivenUp
<1>13. CASE UNCHANGED vars
  BY <1>2, <1>13 DEF vars
<1> QED
  BY <1>3, <1>4, <1>5, <1>6, <1>7, <1>8, <1>9, <1>10, <1>11, <1>12, <1>13
     DEF Next, PollerStep

\* Whatever fails, a row that says "published" was delivered to Kafka.
THEOREM PublishedDelivered == Spec => []PublishedIsDelivered
<1>1. Init => DeliveredInv
  BY DEF Init, DeliveredInv, PublishedIsDelivered, NoRow, NewRow
<1>2. TypeInv /\ DeliveredInv /\ [Next]_vars => DeliveredInv'
  BY DeliveredInvStep
<1>3. DeliveredInv => PublishedIsDelivered
  BY DEF DeliveredInv
<1> QED
  BY <1>1, <1>2, <1>3, TypeInvariant, PTL DEF Spec

-----------------------------------------------------------------------------
(* Exclusive claims, when replies are not lost and at most one              *)
(* administrator replays at a time                                          *)

NoLostReplies == "lost" \notin Faults
OneReplayer == \A a, b \in Admins : a = b

\* What a poller holds is locked in its name, and nobody else's business.
OwnRows ==
    \A w \in Workers : \A e \in Held(w) :
        /\ row[e].status = "processing"
        /\ row[e].lockedBy = w
        /\ ~row[e].deadLettered
\* An event is held once by its poller.
DistinctCopies ==
    \A w \in Workers : \A c \in todo[w] :
        c.id # cur[w] /\ \A d \in todo[w] : c.id = d.id => c = d
\* No query of the pollers selects a dead-lettered row.
ParkedRows ==
    \A e \in Events :
        row[e].deadLettered => row[e].status = "failed" /\ row[e].nextRetryAt = "unset"
\* What an administrator found is still as it was found, or gone.
ReplayTargets ==
    \A a \in Admins :
        replaying[a] # None =>
            row[replaying[a]].deadLettered \/ row[replaying[a]].status = "deleted"

ClaimInv == OwnRows /\ DistinctCopies /\ ParkedRows /\ ReplayTargets

\* Two pollers never hold the same event: its row names only one of them.
LEMMA OwnRowsExclude == OwnRows => ExclusiveClaim
BY DEF OwnRows, ExclusiveClaim

\* Without lost replies a failed statement was not executed.
LEMMA ExecutedOrNot ==
    ASSUME NoLostReplies, NEW after, NEW reply, Executed(after, reply)
    PROVE IF reply = "ok" THEN row' = after ELSE row' = row
BY DEF Executed, NoLostReplies, Fault

\* A step that leaves the table alone and claims nothing more.
LEMMA ClaimInvRowsUnchanged ==
    ASSUME ClaimInv, row' = row, replaying' = replaying, DistinctCopies',
           \A w \in Workers : Held(w)' \subseteq Held(w)
    PROVE ClaimInv'
BY DEF ClaimInv, OwnRows, ParkedRows, ReplayTargets

\* A step of something else than a poller that changes no held row.
LEMMA ClaimInvPollersUnchanged ==
    ASSUME ClaimInv, UNCHANGED poller, ParkedRows', ReplayTargets',
           \A w \in Workers : \A e \in Held(w) :
               /\ row'[e].status = row[e].status
               /\ row'[e].lockedBy = row[e].lockedBy
               /\ row'[e].deadLettered = row[e].deadLettered
    PROVE ClaimInv'
<1>1. \A w \in Workers : Held(w)' = Held(w)
  BY DEF Held, poller
<1>2. DistinctCopies'
  BY DEF ClaimInv, DistinctCopies, poller
<1>3. OwnRows'
  BY <1>1 DEF ClaimInv, OwnRows
<1> QED
  BY <1>2, <1>3 DEF ClaimInv

\* A poller claims rows that are pending or due.
LEMMA ClaimInvClaim ==
    ASSUME TypeInv, ClaimInv, NEW w \in Workers, NEW batch \in SUBSET Events,
           NEW b \in BOOLEAN,
           \A e \in batch : \/ row[e].status = "pending"
                            \/ (row[e].status = "failed" /\ row[e].nextRetryAt = "due"),
           row' = Claimed(batch, w),
           todo' = [todo EXCEPT ![w] = todo[w] \cup CopiesOf(batch, b)],
           cur[w] = None, UNCHANGED <<cur, replaying>>
    PROVE ClaimInv'
<1>0. row \in [Events -> Row] /\ todo \in [Workers -> SUBSET Copy]
  BY DEF TypeInv, TypeOK
<1>1. \A e \in batch : ~row[e].deadLettered
  BY DEF ClaimInv, ParkedRows
<1>2. \A v \in Workers : Held(v) \cap batch = {}
  BY DEF ClaimInv, OwnRows
<1>3. Held(w)' = Held(w) \cup batch /\ \A v \in Workers \ {w} : Held(v)' = Held(v)
  <2>1. {c.id : c \in CopiesOf(batch, b)} = batch
    <3>1. \A c \in CopiesOf(batch, b) : c.id \in batch
      BY DEF CopiesOf
    <3>2. ASSUME NEW e \in batch PROVE \E c \in CopiesOf(batch, b) : c.id = e
      <4> DEFINE c == [id |-> e, retryCount |-> row[e].retryCount, fresh |-> b]
      <4>1. c \in CopiesOf(batch, b)
        BY DEF CopiesOf
      <4> QED
        BY <4>1
    <3> QED
      BY <3>1, <3>2
  <2>2. todo'[w] = todo[w] \cup CopiesOf(batch, b) /\ cur' = cur
    BY <1>0
  <2>3. {c.id : c \in todo'[w]} = {c.id : c \in todo[w]} \cup batch
    BY <2>1, <2>2
  <2>4. Held(w)' = Held(w) \cup batch
    BY <2>2, <2>3 DEF Held
  <2>5. \A v \in Workers \ {w} : Held(v)' = Held(v)
    BY <1>0 DEF Held
  <2> QED
    BY <2>4, <2>5
<1>4. \A e \in Events : e \in batch \/ row'[e] = row[e]
  BY <1>0, ClaimedColumns
<1>5. OwnRows'
  <2> SUFFICES ASSUME NEW v \in Workers, NEW e \in Held(v)'
               PROVE row'[e].status = "processing" /\ row'[e].lockedBy = v /\ ~row'[e].deadLettered
    BY DEF OwnRows
  <2>1. CASE e \in batch
    <3>1. v = w
      BY <1>2, <1>3, <2>1
    <3> QED
      BY <1>0, <1>1, <2>1, <3>1, ClaimedColumns
  <2>2. CASE e \notin batch
    <3>1. e \in Held(v) /\ e \in Events
      BY <1>3, <2>2, <1>0 DEF Held, Copy, TypeInv, TypeOK
    <3> QED
      BY <1>4, <2>2, <3>1 DEF ClaimInv, OwnRows
  <2> QED
    BY <2>1, <2>2
<1>6. DistinctCopies'
  <2>1. \A c \in CopiesOf(batch, b) : c.id \in batch
    BY DEF CopiesOf
  <2>2. \A c \in todo[w] : c.id \notin batch
    BY <1>2 DEF Held
  <2>3. \A c, d \in CopiesOf(batch, b) : c.id = d.id => c = d
    BY DEF CopiesOf
  <2>4. \A v \in Workers \ {w} : todo'[v] = todo[v]
    BY <1>0
  <2>5. todo'[w] = todo[w] \cup CopiesOf(batch, b)
    BY <1>0
  <2>6. None \notin batch
    BY OutboxAssumption
  <2> QED
    BY <2>1, <2>2, <2>3, <2>4, <2>5, <2>6 DEF ClaimInv, DistinctCopies
<1>7. ParkedRows'
  BY <1>0, <1>1, <1>4, ClaimedColumns DEF ClaimInv, ParkedRows
<1>8. ReplayTargets'
  <2>1. \A a \in Admins : replaying[a] # None => replaying[a] \in Events /\ replaying[a] \notin batch
    BY <1>1 DEF ClaimInv, ReplayTargets, TypeInv, TypeOK
  <2> QED
    BY <1>4, <2>1 DEF ClaimInv, ReplayTargets
<1> QED
  BY <1>5, <1>6, <1>7, <1>8 DEF ClaimInv

\* A poller writes the row of its current event and ends it.
LEMMA ClaimInvFinish ==
    ASSUME TypeInv, ClaimInv, NEW w \in Workers, cur[w] \in Events,
           cur' = [cur EXCEPT ![w] = None], todo' = todo, replaying' = replaying,
           \A e \in Events \ {cur[w]} : row'[e] = row[e],
           row'[cur[w]].deadLettered =>
               row'[cur[w]].status = "failed" /\ row'[cur[w]].nextRetryAt = "unset"
    PROVE ClaimInv'
<1>0. cur \in [Workers -> Events \cup {None}] /\ todo \in [Workers -> SUBSET Copy]
  BY DEF TypeInv, TypeOK
<1>1. \A v \in Workers : Held(v)' \subseteq Held(v) /\ cur[w] \notin Held(v)'
  <2> SUFFICES ASSUME NEW v \in Workers
               PROVE Held(v)' \subseteq Held(v) /\ cur[w] \notin Held(v)'
    OBVIOUS
  <2>1. Held(v)' \subseteq Held(v)
    BY <1>0 DEF Held
  <2>2. CASE v = w
    BY <1>0, <2>2 DEF Held, ClaimInv, DistinctCopies
  <2>3. CASE v # w
    <3>1. cur[w] \notin Held(v)
      <4>1. cur[w] \in Held(w)
        BY OutboxAssumption DEF Held
      <4> QED
        BY <2>3, <4>1, OwnRowsExclude DEF ClaimInv, ExclusiveClaim
    <3> QED
      BY <2>1, <3>1
  <2> QED
    BY <2>1, <2>2, <2>3
<1>2. OwnRows'
  <2>1. \A v \in Workers : Held(v) \subseteq Events
    BY <1>0 DEF Held, Copy
  <2> QED
    BY <1>1, <2>1 DEF ClaimInv, OwnRows
<1>3. DistinctCopies'
  <2>1. \A v \in Workers : \A c \in todo[v] : c.id # None
    BY <1>0, OutboxAssumption DEF Copy
  <2> QED
    BY <1>0, <2>1 DEF ClaimInv, DistinctCopies
<1>4. ParkedRows'
  BY DEF ClaimInv, ParkedRows
<1>5. ReplayTargets'
  <2>1. cur[w] \in Held(w)
    BY OutboxAssumption DEF Held
  <2>2. row[cur[w]].status = "processing" /\ ~row[cur[w]].deadLettered
    BY <2>1 DEF ClaimInv, OwnRows
  <2>3. \A a \in Admins : replaying[a] # None => replaying[a] \in Events \ {cur[w]}
    BY <2>2 DEF ClaimInv, ReplayTargets, TypeInv, TypeOK
  <2> QED
    BY <2>3 DEF ClaimInv, ReplayTargets
<1> QED
  BY <1>2, <1>3, <1>4, <1>5 DEF ClaimInv

\* Every step preserves ClaimInv.
LEMMA ClaimInvStep ==
    ASSUME NoLostReplies, OneReplayer, TypeInv, ClaimInv, [Next]_vars
    PROVE ClaimInv'
<1>0. /\ row \in [Events -> Row] /\ todo \in [Workers -> SUBSET Copy]
      /\ pc \in [Workers -> Label] /\ cur \in [Workers -> Events \cup {None}]
      /\ replaying \in [Admins -> Events \cup {None}]
  BY DEF TypeInv, TypeOK
<1>a. \A w \in Workers : \A e \in Held(w) : e \in Events /\ row[e].status = "processing"
  BY <1>0 DEF ClaimInv, OwnRows, Held, Copy
<1>1. ASSUME NEW e \in Events, Insert(e) PROVE ClaimInv'
  <2>1. row[e].status = "none" /\ row' = [row EXCEPT ![e] = NewRow]
        /\ UNCHANGED <<poller, replaying>>
    BY <1>1 DEF Insert
  <2>2. \A w \in Workers : e \notin Held(w)
    BY <1>a, <2>1
  <2>3. ParkedRows'
    BY <1>0, <2>1 DEF ClaimInv, ParkedRows, NewRow
  <2>4. \A a \in Admins : replaying[a] # None => replaying[a] \in Events \ {e}
    BY <1>0, <2>1 DEF ClaimInv, ReplayTargets, ParkedRows
  <2>5. ReplayTargets'
    BY <1>0, <2>1, <2>4 DEF ClaimInv, ReplayTargets
  <2> QED
    BY <1>0, <1>a, <2>1, <2>2, <2>3, <2>5, ClaimInvPollersUnchanged
<1>2. ASSUME NEW e \in Events, Elapse(e) PROVE ClaimInv'
  <2>1. ~row[e].deadLettered
    BY <1>2 DEF Elapse, ClaimInv, ParkedRows
  <2>2. \A f \in Events : /\ row'[f].status = row[f].status
                         /\ row'[f].lockedBy = row[f].lockedBy
                         /\ row'[f].deadLettered = row[f].deadLettered
                         /\ f # e => row'[f] = row[f]
    BY <1>0, <1>2, ElapsedColumns
  <2>3. ParkedRows' /\ ReplayTargets'
    BY <1>0, <1>2, <2>1, <2>2 DEF Elapse, ClaimInv, ParkedRows, ReplayTargets
  <2> QED
    BY <1>2, <1>a, <2>2, <2>3, ClaimInvPollersUnchanged DEF Elapse
<1>3. ASSUME NEW S \in SUBSET Events, row' = Deleted(S), UNCHANGED <<poller, replaying>>,
             \A e \in S : row[e].status # "processing"
      PROVE ClaimInv'
  <2>1. \A f \in Events : IF f \in S THEN row'[f].status = "deleted" /\ ~row'[f].deadLettered
                                     ELSE row'[f] = row[f]
    BY <1>3 DEF Deleted, NoRow, NewRow
  <2>2. ParkedRows' /\ ReplayTargets'
    BY <1>0, <1>3, <2>1 DEF ClaimInv, ParkedRows, ReplayTargets
  <2> QED
    BY <1>3, <1>a, <2>1, <2>2, ClaimInvPollersUnchanged
<1>4. ASSUME NEW e \in Events, DeleteDeadLettered(e) PROVE ClaimInv'
  <2>1. row[e].status # "processing"
    BY <1>4 DEF DeleteDeadLettered, ClaimInv, ParkedRows
  <2> QED
    BY <1>3, <1>4, <2>1 DEF DeleteDeadLettered
<1>5. ASSUME CleanupPublished PROVE ClaimInv'
  BY <1>3, <1>5 DEF CleanupPublished
<1>6. ASSUME CleanupDeadLetters PROVE ClaimInv'
  <2>1. PICK S \in SUBSET {e \in Events : row[e].deadLettered} : row' = Deleted(S)
    BY <1>6 DEF CleanupDeadLetters
  <2>2. \A e \in S : row[e].status # "processing"
    BY <2>1 DEF ClaimInv, ParkedRows
  <2> QED
    BY <1>3, <1>6, <2>1, <2>2 DEF CleanupDeadLetters
<1>7. ASSUME NEW a \in Admins, NEW e \in Events, FindDeadLettered(a, e) PROVE ClaimInv'
  <2>1. row' = row /\ UNCHANGED poller /\ replaying' = [replaying EXCEPT ![a] = e]
    BY <1>7 DEF FindDeadLettered, table
  <2>2. ReplayTargets'
    BY <1>0, <1>7, <2>1 DEF FindDeadLettered, ClaimInv, ReplayTargets
  <2>3. ParkedRows'
    BY <2>1 DEF ClaimInv, ParkedRows
  <2> QED
    BY <2>1, <2>2, <2>3, ClaimInvPollersUnchanged
<1>8. ASSUME NEW a \in Admins, ResetForRetry(a) PROVE ClaimInv'
  <2> DEFINE e == replaying[a]
  <2>1. /\ e \in Events
        /\ row[e].deadLettered \/ row[e].status = "deleted"
        /\ row' = Updated(e, NewRow) /\ UNCHANGED poller
        /\ replaying' = [replaying EXCEPT ![a] = None]
    BY <1>0, <1>8 DEF ResetForRetry, ClaimInv, ReplayTargets
  <2>2. \A w \in Workers : e \notin Held(w)
    BY <1>a, <2>1 DEF ClaimInv, ParkedRows
  <2>3. \A f \in Events : f # e => row'[f] = row[f]
    BY <1>0, <2>1 DEF Updated
  <2>4. row'[e] = NewRow \/ row'[e] = row[e]
    BY <1>0, <1>8, <2>1 DEF Updated, ResetForRetry
  <2>5. ParkedRows'
    BY <2>3, <2>4 DEF ClaimInv, ParkedRows, NewRow
  <2>6. ReplayTargets'
    BY <1>0, <2>1 DEF ReplayTargets, OneReplayer
  <2> QED
    BY <1>a, <2>1, <2>2, <2>3, <2>5, <2>6, ClaimInvPollersUnchanged
<1>9. ASSUME NEW w \in Workers, Start(w) \/ EndBatch(w) \/ Crash(w) \/ Restart(w) \/ Publish(w)
      PROVE ClaimInv'
  <2>1. row' = row /\ replaying' = replaying
    BY <1>9 DEF Start, EndBatch, Crash, Restart, Publish, table
  <2>2. UNCHANGED <<todo, cur>> \/ Abandon(w, "off")
    BY <1>9 DEF Start, EndBatch, Crash, Restart, Publish
  <2>3. \A v \in Workers : Held(v)' \subseteq Held(v)
    BY <1>0, <2>2 DEF Held, Abandon
  <2>4. DistinctCopies'
    BY <1>0, <2>2 DEF Abandon, ClaimInv, DistinctCopies
  <2> QED
    BY <2>1, <2>3, <2>4, ClaimInvRowsUnchanged
<1>10. ASSUME NEW w \in Workers, PickEvent(w) PROVE ClaimInv'
  <2>1. PICK c \in todo[w] :
           /\ todo' = [todo EXCEPT ![w] = @ \ {c}]
           /\ cur' = [cur EXCEPT ![w] = c.id]
    BY <1>10 DEF PickEvent
  <2>2. row' = row /\ replaying' = replaying
    BY <1>10 DEF PickEvent, table
  <2>3. \A v \in Workers : Held(v)' \subseteq Held(v)
    BY <1>0, <2>1 DEF Held
  <2>4. DistinctCopies'
    BY <1>0, <2>1 DEF ClaimInv, DistinctCopies
  <2> QED
    BY <2>2, <2>3, <2>4, ClaimInvRowsUnchanged
<1>11. ASSUME NEW w \in Workers, ClaimPending(w) PROVE ClaimInv'
  <2> DEFINE batch == Oldest(Pending, BatchSize)
  <2>1. PICK reply \in Reply :
           /\ Executed(Claimed(batch, w), reply)
           /\ IF reply = "ok"
              THEN /\ todo' = [todo EXCEPT ![w] = CopiesOf(batch, TRUE)]
                   /\ Goto(w, "claimed")
              ELSE UNCHANGED <<todo, pc>>
    BY <1>11 DEF ClaimPending
  <2>2. /\ batch \in SUBSET Events /\ \A e \in batch : row[e].status = "pending"
        /\ todo[w] = {} /\ cur[w] = None /\ UNCHANGED <<cur, replaying>>
    BY <1>11 DEF ClaimPending, Oldest, Pending, TypeInv, PollerShape, Busy
  <2> HIDE DEF batch
  <2>3. CASE reply = "ok"
    <3>1. row' = Claimed(batch, w)
      BY <2>1, <2>3, ExecutedOrNot
    <3>2. todo' = [todo EXCEPT ![w] = todo[w] \cup CopiesOf(batch, TRUE)]
      BY <2>1, <2>2, <2>3
    <3> QED
      BY <2>2, <3>1, <3>2, ClaimInvClaim
  <2>4. CASE reply # "ok"
    <3>1. row' = row /\ UNCHANGED <<todo, cur>>
      BY <2>1, <2>2, <2>4, ExecutedOrNot
    <3> QED
      BY <2>2, <3>1, ClaimInvRowsUnchanged DEF Held, ClaimInv, DistinctCopies
  <2> QED
    BY <2>3, <2>4
<1>12. ASSUME NEW w \in Workers, ClaimRetryable(w) PROVE ClaimInv'
  <2>1. PICK reply \in Reply, batch \in AnyOf(Retryable, BatchSize) :
           /\ Executed(Claimed(batch, w), reply)
           /\ IF reply = "ok"
              THEN /\ todo' = [todo EXCEPT ![w] = @ \cup CopiesOf(batch, FALSE)]
                   /\ Goto(w, "loop")
                   /\ UNCHANGED cur
              ELSE Abandon(w, "idle")
    BY <1>12 DEF ClaimRetryable
  <2>2. /\ batch \in SUBSET Events
        /\ \A e \in batch : row[e].status = "failed" /\ row[e].nextRetryAt = "due"
        /\ cur[w] = None /\ UNCHANGED replaying
    BY <1>12, <2>1 DEF ClaimRetryable, AnyOf, Retryable, TypeInv, PollerShape,
       Busy
  <2>3. CASE reply = "ok"
    <3>1. row' = Claimed(batch, w) /\ UNCHANGED cur
      BY <2>1, <2>3, ExecutedOrNot
    <3>2. todo' = [todo EXCEPT ![w] = todo[w] \cup CopiesOf(batch, FALSE)]
      BY <2>1, <2>3
    <3> QED
      BY <2>2, <3>1, <3>2, ClaimInvClaim
  <2>4. CASE reply # "ok"
    <3>1. row' = row /\ Abandon(w, "idle")
      BY <2>1, <2>4, ExecutedOrNot
    <3>2. \A v \in Workers : Held(v)' \subseteq Held(v)
      BY <1>0, <3>1 DEF Held, Abandon
    <3>3. DistinctCopies'
      BY <1>0, <3>1 DEF Abandon, ClaimInv, DistinctCopies
    <3> QED
      BY <2>2, <3>1, <3>2, <3>3, ClaimInvRowsUnchanged
  <2> QED
    BY <2>3, <2>4
<1>13. ASSUME NEW w \in Workers, MarkPublished(w) \/ MarkFailed(w) \/ Park(w)
       PROVE ClaimInv'
  <2> DEFINE e == cur[w]
             after == IF pc[w] = "mark" THEN MarkedPublished(e)
                      ELSE IF pc[w] = "failing" THEN MarkedFailed(e, "backoff")
                      ELSE IF DeadLetterWired THEN MarkedDeadLettered(e)
                      ELSE MarkedFailed(e, "year")
  <2>1. PICK reply \in Reply :
           /\ Executed(after, reply)
           /\ IF reply = "ok" THEN EndEvent(w)
              ELSE \/ Goto(w, "failing") /\ UNCHANGED <<todo, cur>>
                   \/ Abandon(w, "idle")
    BY <1>13 DEF MarkPublished, MarkFailed, Park, GivenUp
  <2>2. e \in Events /\ replaying' = replaying
    BY <1>13 DEF MarkPublished, MarkFailed, Park, GivenUp, TypeInv,
       PollerShape, Busy
  <2>3. row[e].status = "processing" /\ ~row[e].deadLettered
    BY <2>2, OutboxAssumption DEF Held, ClaimInv, OwnRows
  <2>4. /\ \A f \in Events \ {e} : after[f] = row[f]
        /\ after[e].deadLettered =>
              after[e].status = "failed" /\ after[e].nextRetryAt = "unset"
    <3>1. CASE after = MarkedPublished(e)
      BY <1>0, <2>2, <2>3, <3>1, MarkedPublishedColumns DEF Exists
    <3>2. CASE after = MarkedFailed(e, "backoff") \/ after = MarkedFailed(e, "year")
      BY <1>0, <2>2, <2>3, <3>2, MarkedFailedColumns DEF Exists
    <3>3. CASE after = MarkedDeadLettered(e)
      BY <1>0, <2>2, <2>3, <3>3, MarkedDeadLetteredColumns DEF Exists
    <3> QED
      BY <3>1, <3>2, <3>3
  <2> HIDE DEF after
  <2>5. CASE reply = "ok"
    <3>1. row' = after /\ cur' = [cur EXCEPT ![w] = None] /\ todo' = todo
      BY <2>1, <2>5, ExecutedOrNot DEF EndEvent
    <3> QED
      BY <2>2, <2>4, <3>1, ClaimInvFinish
  <2>6. CASE reply # "ok"
    <3>1. row' = row /\ (UNCHANGED <<todo, cur>> \/ Abandon(w, "idle"))
      BY <2>1, <2>6, ExecutedOrNot
    <3>2. \A v \in Workers : Held(v)' \subseteq Held(v)
      BY <1>0, <3>1 DEF Held, Abandon
    <3>3. DistinctCopies'
      BY <1>0, <3>1 DEF Abandon, ClaimInv, DistinctCopies
    <3> QED
      BY <2>2, <3>1, <3>2, <3>3, ClaimInvRowsUnchanged
  <2> QED
    BY <2>5, <2>6
<1>14. CASE UNCHANGED vars
  BY <1>14 DEF vars, ClaimInv, OwnRows, DistinctCopies, ParkedRows,
     ReplayTargets, Held
<1> QED
  BY <1>1, <1>2, <1>4, <1>5, <1>6, <1>7, <1>8, <1>9, <1>10, <1>11, <1>12, <1>13,
     <1>14 DEF Next, PollerStep

\* When no reply to a statement is lost and at most one administrator replays
\* at a time, two pollers never work on one event.
THEOREM ClaimsAreExclusive ==
    ASSUME NoLostReplies, OneReplayer
    PROVE Spec => []ExclusiveClaim
<1>1. Init => ClaimInv
  BY DEF Init, ClaimInv, OwnRows, DistinctCopies, ParkedRows, ReplayTargets,
     Held, NoRow, NewRow
<1>2. TypeInv /\ ClaimInv /\ [Next]_vars => ClaimInv'
  BY ClaimInvStep
<1>3. ClaimInv => ExclusiveClaim
  BY OwnRowsExclude DEF ClaimInv
<1> QED
  BY <1>1, <1>2, <1>3, TypeInvariant, PTL DEF Spec

-----------------------------------------------------------------------------
(* What one step may do to a row, and with it the action properties and the
   refinement of EventDelivery; and how the publishes of an event follow its
   retry count, with the retry budget. *)

\* All that is known of a state, when replies are not lost and at most one
\* administrator replays at a time.
OutboxInv == TypeInv /\ DeliveredInv /\ ClaimInv

LEMMA OutboxInvariant ==
    ASSUME NoLostReplies, OneReplayer
    PROVE Spec => []OutboxInv
<1>1. Init => DeliveredInv
  BY DEF Init, DeliveredInv, PublishedIsDelivered, NoRow, NewRow
<1>2. Init => ClaimInv
  BY DEF Init, ClaimInv, OwnRows, DistinctCopies, ParkedRows, ReplayTargets,
     Held, NoRow, NewRow
<1>3. TypeInv /\ DeliveredInv /\ [Next]_vars => DeliveredInv'
  BY DeliveredInvStep
<1>4. TypeInv /\ ClaimInv /\ [Next]_vars => ClaimInv'
  BY ClaimInvStep
<1> QED
  BY <1>1, <1>2, <1>3, <1>4, TypeInvariant, PTL DEF Spec, OutboxInv

-----------------------------------------------------------------------------
(* What a step does to the row of one event *)

Stays(e) == row'[e] = row[e]
Appears(e) == row[e].status = "none" /\ row'[e] = NewRow
Waits(e) ==
    /\ row[e].nextRetryAt \in {"backoff", "year"}
    /\ row'[e].nextRetryAt = "due"
    /\ row'[e].status = row[e].status
    /\ row'[e].deadLettered = row[e].deadLettered
IsClaimed(e) ==
    /\ \/ row[e].status = "pending"
       \/ row[e].status = "failed" /\ row[e].nextRetryAt = "due"
    /\ row'[e].status = "processing"
    /\ row'[e].nextRetryAt = row[e].nextRetryAt
    /\ row'[e].deadLettered = row[e].deadLettered
\* The end of processEvent: the row of a poller's current event is written.
IsMarked(e) ==
    /\ row[e].status = "processing"
    /\ \/ /\ row'[e].status = "published"
          /\ row'[e].nextRetryAt = row[e].nextRetryAt
          /\ ~row'[e].deadLettered
          /\ e \in delivered
       \/ row'[e].status = "failed"
IsReset(e) == row[e].deadLettered /\ row'[e] = NewRow
IsDeleted(e) ==
    /\ row[e].status = "published" \/ row[e].deadLettered
    /\ row'[e] = [NoRow EXCEPT !.status = "deleted"]

RowStep(e) ==
    \/ Stays(e) \/ Appears(e) \/ Waits(e) \/ IsClaimed(e)
    \/ IsMarked(e) \/ IsReset(e) \/ IsDeleted(e)

\* The columns of the rows that are written whole.
LEMMA WholeRows ==
    /\ NewRow.status = "pending" /\ NewRow.nextRetryAt = "unset" /\ ~NewRow.deadLettered
    /\ [NoRow EXCEPT !.status = "deleted"].status = "deleted"
    /\ ~[NoRow EXCEPT !.status = "deleted"].deadLettered
<1>1. NewRow.status = "pending" /\ NewRow.nextRetryAt = "unset" /\ ~NewRow.deadLettered
  BY DEF NewRow
<1>2. NoRow \in Row /\ ~NoRow.deadLettered
  BY NewRowType DEF NoRow, NewRow
<1>3. /\ [NoRow EXCEPT !.status = "deleted"].status = "deleted"
      /\ [NoRow EXCEPT !.status = "deleted"].deadLettered = NoRow.deadLettered
  BY <1>2 DEF Row
<1> QED
  BY <1>1, <1>2, <1>3

-----------------------------------------------------------------------------

\* Every step does one of these things to each row.
LEMMA RowSteps ==
    ASSUME NoLostReplies, OutboxInv, [Next]_vars, NEW f \in Events
    PROVE RowStep(f)
<1>0. /\ TypeInv /\ ClaimInv /\ row \in [Events -> Row]
      /\ pc \in [Workers -> Label] /\ cur \in [Workers -> Events \cup {None}]
      /\ replaying \in [Admins -> Events \cup {None}]
  BY DEF OutboxInv, TypeInv, TypeOK
<1>1. ASSUME row' = row PROVE RowStep(f)
  BY <1>1 DEF RowStep, Stays
<1>2. ASSUME NEW e \in Events, Insert(e) PROVE RowStep(f)
  BY <1>0, <1>2 DEF Insert, RowStep, Stays, Appears
<1>3. ASSUME NEW e \in Events, Elapse(e) PROVE RowStep(f)
  <2>1. CASE f = e
    <3>1. row[f].nextRetryAt \in {"backoff", "year"}
      BY <1>3, <2>1 DEF Elapse
    <3>2. Waits(f)
      BY <1>0, <1>3, <2>1, <3>1, ElapsedColumns DEF Waits
    <3> QED
      BY <3>2 DEF RowStep
  <2>2. CASE f # e
    BY <1>0, <1>3, <2>2, ElapsedColumns DEF RowStep, Stays
  <2> QED
    BY <2>1, <2>2
<1>4. ASSUME NEW S \in SUBSET Events, row' = Deleted(S),
             \A e \in S : row[e].status = "published" \/ row[e].deadLettered
      PROVE RowStep(f)
  BY <1>4 DEF Deleted, RowStep, Stays, IsDeleted
<1>5. ASSUME NEW e \in Events, DeleteDeadLettered(e) PROVE RowStep(f)
  BY <1>4, <1>5 DEF DeleteDeadLettered
<1>6. ASSUME CleanupPublished PROVE RowStep(f)
  BY <1>4, <1>6 DEF CleanupPublished
<1>7. ASSUME CleanupDeadLetters PROVE RowStep(f)
  BY <1>4, <1>7 DEF CleanupDeadLetters
<1>8. ASSUME NEW a \in Admins, ResetForRetry(a) PROVE RowStep(f)
  <2>1. /\ row' = Updated(replaying[a], NewRow)
        /\ row[replaying[a]].deadLettered \/ row[replaying[a]].status = "deleted"
    BY <1>0, <1>8 DEF ResetForRetry, ClaimInv, ReplayTargets
  <2>2. CASE f = replaying[a] /\ Exists(f)
    <3>1. row'[f] = NewRow /\ row[f].deadLettered
      BY <1>0, <2>1, <2>2 DEF Updated, Exists
    <3> QED
      BY <3>1 DEF RowStep, IsReset
  <2>3. CASE ~(f = replaying[a] /\ Exists(f))
    BY <1>0, <2>1, <2>3 DEF Updated, RowStep, Stays
  <2> QED
    BY <2>2, <2>3
<1>9. ASSUME NEW w \in Workers, NEW batch, row' = Claimed(batch, w),
             \A e \in batch : \/ row[e].status = "pending"
                              \/ (row[e].status = "failed" /\ row[e].nextRetryAt = "due")
      PROVE RowStep(f)
  <2>1. CASE f \in batch
    <3>1. IsClaimed(f)
      BY <1>0, <1>9, <2>1, ClaimedColumns DEF IsClaimed
    <3> QED
      BY <3>1 DEF RowStep
  <2>2. CASE f \notin batch
    BY <1>0, <1>9, <2>2, ClaimedColumns DEF RowStep, Stays
  <2> QED
    BY <2>1, <2>2
<1>10. ASSUME NEW w \in Workers, ClaimPending(w) PROVE RowStep(f)
  <2>1. row' = row \/ row' = Claimed(Oldest(Pending, BatchSize), w)
    BY <1>10 DEF ClaimPending, Executed
  <2>2. \A e \in Oldest(Pending, BatchSize) : row[e].status = "pending"
    BY DEF Oldest, Pending
  <2> QED
    BY <1>1, <1>9, <2>1, <2>2
<1>11. ASSUME NEW w \in Workers, ClaimRetryable(w) PROVE RowStep(f)
  <2>1. PICK batch \in AnyOf(Retryable, BatchSize) : row' = row \/ row' = Claimed(batch, w)
    BY <1>11 DEF ClaimRetryable, Executed
  <2>2. \A e \in batch : row[e].status = "failed" /\ row[e].nextRetryAt = "due"
    BY DEF AnyOf, Retryable
  <2> QED
    BY <1>1, <1>9, <2>1, <2>2
<1>12. ASSUME NEW w \in Workers, pc[w] \in Busy
       PROVE /\ cur[w] \in Events /\ Exists(cur[w])
             /\ row[cur[w]].status = "processing" /\ ~row[cur[w]].deadLettered
  <2>1. cur[w] \in Events
    BY <1>0, <1>12 DEF TypeInv, PollerShape
  <2>2. cur[w] \in Held(w)
    BY <2>1, OutboxAssumption DEF Held
  <2> QED
    BY <1>0, <2>1, <2>2 DEF ClaimInv, OwnRows, Exists
<1>13. ASSUME NEW w \in Workers, MarkPublished(w) PROVE RowStep(f)
  <2>1. row' = row \/ row' = MarkedPublished(cur[w])
    BY <1>13 DEF MarkPublished, Executed
  <2>2. pc[w] = "mark" /\ cur[w] \in delivered
    BY <1>13 DEF MarkPublished, OutboxInv, DeliveredInv
  <2>3. ASSUME row' = MarkedPublished(cur[w]), f = cur[w] PROVE IsMarked(f)
    BY <1>0, <1>12, <2>2, <2>3, MarkedPublishedColumns DEF IsMarked, Busy
  <2>4. ASSUME row' = MarkedPublished(cur[w]), f # cur[w] PROVE Stays(f)
    BY <1>0, <1>12, <2>2, <2>4, MarkedPublishedColumns DEF Stays, Busy
  <2> QED
    BY <1>1, <2>1, <2>3, <2>4 DEF RowStep
<1>14. ASSUME NEW w \in Workers, pc[w] \in Busy, NEW t, row' = MarkedFailed(cur[w], t)
       PROVE RowStep(f)
  <2>1. ASSUME f = cur[w] PROVE IsMarked(f)
    BY <1>0, <1>12, <1>14, <2>1, MarkedFailedColumns DEF IsMarked
  <2>2. ASSUME f # cur[w] PROVE Stays(f)
    BY <1>0, <1>12, <1>14, <2>2, MarkedFailedColumns DEF Stays
  <2> QED
    BY <2>1, <2>2 DEF RowStep
<1>15. ASSUME NEW w \in Workers, MarkFailed(w) PROVE RowStep(f)
  <2>1. pc[w] \in Busy /\ (row' = row \/ row' = MarkedFailed(cur[w], "backoff"))
    BY <1>15 DEF MarkFailed, Executed, Busy
  <2> QED
    BY <1>1, <1>14, <2>1
<1>16. ASSUME NEW w \in Workers, Park(w) PROVE RowStep(f)
  <2>1. pc[w] \in Busy
    BY <1>16 DEF Park, GivenUp, Busy
  <2>2. \/ row' = row
        \/ row' = MarkedDeadLettered(cur[w])
        \/ row' = MarkedFailed(cur[w], "year")
    BY <1>16 DEF Park, GivenUp, Executed
  <2>3. ASSUME row' = MarkedDeadLettered(cur[w]), f = cur[w] PROVE IsMarked(f)
    BY <1>0, <1>12, <2>1, <2>3, MarkedDeadLetteredColumns DEF IsMarked
  <2>4. ASSUME row' = MarkedDeadLettered(cur[w]), f # cur[w] PROVE Stays(f)
    BY <1>0, <1>12, <2>1, <2>4, MarkedDeadLetteredColumns DEF Stays
  <2> QED
    BY <1>1, <1>14, <2>1, <2>2, <2>3, <2>4 DEF RowStep
<1>17. ASSUME NEW w \in Workers,
              \/ Start(w) \/ PickEvent(w) \/ EndBatch(w) \/ Publish(w)
              \/ Crash(w) \/ Restart(w)
       PROVE RowStep(f)
  BY <1>1, <1>17 DEF Start, PickEvent, EndBatch, Publish, Crash, Restart, table
<1>18. ASSUME NEW a \in Admins, NEW e \in Events, FindDeadLettered(a, e) PROVE RowStep(f)
  BY <1>1, <1>18 DEF FindDeadLettered, table
<1>19. CASE UNCHANGED vars
  BY <1>1, <1>19 DEF vars
<1> QED
  BY <1>2, <1>3, <1>5, <1>6, <1>7, <1>8, <1>10, <1>11, <1>13, <1>15, <1>16,
     <1>17, <1>18, <1>19 DEF Next, PollerStep

-----------------------------------------------------------------------------
(* The action properties *)

\* No retry time is in the future for a row that no poller has failed.
DueRows ==
    \A e \in Events :
        row[e].status \in {"pending", "processing", "published"}
            => row[e].nextRetryAt \notin {"backoff", "year"}

LEMMA DueRowsInvariant ==
    ASSUME NoLostReplies, OneReplayer
    PROVE Spec => []DueRows
<1>1. Init => DueRows
  BY DEF Init, DueRows, NoRow, NewRow
<1>2. OutboxInv /\ DueRows /\ [Next]_vars => DueRows'
  <2> SUFFICES ASSUME OutboxInv, DueRows, [Next]_vars, NEW e \in Events,
                      row'[e].status \in {"pending", "processing", "published"}
               PROVE row'[e].nextRetryAt \notin {"backoff", "year"}
    BY DEF DueRows
  <2>1. RowStep(e)
    BY RowSteps
  <2> QED
    BY <2>1, WholeRows DEF RowStep, Stays, Appears, Waits, IsClaimed,
       IsMarked, IsReset, IsDeleted, DueRows
<1> QED
  BY <1>1, <1>2, OutboxInvariant, PTL DEF Spec

\* A row is deleted only when its event was delivered or dead-lettered: no
\* retention job or administrator loses an event.
THEOREM NothingLostSilently ==
    ASSUME NoLostReplies, OneReplayer
    PROVE Spec => NoSilentLoss
<1>1. OutboxInv /\ [Next]_vars =>
        [\A e \in Events : row[e].status # "deleted" /\ row'[e].status = "deleted"
            => e \in delivered \/ row[e].deadLettered]_vars
  <2> SUFFICES ASSUME OutboxInv, [Next]_vars, NEW e \in Events,
                      row[e].status # "deleted", row'[e].status = "deleted"
               PROVE e \in delivered \/ row[e].deadLettered
    OBVIOUS
  <2>1. RowStep(e)
    BY RowSteps
  <2>2. row[e].status = "published" => e \in delivered
    BY DEF OutboxInv, DeliveredInv, PublishedIsDelivered
  <2> QED
    BY <2>1, <2>2, WholeRows DEF RowStep, Stays, Appears, Waits, IsClaimed,
       IsMarked, IsReset, IsDeleted
<1> QED
  BY <1>1, OutboxInvariant, PTL DEF Spec, NoSilentLoss

\* A published row that no poller is working on is only ever deleted.
THEOREM PublishedStays ==
    ASSUME NoLostReplies, OneReplayer
    PROVE Spec => PublishedIsFinal
<1>1. OutboxInv /\ DueRows /\ [Next]_vars =>
        [\A e \in Events : row[e].status = "published" /\ (\A w \in Workers : cur[w] # e)
            => row'[e] = row[e] \/ row'[e].status = "deleted"]_vars
  <2> SUFFICES ASSUME OutboxInv, DueRows, [Next]_vars, NEW e \in Events,
                      row[e].status = "published"
               PROVE row'[e] = row[e] \/ row'[e].status = "deleted"
    OBVIOUS
  <2>1. RowStep(e)
    BY RowSteps
  <2>2. ~row[e].deadLettered
    BY DEF OutboxInv, ClaimInv, ParkedRows
  <2>3. IsDeleted(e) => row'[e].status = "deleted"
    BY WholeRows DEF IsDeleted
  <2> QED
    BY <2>1, <2>2, <2>3 DEF RowStep, Stays, Appears, Waits, IsClaimed,
       IsMarked, IsReset, DueRows
<1> QED
  BY <1>1, OutboxInvariant, DueRowsInvariant, PTL DEF Spec, PublishedIsFinal

\* A dead-lettered row only comes back as a reset row, or is deleted.
THEOREM DeadLettersStay ==
    ASSUME NoLostReplies, OneReplayer
    PROVE Spec => DeadLetterIsTerminal
<1>1. OutboxInv /\ [Next]_vars =>
        [\A e \in Events : row[e].deadLettered /\ row'[e] # row[e]
            => row'[e] = NewRow \/ row'[e].status = "deleted"]_vars
  <2> SUFFICES ASSUME OutboxInv, [Next]_vars, NEW e \in Events,
                      row[e].deadLettered, row'[e] # row[e]
               PROVE row'[e] = NewRow \/ row'[e].status = "deleted"
    OBVIOUS
  <2>1. RowStep(e)
    BY RowSteps
  <2>2. row[e].status = "failed" /\ row[e].nextRetryAt = "unset"
    BY DEF OutboxInv, ClaimInv, ParkedRows
  <2>3. IsDeleted(e) => row'[e].status = "deleted"
    BY WholeRows DEF IsDeleted
  <2> QED
    BY <2>1, <2>2, <2>3 DEF RowStep, Stays, Appears, Waits, IsClaimed,
       IsMarked, IsReset
<1> QED
  BY <1>1, OutboxInvariant, PTL DEF Spec, DeadLetterIsTerminal

-----------------------------------------------------------------------------
(* The refinement of EventDelivery *)

\* Which phase an event is in shows in its row alone: a poller's current event
\* has a row in "processing".
PhaseOf(r) ==
    IF r.status = "none" THEN "new"
    ELSE IF r.status = "deleted" THEN "forgotten"
    ELSE IF r.deadLettered THEN "parked"
    ELSE IF r.status = "published" THEN "closed"
    ELSE "open"

LEMMA PhaseByRow == OutboxInv => \A e \in Events : Phase(e) = PhaseOf(row[e])
<1> SUFFICES ASSUME OutboxInv, NEW e \in Events PROVE Phase(e) = PhaseOf(row[e])
  OBVIOUS
<1>1. row[e].status = "published" => \A w \in Workers : cur[w] # e
  <2> SUFFICES ASSUME NEW w \in Workers, cur[w] = e PROVE row[e].status = "processing"
    OBVIOUS
  <2>1. e \in Held(w)
    BY OutboxAssumption DEF Held
  <2> QED
    BY <2>1 DEF OutboxInv, ClaimInv, OwnRows
<1>2. CASE row[e].status = "none"
  BY <1>2 DEF Phase, PhaseOf, Exists
<1>3. CASE row[e].status = "deleted"
  BY <1>3 DEF Phase, PhaseOf, Exists
<1>4. CASE row[e].status \notin {"none", "deleted"} /\ row[e].deadLettered
  BY <1>4 DEF Phase, PhaseOf, Exists
<1>5. CASE row[e].status = "published" /\ ~row[e].deadLettered
  BY <1>1, <1>5 DEF Phase, PhaseOf, Exists
<1>6. CASE row[e].status \notin {"none", "deleted", "published"} /\ ~row[e].deadLettered
  BY <1>6 DEF Phase, PhaseOf, Exists
<1> QED
  BY <1>2, <1>3, <1>4, <1>5, <1>6

LEMMA PhaseByRowAfter == (OutboxInv => \A e \in Events : Phase(e) = PhaseOf(row[e]))'
BY PhaseByRow, PTL

\* A step that changes no phase and delivers nothing is a stutter.
LEMMA SamePhases ==
    ASSUME OutboxInv, OutboxInv', delivered' = delivered,
           \A e \in Events : PhaseOf(row'[e]) = PhaseOf(row[e])
    PROVE UNCHANGED Delivery!vars
<1>1. \A e \in Events : Phase(e)' = Phase(e)
  BY PhaseByRow, PhaseByRowAfter
<1> QED
  BY <1>1 DEF Delivery!vars

\* A step that writes one row is one step of its event, or a stutter.
LEMMA OneRowStep ==
    ASSUME OutboxInv, OutboxInv', delivered' = delivered, NEW e \in Events, RowStep(e),
           \A f \in Events \ {e} : row'[f] = row[f]
    PROVE [Delivery!Next]_Delivery!vars
<1> DEFINE ph == [f \in Events |-> Phase(f)]
<1>1. /\ ph[e] = PhaseOf(row[e])
      /\ ph' = [ph EXCEPT ![e] = PhaseOf(row'[e])]
  BY PhaseByRow, PhaseByRowAfter
<1>2. CASE PhaseOf(row'[e]) = PhaseOf(row[e])
  BY <1>2, SamePhases
<1>3. CASE Appears(e)
  <2>1. PhaseOf(row[e]) = "new" /\ PhaseOf(row'[e]) = "open"
    BY <1>3, WholeRows DEF Appears, PhaseOf
  <2>2. Delivery!Accept(e)
    BY <1>1, <2>1 DEF Delivery!Accept, Delivery!Move
  <2> QED
    BY <2>2 DEF Delivery!Next
<1>4. CASE IsReset(e)
  <2>1. PhaseOf(row[e]) = "parked" /\ PhaseOf(row'[e]) = "open"
    BY <1>4, WholeRows DEF IsReset, PhaseOf, OutboxInv, ClaimInv, ParkedRows
  <2>2. Delivery!Revive(e)
    BY <1>1, <2>1 DEF Delivery!Revive, Delivery!Move
  <2> QED
    BY <2>2 DEF Delivery!Next
<1>5. CASE IsMarked(e)
  <2>1. PhaseOf(row[e]) = "open"
    BY <1>5 DEF IsMarked, PhaseOf, OutboxInv, ClaimInv, ParkedRows
  <2>2. \/ PhaseOf(row'[e]) = "closed" /\ e \in delivered
        \/ PhaseOf(row'[e]) = "parked"
        \/ PhaseOf(row'[e]) = "open"
    BY <1>5 DEF IsMarked, PhaseOf
  <2>3. ASSUME PhaseOf(row'[e]) = "closed", e \in delivered PROVE Delivery!Close(e)
    BY <1>1, <2>1, <2>3 DEF Delivery!Close, Delivery!Move
  <2>4. ASSUME PhaseOf(row'[e]) = "parked" PROVE Delivery!Park(e)
    BY <1>1, <2>1, <2>4 DEF Delivery!Park, Delivery!Move
  <2> QED
    BY <1>2, <2>1, <2>2, <2>3, <2>4 DEF Delivery!Next
<1>6. CASE IsDeleted(e)
  <2>1. /\ PhaseOf(row'[e]) = "forgotten"
        /\ \/ PhaseOf(row[e]) = "parked"
           \/ PhaseOf(row[e]) = "closed" /\ e \in delivered
    BY <1>6, WholeRows DEF IsDeleted, PhaseOf, OutboxInv, ClaimInv, ParkedRows,
                           DeliveredInv, PublishedIsDelivered
  <2>2. ph' = [f \in Events |-> IF f \in {e} THEN "forgotten" ELSE ph[f]]
    BY <1>1, <2>1
  <2>3. Delivery!Forget({e})
    BY <1>1, <2>1, <2>2 DEF Delivery!Forget
  <2> QED
    BY <2>3 DEF Delivery!Next
<1>7. CASE Stays(e) \/ Waits(e) \/ IsClaimed(e)
  BY <1>2, <1>7 DEF Stays, Waits, IsClaimed, PhaseOf, OutboxInv, ClaimInv,
     ParkedRows
<1> QED
  BY <1>3, <1>4, <1>5, <1>6, <1>7 DEF RowStep

\* A retention job forgets the events of the rows it deletes.
LEMMA DeletedStep ==
    ASSUME OutboxInv, OutboxInv', delivered' = delivered, NEW S \in SUBSET Events,
           row' = Deleted(S),
           \A e \in S : row[e].status = "published" \/ row[e].deadLettered
    PROVE Delivery!Next
<1> DEFINE ph == [f \in Events |-> Phase(f)]
<1>1. \A e \in Events : ph[e] = PhaseOf(row[e]) /\ ph'[e] = PhaseOf(row'[e])
  BY PhaseByRow, PhaseByRowAfter
<1>2. \A e \in Events : PhaseOf(row'[e]) = IF e \in S THEN "forgotten" ELSE PhaseOf(row[e])
  BY WholeRows DEF Deleted, PhaseOf
<1>3. ph' = [e \in Events |-> IF e \in S THEN "forgotten" ELSE ph[e]]
  BY <1>1, <1>2
<1>4. ASSUME NEW e \in S
      PROVE ph[e] = "parked" \/ (ph[e] = "closed" /\ e \in delivered)
  BY <1>1 DEF PhaseOf, OutboxInv, ClaimInv, ParkedRows, DeliveredInv,
     PublishedIsDelivered
<1>5. Delivery!Forget(S)
  BY <1>3, <1>4 DEF Delivery!Forget
<1> QED
  BY <1>5 DEF Delivery!Next

\* Every step of the outbox is a step of EventDelivery or a stutter.
LEMMA DeliveryStep ==
    ASSUME NoLostReplies, OutboxInv, OutboxInv', [Next]_vars
    PROVE [Delivery!Next]_Delivery!vars
<1>0. /\ row \in [Events -> Row] /\ pc \in [Workers -> Label]
      /\ \A e \in Events : RowStep(e)
  BY RowSteps DEF OutboxInv, TypeInv, TypeOK
<1>1. ASSUME row' = row, delivered' = delivered PROVE UNCHANGED Delivery!vars
  BY <1>1, SamePhases
<1>2. ASSUME NEW e \in Events, Insert(e) \/ Elapse(e) \/ DeleteDeadLettered(e)
      PROVE [Delivery!Next]_Delivery!vars
  <2>1. delivered' = delivered /\ \A f \in Events \ {e} : row'[f] = row[f]
    BY <1>0, <1>2 DEF Insert, Elapse, DeleteDeadLettered, Deleted
  <2> QED
    BY <1>0, <2>1, OneRowStep
<1>3. ASSUME NEW w \in Workers, MarkPublished(w) \/ MarkFailed(w) \/ Park(w)
      PROVE [Delivery!Next]_Delivery!vars
  <2>1. cur[w] \in Events /\ delivered' = delivered
    BY <1>3 DEF MarkPublished, MarkFailed, Park, GivenUp, OutboxInv, TypeInv,
       PollerShape, Busy
  <2>2. \A f \in Events \ {cur[w]} : row'[f] = row[f]
    BY <1>0, <1>3 DEF MarkPublished, MarkFailed, Park, GivenUp, Executed,
       MarkedPublished, MarkedFailed, MarkedDeadLettered, Updated
  <2> QED
    BY <1>0, <2>1, <2>2, OneRowStep
<1>4. ASSUME NEW a \in Admins, ResetForRetry(a) PROVE [Delivery!Next]_Delivery!vars
  <2>1. replaying[a] \in Events /\ delivered' = delivered
    BY <1>4 DEF ResetForRetry, OutboxInv, TypeInv, TypeOK
  <2>2. \A f \in Events \ {replaying[a]} : row'[f] = row[f]
    BY <1>0, <1>4 DEF ResetForRetry, Updated
  <2> QED
    BY <1>0, <2>1, <2>2, OneRowStep
<1>5. ASSUME CleanupPublished PROVE Delivery!Next
  BY <1>5, DeletedStep DEF CleanupPublished
<1>6. ASSUME CleanupDeadLetters PROVE Delivery!Next
  BY <1>6, DeletedStep DEF CleanupDeadLetters
<1>7. ASSUME NEW w \in Workers, ClaimPending(w) \/ ClaimRetryable(w)
      PROVE UNCHANGED Delivery!vars
  <2>1. /\ delivered' = delivered
        /\ \A e \in Events : row'[e] = row[e] \/ row'[e].status = "processing"
    <3>1. delivered' = delivered /\ \E S \in SUBSET Events : row' = row \/ row' = Claimed(S, w)
      BY <1>7 DEF ClaimPending, ClaimRetryable, Executed, Oldest, Pending,
         AnyOf, Retryable
    <3> QED
      BY <1>0, <3>1, ClaimedColumns
  <2>2. ASSUME NEW e \in Events PROVE PhaseOf(row'[e]) = PhaseOf(row[e])
    <3>1. CASE row'[e] = row[e]
      BY <3>1
    <3>2. CASE row'[e].status = "processing"
      <4>1. Stays(e) \/ Waits(e) \/ IsClaimed(e)
        BY <1>0, <3>2, WholeRows DEF RowStep, Appears, IsMarked, IsReset,
           IsDeleted
      <4> QED
        BY <3>2, <4>1 DEF Stays, Waits, IsClaimed, PhaseOf, OutboxInv,
           ClaimInv, ParkedRows
    <3> QED
      BY <2>1, <3>1, <3>2
  <2> QED
    BY <2>1, <2>2, SamePhases
<1>8. ASSUME NEW w \in Workers, Publish(w) PROVE [Delivery!Next]_Delivery!vars
  <2>1. /\ row' = row /\ cur[w] \in Events
        /\ delivered' = delivered \/ delivered' = delivered \cup {cur[w]}
    BY <1>8 DEF Publish, OutboxInv, TypeInv, PollerShape, Busy
  <2>2. CASE delivered' = delivered
    BY <1>1, <2>1, <2>2
  <2>3. CASE delivered' = delivered \cup {cur[w]}
    <3>1. cur[w] \in Held(w)
      BY <2>1, OutboxAssumption DEF Held
    <3>2. PhaseOf(row[cur[w]]) = "open"
      BY <3>1 DEF OutboxInv, ClaimInv, OwnRows, PhaseOf
    <3>3. \A e \in Events : Phase(e) = PhaseOf(row[e]) /\ Phase(e)' = PhaseOf(row[e])
      BY <2>1, PhaseByRow, PhaseByRowAfter
    <3>4. Delivery!Deliver(cur[w])
      BY <2>1, <2>3, <3>2, <3>3 DEF Delivery!Deliver
    <3> QED
      BY <2>1, <3>4 DEF Delivery!Next
  <2> QED
    BY <2>1, <2>2, <2>3
<1>9. ASSUME NEW w \in Workers,
             Start(w) \/ PickEvent(w) \/ EndBatch(w) \/ Crash(w) \/ Restart(w)
      PROVE UNCHANGED Delivery!vars
  BY <1>1, <1>9 DEF Start, PickEvent, EndBatch, Crash, Restart, table
<1>10. ASSUME NEW a \in Admins, NEW e \in Events, FindDeadLettered(a, e)
       PROVE UNCHANGED Delivery!vars
  BY <1>1, <1>10 DEF FindDeadLettered, table
<1>11. CASE UNCHANGED vars
  BY <1>1, <1>11 DEF vars
<1> QED
  BY <1>2, <1>3, <1>4, <1>5, <1>6, <1>7, <1>8, <1>9, <1>10, <1>11
     DEF Next, PollerStep

\* The outbox keeps what EventDelivery promises: an event is delivered only
\* while open, closed only when delivered, forgotten only when delivered or
\* parked, and opened again only by an explicit revival.
THEOREM OutboxImplementsDelivery ==
    ASSUME NoLostReplies, OneReplayer
    PROVE Spec => ImplementsDelivery
<1>1. Init => Delivery!Init
  BY DEF Init, Delivery!Init, Phase, NoRow, NewRow
<1>2. OutboxInv /\ OutboxInv' /\ [Next]_vars => [Delivery!Next]_Delivery!vars
  BY DeliveryStep
<1> QED
  BY <1>1, <1>2, OutboxInvariant, PTL DEF Spec, ImplementsDelivery,
     Delivery!Spec

-----------------------------------------------------------------------------
(* The retry budget *)

\* The publishes a row with this retry_count has cost: the failures of Park
\* count as retries too, but publish nothing.
Spent(k) == IF k <= MaxRetries THEN k ELSE MaxRetries

RowBudget(e) ==
    /\ attempts[e] <= MaxRetries
    /\ row[e].status \in {"none", "pending"} => row[e].retryCount = 0
    /\ row[e].status \in {"none", "pending", "failed"} /\ ~row[e].deadLettered
          => attempts[e] = Spent(row[e].retryCount)
    /\ row[e].deadLettered => attempts[e] = MaxRetries
\* A copy has the retry count of its row for as long as it is held.
CopyBudget(w) ==
    \A c \in todo[w] :
        c.retryCount = row[c.id].retryCount /\ attempts[c.id] = Spent(c.retryCount)
StepBudget(w) ==
    LET k == row[cur[w]].retryCount
        n == attempts[cur[w]]
    IN  /\ pc[w] = "publish" => k < MaxRetries /\ n = k
        /\ pc[w] = "mark" => k < MaxRetries /\ n = k + 1
        /\ pc[w] = "failing" => n = Spent(k + 1)
        /\ pc[w] = "park" => MaxRetries <= k /\ n = MaxRetries

BudgetInv ==
    /\ \A e \in Events : RowBudget(e)
    /\ \A w \in Workers : CopyBudget(w) /\ StepBudget(w)

\* What a poller knows stays true while its own rows keep their counts.
LEMMA PollerBudgetKept ==
    ASSUME TypeInv, NEW w \in Workers, CopyBudget(w), StepBudget(w),
           pc'[w] = pc[w], todo'[w] = todo[w], cur'[w] = cur[w],
           \A e \in Held(w) : /\ row'[e].retryCount = row[e].retryCount
                              /\ attempts'[e] = attempts[e]
    PROVE CopyBudget(w)' /\ StepBudget(w)'
<1>1. CopyBudget(w)'
  <2>1. \A c \in todo[w] : c.id \in Held(w)
    BY DEF Held
  <2> QED
    BY <2>1 DEF CopyBudget, Spent
<1>2. StepBudget(w)'
  <2>1. CASE pc[w] \in Busy
    <3>1. cur[w] \in Held(w)
      BY <2>1, OutboxAssumption DEF Held, TypeInv, PollerShape
    <3>2. row'[cur'[w]].retryCount = row[cur[w]].retryCount /\ attempts'[cur'[w]] = attempts[cur[w]]
      BY <3>1
    <3> QED
      BY <3>2 DEF StepBudget, Spent
  <2>2. CASE pc[w] \notin Busy
    BY <2>2 DEF StepBudget, Busy
  <2> QED
    BY <2>1, <2>2
<1> QED
  BY <1>1, <1>2

\* What is recorded of an event stays true while its row only moves between
\* statuses that keep the counts.
LEMMA RowBudgetKept ==
    ASSUME NEW e \in Events, RowBudget(e), row'[e] = row[e], attempts'[e] = attempts[e]
    PROVE RowBudget(e)'
BY DEF RowBudget, Spent

\* A claim copies the retry count of rows that have spent what it says.
LEMMA BudgetClaim ==
    ASSUME OutboxInv, BudgetInv, NEW w \in Workers, NEW batch \in SUBSET Events,
           NEW b \in BOOLEAN,
           \A e \in batch : \/ row[e].status = "pending"
                            \/ (row[e].status = "failed" /\ row[e].nextRetryAt = "due"),
           row' = Claimed(batch, w), attempts' = attempts,
           todo' = [todo EXCEPT ![w] = todo[w] \cup CopiesOf(batch, b)],
           pc' = [pc EXCEPT ![w] = pc'[w]], pc'[w] \notin Busy, cur' = cur
    PROVE BudgetInv'
<1>0. /\ row \in [Events -> Row] /\ todo \in [Workers -> SUBSET Copy]
      /\ pc \in [Workers -> Label] /\ TypeInv /\ ClaimInv
  BY DEF OutboxInv, TypeInv, TypeOK
<1>1. ASSUME NEW e \in batch
      PROVE ~row[e].deadLettered /\ attempts[e] = Spent(row[e].retryCount)
  BY DEF ClaimInv, OutboxInv, ParkedRows, BudgetInv, RowBudget
<1>2. ASSUME NEW e \in Events
      PROVE /\ row'[e].retryCount = row[e].retryCount
            /\ e \notin batch => row'[e] = row[e]
            /\ e \in batch => row'[e].status = "processing" /\ ~row'[e].deadLettered
  BY <1>0, <1>1, ClaimedColumns
<1>3. ASSUME NEW e \in Events PROVE RowBudget(e)'
  BY <1>2 DEF BudgetInv, RowBudget, Spent
<1>4. ASSUME NEW v \in Workers, v # w PROVE CopyBudget(v)' /\ StepBudget(v)'
  <2>1. \A e \in Held(v) : e \in Events
    BY <1>0 DEF Held, Copy, TypeInv, TypeOK
  <2> QED
    BY <1>0, <1>2, <1>4, <2>1, PollerBudgetKept DEF BudgetInv
<1>5. CopyBudget(w)'
  <2>1. ASSUME NEW c \in todo[w] PROVE c.retryCount = row'[c.id].retryCount
                                       /\ attempts[c.id] = Spent(c.retryCount)
    BY <1>0, <1>2 DEF Copy, BudgetInv, CopyBudget
  <2>2. ASSUME NEW c \in CopiesOf(batch, b)
        PROVE c.retryCount = row'[c.id].retryCount /\ attempts[c.id] = Spent(c.retryCount)
    BY <1>1, <1>2 DEF CopiesOf
  <2>3. todo'[w] = todo[w] \cup CopiesOf(batch, b)
    BY <1>0
  <2> QED
    BY <2>1, <2>2, <2>3 DEF CopyBudget, Spent
<1>6. StepBudget(w)'
  BY DEF StepBudget, Busy
<1> QED
  BY <1>3, <1>4, <1>5, <1>6 DEF BudgetInv

\* A step of poller w that writes at most the row of its current event, and
\* may count an attempt for it.
LEMMA BudgetOwnStep ==
    ASSUME OutboxInv, BudgetInv, NEW w \in Workers, NEW f \in Events, f = cur[w],
           \A e \in Events \ {f} : row'[e] = row[e] /\ attempts'[e] = attempts[e],
           \A v \in Workers \ {w} : /\ pc'[v] = pc[v] /\ todo'[v] = todo[v]
                                    /\ cur'[v] = cur[v],
           todo'[w] = todo[w] \/ todo'[w] = {},
           RowBudget(f)', StepBudget(w)'
    PROVE BudgetInv'
<1>0. /\ TypeInv /\ ClaimInv /\ todo \in [Workers -> SUBSET Copy]
      /\ cur \in [Workers -> Events \cup {None}]
  BY DEF OutboxInv, TypeInv, TypeOK
<1>1. f \in Held(w)
  BY OutboxAssumption DEF Held
<1>2. ASSUME NEW e \in Events PROVE RowBudget(e)'
  BY RowBudgetKept DEF BudgetInv
<1>3. ASSUME NEW v \in Workers, v # w PROVE CopyBudget(v)' /\ StepBudget(v)'
  <2>1. f \notin Held(v)
    BY <1>0, <1>1, <1>3, OwnRowsExclude DEF ClaimInv, ExclusiveClaim
  <2>2. Held(v) \subseteq Events
    BY <1>0 DEF Held, Copy
  <2>3. \A e \in Held(v) : row'[e] = row[e] /\ attempts'[e] = attempts[e]
    BY <2>1, <2>2
  <2> QED
    BY <1>0, <1>3, <2>3, PollerBudgetKept DEF BudgetInv
<1>4. CopyBudget(w)'
  <2>1. \A c \in todo[w] : c.id \in Events /\ c.id # f
    BY <1>0 DEF Copy, ClaimInv, DistinctCopies
  <2> QED
    BY <2>1 DEF BudgetInv, CopyBudget, Spent
<1> QED
  BY <1>2, <1>3, <1>4 DEF BudgetInv

\* A step of something else than a poller, or one that only ends work.
LEMMA BudgetRowsStep ==
    ASSUME OutboxInv, BudgetInv,
           \A e \in Events : RowBudget(e)',
           \A w \in Workers : /\ todo'[w] = todo[w] \/ todo'[w] = {}
                              /\ \/ pc'[w] = pc[w] /\ cur'[w] = cur[w]
                                 \/ pc'[w] \notin Busy,
           \A w \in Workers : \A e \in Held(w) :
               /\ row'[e].retryCount = row[e].retryCount
               /\ attempts'[e] = attempts[e]
    PROVE BudgetInv'
<1>0. TypeInv /\ todo \in [Workers -> SUBSET Copy]
  BY DEF OutboxInv, TypeInv, TypeOK
<1> SUFFICES ASSUME NEW w \in Workers PROVE CopyBudget(w)' /\ StepBudget(w)'
  BY DEF BudgetInv
<1>1. CopyBudget(w)'
  <2>1. \A c \in todo[w] : c.id \in Held(w)
    BY DEF Held
  <2> QED
    BY <2>1 DEF BudgetInv, CopyBudget, Spent
<1>2. StepBudget(w)'
  <2>1. CASE pc'[w] \notin Busy
    BY <2>1 DEF StepBudget, Busy
  <2>2. CASE pc'[w] \in Busy
    <3>1. cur[w] \in Held(w) /\ pc'[w] = pc[w] /\ cur'[w] = cur[w]
      BY <1>0, <2>2, OutboxAssumption DEF Held, TypeInv, PollerShape
    <3>2. row'[cur'[w]].retryCount = row[cur[w]].retryCount /\ attempts'[cur'[w]] = attempts[cur[w]]
      BY <3>1
    <3> QED
      BY <3>1, <3>2 DEF BudgetInv, StepBudget, Spent
  <2> QED
    BY <2>1, <2>2
<1> QED
  BY <1>1, <1>2

\* Every step preserves BudgetInv.
LEMMA BudgetInvStep ==
    ASSUME NoLostReplies, OutboxInv, BudgetInv, [Next]_vars
    PROVE BudgetInv'
<1>0. /\ TypeInv /\ ClaimInv /\ row \in [Events -> Row]
      /\ pc \in [Workers -> Label] /\ cur \in [Workers -> Events \cup {None}]
      /\ todo \in [Workers -> SUBSET Copy]
      /\ replaying \in [Admins -> Events \cup {None}]
      /\ attempts \in [Events -> Nat] /\ MaxRetries \in Nat \ {0}
  BY OutboxAssumption DEF OutboxInv, TypeInv, TypeOK
<1>a. \A w \in Workers : \A e \in Held(w) : e \in Events /\ row[e].status = "processing"
  BY <1>0 DEF ClaimInv, OwnRows, Held, Copy
<1>b. Spent(0) = 0
  BY <1>0 DEF Spent
<1>1. ASSUME NEW e \in Events, Insert(e) PROVE BudgetInv'
  <2>1. row' = [row EXCEPT ![e] = NewRow] /\ row[e].status = "none" /\ attempts' = attempts
    BY <1>1 DEF Insert
  <2>2. attempts[e] = 0
    BY <1>0, <1>b, <2>1 DEF BudgetInv, RowBudget, ClaimInv, ParkedRows
  <2>3. ASSUME NEW f \in Events PROVE RowBudget(f)'
    <3>1. CASE f = e
      BY <1>0, <1>b, <2>1, <2>2, <3>1 DEF RowBudget, NewRow, Spent
    <3>2. CASE f # e
      BY <1>0, <2>1, <3>2, RowBudgetKept DEF BudgetInv
    <3> QED
      BY <3>1, <3>2
  <2> QED
    BY <1>0, <1>1, <1>a, <2>1, <2>3, BudgetRowsStep DEF Insert, poller
<1>2. ASSUME NEW e \in Events, Elapse(e) PROVE BudgetInv'
  <2>1. \A f \in Events : /\ row'[f].status = row[f].status
                         /\ row'[f].retryCount = row[f].retryCount
                         /\ row'[f].deadLettered = row[f].deadLettered
    BY <1>0, <1>2, ElapsedColumns
  <2>2. attempts' = attempts /\ UNCHANGED poller
    BY <1>2 DEF Elapse
  <2>3. ASSUME NEW f \in Events PROVE RowBudget(f)'
    BY <2>1, <2>2 DEF BudgetInv, RowBudget, Spent
  <2> QED
    BY <1>a, <2>1, <2>2, <2>3, BudgetRowsStep DEF poller
<1>3. ASSUME NEW S \in SUBSET Events, row' = Deleted(S), attempts' = attempts,
             UNCHANGED poller, \A e \in S : row[e].status # "processing"
      PROVE BudgetInv'
  <2>1. \A f \in Events : IF f \in S THEN row'[f].status = "deleted" /\ ~row'[f].deadLettered
                                     ELSE row'[f] = row[f]
    BY <1>3, WholeRows DEF Deleted
  <2>2. ASSUME NEW f \in Events PROVE RowBudget(f)'
    BY <1>3, <2>1 DEF BudgetInv, RowBudget, Spent
  <2> QED
    BY <1>3, <1>a, <2>1, <2>2, BudgetRowsStep DEF poller
<1>4. ASSUME NEW e \in Events, DeleteDeadLettered(e) PROVE BudgetInv'
  <2>1. row[e].status # "processing"
    BY <1>0, <1>4 DEF DeleteDeadLettered, ClaimInv, ParkedRows
  <2> QED
    BY <1>3, <1>4, <2>1 DEF DeleteDeadLettered
<1>5. ASSUME CleanupPublished PROVE BudgetInv'
  BY <1>3, <1>5 DEF CleanupPublished
<1>6. ASSUME CleanupDeadLetters PROVE BudgetInv'
  <2>1. PICK S \in SUBSET {e \in Events : row[e].deadLettered} : row' = Deleted(S)
    BY <1>6 DEF CleanupDeadLetters
  <2>2. \A e \in S : row[e].status # "processing"
    BY <1>0, <2>1 DEF ClaimInv, ParkedRows
  <2> QED
    BY <1>3, <1>6, <2>1, <2>2 DEF CleanupDeadLetters
<1>7. ASSUME NEW a \in Admins, ResetForRetry(a) PROVE BudgetInv'
  <2>0. PICK e \in Events : e = replaying[a]
    BY <1>0, <1>7 DEF ResetForRetry
  <2>1. /\ row[e].deadLettered \/ row[e].status = "deleted"
        /\ row' = Updated(e, NewRow) /\ UNCHANGED poller
        /\ attempts' = [attempts EXCEPT ![e] = 0]
    BY <1>0, <1>7, <2>0 DEF ResetForRetry, ClaimInv, ReplayTargets
  <2>2. \A w \in Workers : e \notin Held(w)
    BY <1>0, <1>a, <2>1 DEF ClaimInv, ParkedRows
  <2>3. ASSUME NEW f \in Events, f # e
        PROVE row'[f] = row[f] /\ attempts'[f] = attempts[f]
    BY <1>0, <2>1, <2>3 DEF Updated
  <2>4. RowBudget(e)'
    <3>1. attempts'[e] = 0
      BY <1>0, <2>1
    <3>2. CASE Exists(e)
      <4>1. row'[e] = NewRow
        BY <1>0, <2>1, <3>2 DEF Updated
      <4> QED
        BY <1>0, <1>b, <3>1, <4>1 DEF RowBudget, NewRow, Spent
    <3>3. CASE ~Exists(e)
      <4>1. row'[e] = row[e] /\ row[e].status = "deleted"
        BY <1>0, <2>1, <3>3 DEF Updated, Exists, ClaimInv, ParkedRows
      <4>2. ~row[e].deadLettered
        BY <1>0, <2>1, <4>1 DEF ClaimInv, ParkedRows
      <4> QED
        BY <1>0, <3>1, <4>1, <4>2 DEF RowBudget
    <3> QED
      BY <3>2, <3>3
  <2>5. ASSUME NEW f \in Events PROVE RowBudget(f)'
    BY <2>3, <2>4, RowBudgetKept DEF BudgetInv
  <2> QED
    BY <1>a, <2>1, <2>2, <2>3, <2>5, BudgetRowsStep DEF poller
<1>8. ASSUME row' = row, attempts' = attempts,
             \A w \in Workers : /\ todo'[w] = todo[w] \/ todo'[w] = {}
                                /\ \/ pc'[w] = pc[w] /\ cur'[w] = cur[w]
                                   \/ pc'[w] \notin Busy
      PROVE BudgetInv'
  <2>1. \A e \in Events : RowBudget(e)'
    BY <1>8, RowBudgetKept DEF BudgetInv
  <2> QED
    BY <1>8, <2>1, BudgetRowsStep
<1>9. ASSUME NEW a \in Admins, NEW e \in Events, FindDeadLettered(a, e) PROVE BudgetInv'
  BY <1>8, <1>9 DEF FindDeadLettered, table, poller
<1>10. ASSUME NEW w \in Workers, Start(w) \/ EndBatch(w) \/ Crash(w) \/ Restart(w)
       PROVE BudgetInv'
  <2>1. row' = row /\ attempts' = attempts
    BY <1>10 DEF Start, EndBatch, Crash, Restart, table
  <2>2. \A v \in Workers : /\ todo'[v] = todo[v] \/ todo'[v] = {}
                           /\ \/ pc'[v] = pc[v] /\ cur'[v] = cur[v]
                              \/ pc'[v] \notin Busy
    BY <1>0, <1>10 DEF Start, EndBatch, Crash, Restart, Goto, Abandon, Busy
  <2> QED
    BY <1>8, <2>1, <2>2
<1>11. ASSUME NEW w \in Workers, PickEvent(w) PROVE BudgetInv'
  <2>1. PICK c \in todo[w] :
           /\ todo' = [todo EXCEPT ![w] = @ \ {c}]
           /\ cur' = [cur EXCEPT ![w] = c.id]
           /\ Goto(w, FirstStep(c))
    BY <1>11 DEF PickEvent
  <2>2. row' = row /\ attempts' = attempts
    BY <1>11 DEF PickEvent, table
  <2>3. /\ c.id \in Events /\ c.retryCount = row[c.id].retryCount /\ c.retryCount \in Nat
        /\ attempts[c.id] = Spent(c.retryCount)
    BY <1>0 DEF BudgetInv, CopyBudget, Copy
  <2>4. \A e \in Events : RowBudget(e)'
    BY <2>2, RowBudgetKept DEF BudgetInv
  <2>5. ASSUME NEW v \in Workers, v # w PROVE CopyBudget(v)' /\ StepBudget(v)'
    BY <1>0, <2>1, <2>2, <2>5, PollerBudgetKept DEF BudgetInv, Goto
  <2>6. CopyBudget(w)'
    BY <1>0, <2>1, <2>2 DEF BudgetInv, CopyBudget, Spent
  <2>7. StepBudget(w)'
    <3>1. cur'[w] = c.id /\ pc'[w] = FirstStep(c)
      BY <1>0, <2>1 DEF Goto
    <3> QED
      BY <1>0, <2>2, <2>3, <3>1 DEF StepBudget, FirstStep, Spent
  <2> QED
    BY <2>4, <2>5, <2>6, <2>7 DEF BudgetInv
<1>12. ASSUME NEW w \in Workers, Publish(w) PROVE BudgetInv'
  <2>0. PICK e \in Events : e = cur[w]
    BY <1>12 DEF Publish, OutboxInv, TypeInv, PollerShape, Busy
  <2>1. /\ row' = row /\ UNCHANGED <<todo, cur>>
        /\ attempts' = [attempts EXCEPT ![e] = @ + 1]
        /\ Goto(w, "mark") \/ Goto(w, "failing")
    BY <1>12, <2>0 DEF Publish
  <2>2. row[e].retryCount \in Nat /\ row[e].retryCount < MaxRetries
        /\ attempts[e] = row[e].retryCount
    BY <1>0, <1>12, <2>0 DEF Publish, BudgetInv, StepBudget, Row
  <2>3. attempts'[e] = row[e].retryCount + 1
    BY <1>0, <2>1, <2>2
  <2>4. row[e].status = "processing" /\ ~row[e].deadLettered
    BY <1>0, <2>0, OutboxAssumption DEF ClaimInv, OwnRows, Held
  <2>5. RowBudget(e)'
    BY <1>0, <2>1, <2>2, <2>3, <2>4 DEF RowBudget
  <2>6. StepBudget(w)'
    <3>1. pc'[w] \in {"mark", "failing"} /\ cur'[w] = e
      BY <1>0, <2>0, <2>1 DEF Goto
    <3> QED
      BY <1>0, <2>1, <2>2, <2>3, <3>1 DEF StepBudget, Spent
  <2>7. /\ \A f \in Events \ {e} : row'[f] = row[f] /\ attempts'[f] = attempts[f]
        /\ \A v \in Workers \ {w} : /\ pc'[v] = pc[v] /\ todo'[v] = todo[v]
                                    /\ cur'[v] = cur[v]
        /\ todo'[w] = todo[w]
    BY <1>0, <2>1 DEF Goto
  <2> QED
    BY <2>0, <2>5, <2>6, <2>7, BudgetOwnStep
<1>13. ASSUME NEW w \in Workers, MarkPublished(w) \/ MarkFailed(w) \/ Park(w)
       PROVE BudgetInv'
  <2>0. PICK e \in Events : e = cur[w]
    BY <1>13 DEF MarkPublished, MarkFailed, Park, GivenUp, OutboxInv, TypeInv,
       PollerShape, Busy
  <2> DEFINE k == row[e].retryCount
  <2>1. PICK reply \in Reply :
           /\ \/ pc[w] = "mark" /\ Executed(MarkedPublished(e), reply)
              \/ pc[w] = "failing" /\ Executed(MarkedFailed(e, "backoff"), reply)
              \/ pc[w] = "park" /\ Executed(MarkedDeadLettered(e), reply)
              \/ pc[w] = "park" /\ Executed(MarkedFailed(e, "year"), reply)
           /\ IF reply = "ok" THEN EndEvent(w)
              ELSE \/ /\ pc[w] \in {"mark", "park"}
                      /\ Goto(w, "failing") /\ UNCHANGED <<todo, cur>>
                   \/ Abandon(w, "idle")
    BY <1>13, <2>0 DEF MarkPublished, MarkFailed, Park, GivenUp
  <2>2. /\ attempts' = attempts /\ k \in Nat
        /\ attempts[e] \in Nat /\ attempts[e] <= MaxRetries
    BY <1>0, <1>13 DEF MarkPublished, MarkFailed, Park, GivenUp, Row,
       BudgetInv, RowBudget
  <2>3. row[e].status = "processing" /\ ~row[e].deadLettered /\ Exists(e)
    BY <1>0, <2>0, OutboxAssumption DEF ClaimInv, OwnRows, Held, Exists
  <2>4. /\ pc[w] = "mark" => k < MaxRetries /\ attempts[e] = k + 1
        /\ pc[w] = "failing" => attempts[e] = Spent(k + 1)
        /\ pc[w] = "park" => MaxRetries <= k /\ attempts[e] = MaxRetries
    BY <2>0 DEF BudgetInv, StepBudget
  <2>5. /\ \A v \in Workers \ {w} : pc'[v] = pc[v] /\ todo'[v] = todo[v] /\ cur'[v] = cur[v]
        /\ todo'[w] = todo[w] \/ todo'[w] = {}
    BY <1>0, <2>1 DEF EndEvent, Abandon, Goto
  <2>6. CASE reply = "ok"
    <3>1. \/ pc[w] = "mark" /\ row' = MarkedPublished(e)
          \/ pc[w] = "failing" /\ row' = MarkedFailed(e, "backoff")
          \/ pc[w] = "park" /\ row' = MarkedDeadLettered(e)
          \/ pc[w] = "park" /\ row' = MarkedFailed(e, "year")
      BY <2>1, <2>6, ExecutedOrNot
    <3>2. \A f \in Events \ {e} : row'[f] = row[f] /\ attempts'[f] = attempts[f]
      BY <1>0, <2>2, <3>1 DEF MarkedPublished, MarkedFailed,
         MarkedDeadLettered, Updated
    <3>3. RowBudget(e)'
      <4>1. CASE pc[w] = "mark" /\ row' = MarkedPublished(e)
        <5>1. row'[e].status = "published" /\ ~row'[e].deadLettered
          BY <1>0, <2>2, <2>3, <4>1, MarkedPublishedColumns
        <5> QED
          BY <2>2, <5>1 DEF RowBudget
      <4>2. CASE \/ pc[w] = "failing" /\ row' = MarkedFailed(e, "backoff")
                 \/ pc[w] = "park" /\ row' = MarkedFailed(e, "year")
        <5>1. row'[e].status = "failed" /\ ~row'[e].deadLettered /\ row'[e].retryCount = k + 1
          BY <1>0, <2>2, <2>3, <4>2, MarkedFailedColumns
        <5>2. attempts[e] = Spent(k + 1)
          BY <1>0, <2>2, <2>4, <4>2 DEF Spent
        <5> QED
          BY <2>2, <5>1, <5>2 DEF RowBudget, Spent
      <4>3. CASE pc[w] = "park" /\ row' = MarkedDeadLettered(e)
        <5>1. row'[e].status = "failed" /\ row'[e].deadLettered
          BY <1>0, <2>2, <2>3, <4>3, MarkedDeadLetteredColumns
        <5> QED
          BY <2>2, <2>4, <4>3, <5>1 DEF RowBudget
      <4> QED
        BY <3>1, <4>1, <4>2, <4>3
    <3>4. StepBudget(w)'
      BY <1>0, <2>1, <2>6 DEF EndEvent, Goto, StepBudget
    <3> QED
      BY <2>0, <2>5, <3>2, <3>3, <3>4, BudgetOwnStep
  <2>7. CASE reply # "ok"
    <3>1. row' = row
      BY <2>1, <2>7, ExecutedOrNot
    <3>2. RowBudget(e)'
      BY <2>2, <3>1, RowBudgetKept DEF BudgetInv
    <3>3. StepBudget(w)'
      <4>1. CASE Abandon(w, "idle")
        BY <1>0, <4>1 DEF Abandon, Goto, StepBudget
      <4>2. CASE pc[w] \in {"mark", "park"} /\ Goto(w, "failing") /\ UNCHANGED <<todo, cur>>
        <5>1. attempts[e] = Spent(k + 1)
          BY <1>0, <2>2, <2>4, <4>2 DEF Spent
        <5>2. pc'[w] = "failing" /\ cur'[w] = e
          BY <1>0, <2>0, <4>2 DEF Goto
        <5> QED
          BY <2>2, <3>1, <5>1, <5>2 DEF StepBudget, Spent
      <4> QED
        BY <2>1, <2>7, <4>1, <4>2
    <3> QED
      BY <2>0, <2>2, <2>5, <3>1, <3>2, <3>3, BudgetOwnStep
  <2> QED
    BY <2>6, <2>7
<1>14. ASSUME NEW w \in Workers, ClaimPending(w) PROVE BudgetInv'
  <2> DEFINE batch == Oldest(Pending, BatchSize)
  <2>1. PICK reply \in Reply :
           /\ Executed(Claimed(batch, w), reply)
           /\ IF reply = "ok"
              THEN /\ todo' = [todo EXCEPT ![w] = CopiesOf(batch, TRUE)]
                   /\ Goto(w, "claimed")
              ELSE UNCHANGED <<todo, pc>>
    BY <1>14 DEF ClaimPending
  <2>2. /\ batch \in SUBSET Events /\ \A e \in batch : row[e].status = "pending"
        /\ todo[w] = {} /\ UNCHANGED <<cur, attempts>>
    BY <1>14 DEF ClaimPending, Oldest, Pending, OutboxInv, TypeInv, PollerShape
  <2> HIDE DEF batch
  <2>3. CASE reply = "ok"
    <3>1. row' = Claimed(batch, w)
      BY <2>1, <2>3, ExecutedOrNot
    <3>2. todo' = [todo EXCEPT ![w] = todo[w] \cup CopiesOf(batch, TRUE)]
      BY <2>1, <2>2, <2>3
    <3>3. pc' = [pc EXCEPT ![w] = pc'[w]] /\ pc'[w] \notin Busy
      BY <1>0, <2>1, <2>3 DEF Goto, Busy
    <3> QED
      BY <2>2, <3>1, <3>2, <3>3, BudgetClaim
  <2>4. CASE reply # "ok"
    BY <1>8, <2>1, <2>2, <2>4, ExecutedOrNot
  <2> QED
    BY <2>3, <2>4
<1>15. ASSUME NEW w \in Workers, ClaimRetryable(w) PROVE BudgetInv'
  <2>1. PICK reply \in Reply, batch \in AnyOf(Retryable, BatchSize) :
           /\ Executed(Claimed(batch, w), reply)
           /\ IF reply = "ok"
              THEN /\ todo' = [todo EXCEPT ![w] = @ \cup CopiesOf(batch, FALSE)]
                   /\ Goto(w, "loop")
                   /\ UNCHANGED cur
              ELSE Abandon(w, "idle")
    BY <1>15 DEF ClaimRetryable
  <2>2. /\ batch \in SUBSET Events
        /\ \A e \in batch : row[e].status = "failed" /\ row[e].nextRetryAt = "due"
        /\ attempts' = attempts
    BY <1>15, <2>1 DEF ClaimRetryable, AnyOf, Retryable
  <2>3. CASE reply = "ok"
    <3>1. row' = Claimed(batch, w) /\ cur' = cur
      BY <2>1, <2>3, ExecutedOrNot
    <3>2. todo' = [todo EXCEPT ![w] = todo[w] \cup CopiesOf(batch, FALSE)]
      BY <2>1, <2>3
    <3>3. pc' = [pc EXCEPT ![w] = pc'[w]] /\ pc'[w] \notin Busy
      BY <1>0, <2>1, <2>3 DEF Goto, Busy
    <3> QED
      BY <2>2, <3>1, <3>2, <3>3, BudgetClaim
  <2>4. CASE reply # "ok"
    <3>1. row' = row /\ Abandon(w, "idle")
      BY <2>1, <2>4, ExecutedOrNot
    <3>2. \A v \in Workers : /\ todo'[v] = todo[v] \/ todo'[v] = {}
                             /\ \/ pc'[v] = pc[v] /\ cur'[v] = cur[v]
                                \/ pc'[v] \notin Busy
      BY <1>0, <3>1 DEF Abandon, Goto, Busy
    <3> QED
      BY <1>8, <2>2, <3>1, <3>2
  <2> QED
    BY <2>3, <2>4
<1>16. CASE UNCHANGED vars
  BY <1>8, <1>16 DEF vars
<1> QED
  BY <1>1, <1>2, <1>4, <1>5, <1>6, <1>7, <1>9, <1>10, <1>11, <1>12, <1>13,
     <1>14, <1>15, <1>16 DEF Next, PollerStep

\* Between two resets an event is published at most MaxRetries times, and one
\* that is dead-lettered was published exactly as often.
THEOREM RetriesWithinBudget ==
    ASSUME NoLostReplies, OneReplayer
    PROVE Spec => []RetryBudget
<1>1. Init => BudgetInv
  BY OutboxAssumption DEF Init, BudgetInv, RowBudget, CopyBudget, StepBudget,
     Spent, NoRow, NewRow
<1>2. OutboxInv /\ BudgetInv /\ [Next]_vars => BudgetInv'
  BY BudgetInvStep
<1>3. BudgetInv => RetryBudget
  BY DEF BudgetInv, RowBudget, RetryBudget
<1> QED
  BY <1>1, <1>2, <1>3, OutboxInvariant, PTL DEF Spec
=============================================================================
