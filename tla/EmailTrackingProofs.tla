------------------------- MODULE EmailTrackingProofs -------------------------
(***************************************************************************)
(* Theorems about EmailTracking, for any e-mails, events, overlapping       *)
(* executions and numbers of deliveries, commands, faults and crashes.      *)
(***************************************************************************)
EXTENDS EmailTracking, TLAPS

\* A claim is tried three times.
ClaimsLeft == \A h \in Handlers : run[h].pc = "claiming" => run[h].tries < 3

TypeInv == TypeOK /\ ClaimsLeft

Runs == BusyRun \cup {IdleRun}

-----------------------------------------------------------------------------
\* The records of executions.

\* The fields of an execution that has an event.
LEMMA BusyFields ==
    ASSUME TypeOK, NEW h \in Handlers, run[h].pc # "idle"
    PROVE /\ run[h] \in BusyRun
          /\ run[h].event \in Events /\ MessageOfRun(h) \in Messages
          /\ run[h].tries \in 0..3 /\ run[h].locked \in BOOLEAN
          /\ run[h].seen \in Statuses \cup {"none"}
<1>1. run[h] \in BusyRun
  BY DEF TypeOK, IdleRun
<1> QED
  BY <1>1, TrackingAssumption DEF BusyRun, MessageOfRun

\* A step changes the record of execution h only.
Stepped(h) ==
    /\ run' \in [Handlers -> Runs]
    /\ \A g \in Handlers : g # h => run'[g] = run[g]

LEMMA SteppedTo ==
    ASSUME TypeOK, NEW h \in Handlers, NEW r \in Runs,
           run' = [run EXCEPT ![h] = r]
    PROVE Stepped(h) /\ run'[h] = r
BY DEF TypeOK, Runs, Stepped

LEMMA EnteredRun ==
    ASSUME TypeOK, NEW h \in Handlers, run[h].pc # "idle",
           NEW p \in InTransaction \cup {"claiming", "rechecking", "failing"},
           Enter(h, p)
    PROVE /\ Stepped(h) /\ run'[h].pc = p
          /\ run'[h].event = run[h].event /\ run'[h].tries = run[h].tries
          /\ run'[h].seen = run[h].seen /\ run'[h].locked = run[h].locked
<1>1. run[h] \in BusyRun
  BY BusyFields
<1>2. [run[h] EXCEPT !.pc = p] \in Runs
  BY <1>1 DEF BusyRun, Runs
<1>3. run' = [run EXCEPT ![h] = [run[h] EXCEPT !.pc = p]]
  BY DEF Enter
<1>4. Stepped(h) /\ run'[h] = [run[h] EXCEPT !.pc = p]
  BY <1>2, <1>3, SteppedTo
<1> QED
  BY <1>1, <1>4 DEF BusyRun

LEMMA StartedRun ==
    ASSUME TypeOK, NEW h \in Handlers, NEW e \in Events,
           NEW p \in {"resolving", "claiming"}, NEW v \in {"ingest", "reprocess"},
           Start(h, p, e, v)
    PROVE /\ Stepped(h) /\ run'[h].pc = p /\ run'[h].event = e
          /\ run'[h].tries = 0 /\ run'[h].locked = FALSE
<1> DEFINE r == [pc |-> p, event |-> e, via |-> v, tries |-> 0,
                 seen |-> "none", locked |-> FALSE]
<1>1. r \in Runs
  BY DEF Runs, BusyRun, InTransaction, Statuses
<1>2. run' = [run EXCEPT ![h] = r]
  BY DEF Start
<1>3. Stepped(h) /\ run'[h] = r
  BY <1>1, <1>2, SteppedTo
<1> QED
  BY <1>3

LEMMA LeftRun ==
    ASSUME TypeOK, NEW h \in Handlers, Leave(h)
    PROVE Stepped(h) /\ run'[h] = IdleRun /\ run'[h].pc = "idle"
<1>1. IdleRun \in Runs
  BY DEF Runs
<1>2. Stepped(h) /\ run'[h] = IdleRun
  BY <1>1, SteppedTo DEF Leave
<1> QED
  BY <1>2 DEF IdleRun

\* What a step of execution h does to it.  The lock of the provider row is
\* taken by an event that is news and released at the end of the transaction.
LEMMA ClaimRuns ==
    ASSUME TypeInv, NEW h \in Handlers, Claim(h) \/ Recheck(h) \/ Resolve(h)
    PROVE /\ Stepped(h) /\ run[h].pc \in {"claiming", "rechecking", "resolving"}
          /\ run'[h].pc # "idle" => /\ run'[h].event = run[h].event
                                    /\ run'[h].locked = run[h].locked
          /\ run'[h].pc \in {"idle", "claiming", "rechecking", "resolving",
                             "touching", "unmatching"}
          /\ run'[h].pc = "claiming" => run'[h].tries < 3
          /\ run'[h].pc = "touching" => provided[MessageOfRun(h)].exists
<1>0. TypeOK /\ run[h].pc # "idle"
  BY DEF TypeInv, Claim, Recheck, Resolve, InPc
<1>1. CASE Claim(h)
  <2>1. CASE Enter(h, "resolving")
    BY <1>0, <1>1, <2>1, EnteredRun DEF Claim, InPc, InTransaction
  <2>2. CASE run' = [run EXCEPT ![h] =
                         [@ EXCEPT !.pc = "rechecking", !.tries = run[h].tries + 1]]
    <3> DEFINE r == [run[h] EXCEPT !.pc = "rechecking", !.tries = run[h].tries + 1]
    <3>1. run[h] \in BusyRun /\ run[h].tries \in 0..3 /\ run[h].tries < 3
      BY <1>0, <1>1, BusyFields DEF TypeInv, ClaimsLeft, Claim, InPc
    <3>2. r \in Runs
      <4>1. run[h].tries + 1 \in 0..3
        BY <3>1
      <4> QED
        BY <3>1, <4>1 DEF Runs, BusyRun
    <3>3. run' = [run EXCEPT ![h] = r]
      BY <1>0, <2>2 DEF TypeOK
    <3>4. Stepped(h) /\ run'[h] = r
      BY <1>0, <3>2, <3>3, SteppedTo
    <3>5. /\ r.pc = "rechecking" /\ r.event = run[h].event
          /\ r.locked = run[h].locked
      BY <3>1 DEF BusyRun
    <3> QED
      BY <1>1, <3>4, <3>5 DEF Claim, InPc
  <2> QED
    BY <1>1, <2>1, <2>2 DEF Claim
<1>2. CASE Recheck(h)
  <2>1. ASSUME Enter(h, "claiming"), run[h].tries < 3
        PROVE /\ Stepped(h) /\ run'[h].event = run[h].event
              /\ run'[h].locked = run[h].locked
              /\ run'[h].pc = "claiming" /\ run'[h].tries < 3
    BY <1>0, <2>1, EnteredRun
  <2>2. ASSUME Enter(h, "resolving")
        PROVE /\ Stepped(h) /\ run'[h].event = run[h].event
              /\ run'[h].locked = run[h].locked /\ run'[h].pc = "resolving"
    BY <1>0, <2>2, EnteredRun DEF InTransaction
  <2>3. ASSUME Leave(h) PROVE Stepped(h) /\ run'[h].pc = "idle"
    BY <1>0, <2>3, LeftRun
  <2> QED
    BY <1>2, <2>1, <2>2, <2>3 DEF Recheck, InPc
<1>3. CASE Resolve(h)
  <2>1. ASSUME NEW p \in {"touching", "unmatching"}, Enter(h, p)
        PROVE /\ Stepped(h) /\ run'[h].event = run[h].event
              /\ run'[h].locked = run[h].locked /\ run'[h].pc = p
    BY <1>0, <2>1, EnteredRun DEF InTransaction
  <2> QED
    BY <1>3, <2>1 DEF Resolve, InPc
<1> QED
  BY <1>1, <1>2, <1>3

LEMMA TouchRuns ==
    ASSUME TypeInv, NEW h \in Handlers, Touch(h)
    PROVE /\ Stepped(h) /\ run[h].pc = "touching" /\ run'[h].pc = "reading"
          /\ run'[h].event = run[h].event
          /\ \/ run'[h].locked = TRUE /\ IsNews(h) /\ ~Locked(MessageOfRun(h))
             \/ run'[h].locked = run[h].locked /\ ~IsNews(h)
<1>0. TypeOK /\ run[h].pc = "touching"
  BY DEF TypeInv, Touch, InPc
<1>1. CASE Enter(h, "reading") /\ ~IsNews(h)
  BY <1>0, <1>1, EnteredRun DEF InTransaction
<1>2. CASE /\ IsNews(h) /\ ~Locked(MessageOfRun(h))
           /\ run' = [run EXCEPT ![h] =
                         [@ EXCEPT !.pc = "reading", !.locked = TRUE]]
  <2> DEFINE r == [run[h] EXCEPT !.pc = "reading", !.locked = TRUE]
  <2>1. run[h] \in BusyRun
    BY <1>0, BusyFields
  <2>2. r \in Runs
    BY <2>1 DEF Runs, BusyRun, InTransaction
  <2>3. Stepped(h) /\ run'[h] = r
    BY <1>0, <1>2, <2>2, SteppedTo
  <2>4. r.pc = "reading" /\ r.event = run[h].event /\ r.locked = TRUE
    BY <2>1 DEF BusyRun
  <2> QED
    BY <1>0, <1>2, <2>3, <2>4
<1> QED
  BY <1>1, <1>2 DEF Touch

LEMMA ReadRuns ==
    ASSUME TypeInv, NEW h \in Handlers, ReadStatus(h)
    PROVE /\ Stepped(h) /\ run[h].pc = "reading" /\ run'[h].pc = "committing"
          /\ run'[h].event = run[h].event /\ run'[h].locked = run[h].locked
<1> DEFINE r == [run[h] EXCEPT !.pc = "committing",
                               !.seen = message[MessageOfRun(h)]]
<1>0. TypeOK /\ run[h].pc = "reading"
  BY DEF TypeInv, ReadStatus, InPc
<1>1. run[h] \in BusyRun /\ message[MessageOfRun(h)] \in Statuses \cup {"none"}
  BY <1>0, BusyFields DEF TypeOK
<1>2. r \in Runs
  BY <1>1 DEF Runs, BusyRun, InTransaction
<1>3. Stepped(h) /\ run'[h] = r
  BY <1>0, <1>2, SteppedTo DEF ReadStatus
<1>4. r.pc = "committing" /\ r.event = run[h].event /\ r.locked = run[h].locked
  BY <1>1 DEF BusyRun
<1> QED
  BY <1>0, <1>3, <1>4

LEMMA FailRuns ==
    ASSUME TypeInv, NEW h \in Handlers, Fail(h)
    PROVE /\ Stepped(h) /\ run[h].pc \in InTransaction /\ run'[h].pc = "failing"
          /\ run'[h].event = run[h].event /\ run'[h].locked = FALSE
<1> DEFINE r == [run[h] EXCEPT !.pc = "failing", !.locked = FALSE]
<1>0. TypeOK /\ run[h].pc \in InTransaction /\ run[h].pc # "idle"
  BY DEF TypeInv, Fail, InTransaction
<1>1. run[h] \in BusyRun
  BY <1>0, BusyFields
<1>2. r \in Runs
  BY <1>1 DEF Runs, BusyRun
<1>3. Stepped(h) /\ run'[h] = r
  BY <1>0, <1>2, SteppedTo DEF Fail
<1>4. r.pc = "failing" /\ r.event = run[h].event /\ r.locked = FALSE
  BY <1>1 DEF BusyRun
<1> QED
  BY <1>0, <1>3, <1>4

LEMMA EndRuns ==
    ASSUME TypeInv, NEW h \in Handlers,
           MarkUnmatched(h) \/ Commit(h) \/ MarkFailed(h) \/ RunStops(h)
    PROVE Stepped(h) /\ run[h].pc # "idle" /\ run'[h].pc = "idle"
<1>1. Leave(h) /\ TypeOK /\ run[h].pc # "idle"
  BY DEF MarkUnmatched, Commit, MarkFailed, RunStops, TypeInv, InPc
<1> QED
  BY <1>1, LeftRun

\* An execution begins.
LEMMA StartRuns ==
    ASSUME TypeInv, NEW h \in Handlers, NEW e \in Events,
           Ingest(h, e) \/ Reprocess(h, e)
    PROVE \/ run' = run /\ stored' = stored
          \/ /\ Stepped(h) /\ run[h].pc = "idle" /\ run'[h].event = e
             /\ run'[h].tries = 0 /\ run'[h].locked = FALSE
             /\ \/ run'[h].pc = "claiming" /\ stored' = stored
                \/ /\ run'[h].pc = "resolving" /\ stored[e] = "none"
                   /\ stored' = [stored EXCEPT ![e] = "persisted"]
<1>0. TypeOK
  BY DEF TypeInv
<1>1. CASE Start(h, "resolving", e, "ingest") \/ Start(h, "claiming", e, "ingest")
  BY <1>0, <1>1, StartedRun DEF Ingest, Reprocess, InPc, tables
<1>2. CASE Start(h, "claiming", e, "reprocess")
  BY <1>0, <1>2, StartedRun DEF Ingest, Reprocess, InPc, tables
<1> QED
  BY <1>1, <1>2 DEF Ingest, Reprocess

-----------------------------------------------------------------------------
\* Types.

LEMMA StatusTypes ==
    ASSUME NEW c, NEW s \in Statuses \cup {"none"}, NEW k \in Kinds
    PROVE /\ NextStatus(c, s) \in Statuses \cup {"none"}
          /\ StatusFor(k) \in Statuses \cup {"none"}
<1>1. NextStatus(c, s) \in Statuses \cup {"none"}
  BY DEF NextStatus, Statuses
<1>2. StatusFor(k) \in Statuses \cup {"none"}
  BY DEF StatusFor, Kinds, Statuses
<1> QED
  BY <1>1, <1>2

LEMMA RunStatus ==
    ASSUME TypeOK, NEW h \in Handlers, run[h].pc # "idle"
    PROVE StatusOfRun(h) \in Statuses \cup {"none"}
<1>1. KindOf[run[h].event] \in Kinds
  BY BusyFields, TrackingAssumption
<1>2. StatusFor(KindOf[run[h].event]) \in Statuses \cup {"none"}
  BY <1>1, StatusTypes
<1> QED
  BY <1>1, <1>2, StatusTypes DEF StatusOfRun

\* A step changes the record of one execution at most.
LEMMA RunSteps ==
    ASSUME TypeInv, [Next]_vars
    PROVE \/ run' = run
          \/ \E h \in Handlers :
                Stepped(h) /\ (run'[h].pc = "claiming" => run'[h].tries < 3)
<1>1. CASE UNCHANGED vars
  BY <1>1 DEF vars
<1>2. ASSUME NEW m \in Messages, SenderStep(m) \/ SenderStops(m)
      PROVE run' = run
  BY <1>2 DEF SenderStep, SenderStops, CreateMessage, SendAnswered, SendThrows,
              CreateProviderMessage, ReadToMark, WriteMark
<1>3. ASSUME NEW h \in Handlers, HandlerStep(h) \/ Fail(h) \/ RunStops(h)
      PROVE Stepped(h) /\ (run'[h].pc = "claiming" => run'[h].tries < 3)
  <2>1. CASE Claim(h) \/ Recheck(h) \/ Resolve(h)
    BY <2>1, ClaimRuns
  <2>2. CASE MarkUnmatched(h) \/ Commit(h) \/ MarkFailed(h) \/ RunStops(h)
    BY <2>2, EndRuns
  <2>3. CASE Touch(h)
    BY <2>3, TouchRuns
  <2>4. CASE ReadStatus(h)
    BY <2>4, ReadRuns
  <2>5. CASE Fail(h)
    BY <2>5, FailRuns
  <2> QED
    BY <1>3, <2>1, <2>2, <2>3, <2>4, <2>5 DEF HandlerStep
<1>4. ASSUME NEW h \in Handlers, NEW e \in Events, Ingest(h, e) \/ Reprocess(h, e)
      PROVE run' = run \/ (Stepped(h) /\ (run'[h].pc = "claiming" => run'[h].tries < 3))
  <2>1. run' = run \/ (Stepped(h) /\ run'[h].tries = 0)
    BY <1>4, StartRuns
  <2> QED
    BY <2>1
<1> QED
  BY <1>1, <1>2, <1>3, <1>4 DEF Next

\* The rows change as their columns allow.
LEMMA RowSteps ==
    ASSUME TypeOK, [Next]_vars
    PROVE /\ message' \in [Messages -> Statuses \cup {"none"}]
          /\ provided' \in [Messages -> ProviderRow]
          /\ stored' \in [Events -> Retryable \cup {"none", "received", "applied"}]
          /\ receipts' \subseteq Events /\ abandoned' \subseteq Events
<1> DEFINE Goal == /\ message' \in [Messages -> Statuses \cup {"none"}]
                   /\ provided' \in [Messages -> ProviderRow]
                   /\ stored' \in [Events -> Retryable \cup {"none", "received", "applied"}]
                   /\ receipts' \subseteq Events /\ abandoned' \subseteq Events
<1>1. CASE UNCHANGED <<tables, history>>
  BY <1>1 DEF TypeOK, tables, history
<1>2. ASSUME NEW m \in Messages, SenderStep(m) \/ SenderStops(m) PROVE Goal
  <2>1. CASE SendAnswered(m) \/ SendThrows(m) \/ ReadToMark(m) \/ SenderStops(m)
    BY <1>1, <2>1 DEF SendAnswered, SendThrows, ReadToMark, SenderStops
  <2>2. CASE CreateMessage(m)
    BY <2>2 DEF CreateMessage, TypeOK, history, Statuses
  <2>3. CASE CreateProviderMessage(m)
    <3>1. [exists |-> TRUE, last |-> 0, status |-> sender[m].outcome] \in ProviderRow
      BY DEF TypeOK, SenderState, ProviderRow
    <3> QED
      BY <2>3, <3>1 DEF CreateProviderMessage, TypeOK, history
  <2>4. CASE WriteMark(m)
    <3>1. NextStatus(sender[m].seen, sender[m].outcome) \in Statuses \cup {"none"}
      <4>1. sender[m].outcome \in Statuses \cup {"none"}
        BY DEF TypeOK, SenderState, Outcomes, Statuses
      <4> QED
        BY <4>1, StatusTypes DEF Kinds
    <3> QED
      BY <2>4, <3>1 DEF WriteMark, TypeOK, history
  <2> QED
    BY <1>2, <2>1, <2>2, <2>3, <2>4 DEF SenderStep
<1>3. ASSUME NEW h \in Handlers, HandlerStep(h) \/ Fail(h) \/ RunStops(h) PROVE Goal
  <2>1. CASE Recheck(h) \/ Resolve(h) \/ Touch(h) \/ ReadStatus(h) \/ Fail(h)
    BY <1>1, <2>1 DEF Recheck, Resolve, Touch, ReadStatus, Fail
  <2>2. CASE Claim(h) \/ MarkUnmatched(h) \/ MarkFailed(h)
    BY <2>2 DEF Claim, MarkUnmatched, MarkFailed, StoreRun, TypeOK, history, Retryable
  <2>3. CASE RunStops(h)
    <3>1. run[h].event \in Events
      BY <2>3, BusyFields DEF RunStops, InPc
    <3> QED
      BY <2>3, <3>1 DEF RunStops, TypeOK, tables
  <2>4. CASE Commit(h)
    <3>1. run[h].pc # "idle"
      BY <2>4 DEF Commit, InPc
    <3>2. run[h].event \in Events /\ StatusOfRun(h) \in Statuses \cup {"none"}
      BY <3>1, BusyFields, RunStatus
    <3>3. [exists |-> TRUE, last |-> OccurredAt[run[h].event],
           status |-> KindOf[run[h].event]] \in ProviderRow
      BY <3>2, TrackingAssumption DEF ProviderRow
    <3>4. /\ message' \in [Messages -> Statuses \cup {"none"}]
          /\ provided' \in [Messages -> ProviderRow]
      BY <2>4, <3>2, <3>3 DEF Commit, WriteTables, TypeOK
    <3> QED
      BY <2>4, <3>2, <3>4 DEF Commit, StoreRun, TypeOK
  <2> QED
    BY <1>3, <2>1, <2>2, <2>3, <2>4 DEF HandlerStep
<1>4. ASSUME NEW h \in Handlers, NEW e \in Events, Ingest(h, e) \/ Reprocess(h, e)
      PROVE Goal
  BY <1>4 DEF Ingest, Reprocess, TypeOK, tables, history, Retryable
<1> QED
  BY <1>1, <1>2, <1>3, <1>4 DEF Next, vars

\* The sender moves along its program.
LEMMA SenderSteps ==
    ASSUME TypeOK, [Next]_vars
    PROVE sender' \in [Messages -> SenderState] /\ taken' \subseteq Messages
<1> DEFINE Goal == sender' \in [Messages -> SenderState] /\ taken' \subseteq Messages
<1>1. CASE UNCHANGED sending
  BY <1>1 DEF TypeOK, sending
<1>2. ASSUME NEW m \in Messages, SenderStep(m) \/ SenderStops(m) PROVE Goal
  <2>0. sender[m] \in SenderState /\ message[m] \in Statuses \cup {"none"}
    BY DEF TypeOK
  <2>1. ASSUME NEW p \in {"sending", "marking", "done"}, GoTo(m, p)
        PROVE sender' \in [Messages -> SenderState]
    <3>1. [sender[m] EXCEPT !.pc = p] \in SenderState
      BY <2>0 DEF SenderState
    <3> QED
      BY <2>1, <3>1 DEF GoTo, TypeOK
  <2>2. CASE CreateMessage(m) \/ CreateProviderMessage(m) \/ WriteMark(m) \/ SenderStops(m)
    BY <2>1, <2>2 DEF CreateMessage, CreateProviderMessage, WriteMark, SenderStops, TypeOK
  <2>3. ASSUME NEW o \in Outcomes, NEW p \in {"tracking", "marking"}
        PROVE [sender[m] EXCEPT !.pc = p, !.outcome = o] \in SenderState
    BY <2>0 DEF SenderState
  <2>4. CASE SendAnswered(m)
    BY <2>3, <2>4, ZenonT(30) DEF SendAnswered, TypeOK
  <2>5. CASE SendThrows(m)
    <3>1. "failed" \in Outcomes
      BY DEF Outcomes
    <3> QED
      BY <2>3, <2>5, <3>1 DEF SendThrows, TypeOK
  <2>6. CASE ReadToMark(m)
    <3>1. ASSUME NEW p \in {"done", "writing"}
          PROVE [sender[m] EXCEPT !.seen = message[m], !.pc = p] \in SenderState
      BY <2>0 DEF SenderState
    <3> QED
      BY <2>6, <3>1 DEF ReadToMark, TypeOK
  <2> QED
    BY <1>2, <2>2, <2>4, <2>5, <2>6 DEF SenderStep
<1>3. ASSUME NEW h \in Handlers,
             \/ HandlerStep(h) \/ Fail(h) \/ RunStops(h)
             \/ \E e \in Events : Ingest(h, e) \/ Reprocess(h, e)
      PROVE UNCHANGED sending
  BY <1>3 DEF HandlerStep, Claim, Recheck, Resolve, MarkUnmatched, Touch, ReadStatus,
         Commit, MarkFailed, Fail, RunStops, Ingest, Reprocess, sending
<1> QED
  BY <1>1, <1>2, <1>3 DEF Next, vars, sending

LEMMA BoundSteps ==
    ASSUME TypeOK, [Next]_vars
    PROVE /\ deliveries' \in 0..MaxDeliveries /\ reprocesses' \in 0..MaxReprocesses
          /\ faults' \in 0..MaxFaults /\ crashes' \in 0..MaxCrashes
<1>1. /\ deliveries' = deliveries \/ (deliveries < MaxDeliveries /\ deliveries' = deliveries + 1)
      /\ reprocesses' = reprocesses
           \/ (reprocesses < MaxReprocesses /\ reprocesses' = reprocesses + 1)
      /\ faults' = faults \/ (faults < MaxFaults /\ faults' = faults + 1)
      /\ crashes' = crashes \/ (crashes < MaxCrashes /\ crashes' = crashes + 1)
  BY DEF Next, vars, bounds, SenderStep, SenderStops, CreateMessage, SendAnswered,
         SendThrows, CreateProviderMessage, ReadToMark, WriteMark, HandlerStep, Claim,
         Recheck, Resolve, MarkUnmatched, Touch, ReadStatus, Commit, MarkFailed, Fail,
         RunStops, Ingest, Reprocess
<1> QED
  BY <1>1, TrackingAssumption DEF TypeOK

LEMMA TypePreserved ==
    ASSUME TypeInv, [Next]_vars PROVE TypeInv'
<1>1. TypeOK
  BY DEF TypeInv
<1>2. run' \in [Handlers -> Runs] /\ ClaimsLeft'
  <2>1. CASE run' = run
    BY <2>1 DEF TypeInv, TypeOK, ClaimsLeft, Runs
  <2>2. ASSUME NEW h \in Handlers, Stepped(h),
               run'[h].pc = "claiming" => run'[h].tries < 3
        PROVE run' \in [Handlers -> Runs] /\ ClaimsLeft'
    BY <2>2 DEF TypeInv, ClaimsLeft, Stepped
  <2> QED
    BY <2>1, <2>2, RunSteps
<1> QED
  BY <1>1, <1>2, RowSteps, SenderSteps, BoundSteps DEF TypeInv, TypeOK, Runs

LEMMA TypeInitial == Init => TypeInv
BY TrackingAssumption
   DEF Init, TypeInv, TypeOK, ClaimsLeft, NoRow, ProviderRow, SenderState, Outcomes,
       IdleRun

LEMMA TypeInvariant == Spec => []TypeInv
<1>1. TypeInv /\ [Next]_vars => TypeInv'
  BY TypePreserved
<1> QED
  BY <1>1, TypeInitial, PTL DEF Spec

\* The rows, the executions and the counters stay in their domains.
THEOREM TypeCorrect == Spec => []TypeOK
BY TypeInvariant, PTL DEF TypeInv

-----------------------------------------------------------------------------
\* The provider rows and their locks.

\* Before its provider row is written, an e-mail has no receipts.
RowInv ==
    \A m \in Messages :
        /\ sender[m].pc = "idle" => message[m] = "none"
        /\ sender[m].pc \in {"idle", "sending", "tracking"} => ~provided[m].exists
        /\ ~provided[m].exists => provided[m].last = 0 /\ ReceiptsOf(m) = {}

\* Past touchWebhookReceipt, an execution holds the lock if its event is still
\* the newest, and knows an older one if it does not.
LockOk(h) ==
    run[h].pc # "idle" =>
        /\ run[h].locked => run[h].pc \in {"reading", "committing"} /\ IsNews(h)
        /\ run[h].pc \in {"reading", "committing"} /\ ~run[h].locked => ~IsNews(h)
        /\ run[h].pc \in {"touching", "reading", "committing"} =>
              provided[MessageOfRun(h)].exists

Holds(h) == run[h].pc # "idle" /\ run[h].locked

LocksDiffer ==
    \A g, h \in Handlers : g # h /\ Holds(g) /\ Holds(h) => MessageOfRun(g) # MessageOfRun(h)

LockInv == (\A h \in Handlers : LockOk(h)) /\ LocksDiffer

TrackInv == TypeInv /\ RowInv /\ LockInv /\ ReceiptIsNewest

\* The provider rows and the receipts change in two steps only.
LEMMA ReceiptSteps ==
    ASSUME [Next]_vars
    PROVE \/ UNCHANGED <<provided, receipts>>
          \/ \E m \in Messages : CreateProviderMessage(m)
          \/ \E h \in Handlers : Commit(h)
<1>1. ASSUME NEW m \in Messages, SenderStep(m) \/ SenderStops(m)
      PROVE UNCHANGED <<provided, receipts>> \/ CreateProviderMessage(m)
  BY <1>1 DEF SenderStep, SenderStops, CreateMessage, SendAnswered, SendThrows,
         ReadToMark, WriteMark, tables, history
<1>2. ASSUME NEW h \in Handlers, HandlerStep(h) \/ Fail(h) \/ RunStops(h)
      PROVE UNCHANGED <<provided, receipts>> \/ Commit(h)
  BY <1>2 DEF HandlerStep, Claim, Recheck, Resolve, MarkUnmatched, Touch, ReadStatus,
         MarkFailed, Fail, RunStops, tables, history
<1>3. ASSUME NEW h \in Handlers, NEW e \in Events, Ingest(h, e) \/ Reprocess(h, e)
      PROVE UNCHANGED <<provided, receipts>>
  BY <1>3 DEF Ingest, Reprocess, tables, history
<1> QED
  BY <1>1, <1>2, <1>3 DEF Next, vars, tables, history

\* A commit writes the receipt of its event if it holds the lock.
LEMMA CommitRows ==
    ASSUME TrackInv, NEW h \in Handlers, Commit(h)
    PROVE LET m == MessageOfRun(h)
              e == run[h].event
          IN  /\ run[h].pc = "committing" /\ m \in Messages /\ e \in Events
              /\ MessageOf[e] = m /\ provided[m].exists
              /\ provided[m].last \in Nat /\ OccurredAt[e] \in Nat \ {0}
              /\ receipts' = receipts \cup {e}
              /\ \A n \in Messages : n # m => provided'[n] = provided[n]
              /\ provided'[m].exists /\ provided'[m].last \in Nat
              /\ provided[m].last <= provided'[m].last
              /\ \/ /\ run[h].locked /\ provided[m].last <= OccurredAt[e]
                    /\ provided'[m] = [exists |-> TRUE, last |-> OccurredAt[e],
                                       status |-> KindOf[e]]
                 \/ /\ ~run[h].locked /\ OccurredAt[e] < provided[m].last
                    /\ provided' = provided
<1> DEFINE m == MessageOfRun(h)
           e == run[h].event
<1>1. TypeOK /\ run[h].pc = "committing" /\ LockOk(h)
  BY DEF TrackInv, TypeInv, LockInv, Commit, InPc
<1>2. m \in Messages /\ e \in Events /\ MessageOf[e] = m /\ run[h].locked \in BOOLEAN
  BY <1>1, BusyFields DEF MessageOfRun
<1>3. provided[m].last \in Nat /\ OccurredAt[e] \in Nat \ {0}
  BY <1>1, <1>2, TrackingAssumption DEF TypeOK, ProviderRow
<1>4. provided[m].exists /\ (run[h].locked => IsNews(h)) /\ (~run[h].locked => ~IsNews(h))
  BY <1>1 DEF LockOk
<1>5. receipts' = receipts \cup {e} /\ WriteTables(h)
  BY DEF Commit
<1>6. CASE run[h].locked
  <2>1. provided[m].last <= OccurredAt[e]
    BY <1>4, <1>6 DEF IsNews
  <2>2. /\ provided'[m] = [exists |-> TRUE, last |-> OccurredAt[e], status |-> KindOf[e]]
        /\ \A n \in Messages : n # m => provided'[n] = provided[n]
    BY <1>1, <1>2, <1>5, <1>6 DEF WriteTables, TypeOK
  <2>3. provided'[m].exists /\ provided'[m].last = OccurredAt[e]
    BY <2>2
  <2> QED
    BY <1>1, <1>2, <1>3, <1>4, <1>5, <1>6, <2>1, <2>2, <2>3
<1>7. CASE ~run[h].locked
  BY <1>1, <1>2, <1>3, <1>4, <1>5, <1>7 DEF WriteTables, IsNews
<1> QED
  BY <1>1, <1>2, <1>3, <1>4, <1>5, <1>6, <1>7

LEMMA NewestPreserved ==
    ASSUME TrackInv, [Next]_vars PROVE ReceiptIsNewest'
<1> SUFFICES ASSUME NEW m \in Messages
             PROVE /\ ReceiptsOf(m)' = {} => provided'[m].last = 0
                   /\ ReceiptsOf(m)' # {} => \E e \in ReceiptsOf(m)' :
                         /\ provided'[m].exists
                         /\ provided'[m].last = OccurredAt[e]
                         /\ provided'[m].status = KindOf[e]
                         /\ \A d \in ReceiptsOf(m)' : OccurredAt[d] <= OccurredAt[e]
  BY DEF ReceiptIsNewest
<1>0. TypeOK /\ RowInv /\ ReceiptIsNewest /\ receipts \subseteq Events
  BY DEF TrackInv, TypeInv, TypeOK
<1>1. CASE UNCHANGED <<provided, receipts>>
  BY <1>0, <1>1 DEF ReceiptIsNewest, ReceiptsOf
<1>2. ASSUME NEW n \in Messages, CreateProviderMessage(n)
      PROVE /\ ReceiptsOf(m)' = ReceiptsOf(m)
            /\ n = m => ReceiptsOf(m) = {} /\ provided'[m].last = 0
            /\ n # m => provided'[m] = provided[m]
  <2>1. receipts' = receipts /\ ~provided[n].exists
    BY <1>0, <1>2 DEF CreateProviderMessage, history, RowInv, At
  <2> QED
    BY <1>0, <1>2, <2>1 DEF CreateProviderMessage, RowInv, ReceiptsOf, TypeOK
<1>3. ASSUME NEW n \in Messages, CreateProviderMessage(n)
      PROVE /\ ReceiptsOf(m)' = {} => provided'[m].last = 0
            /\ ReceiptsOf(m)' # {} => \E e \in ReceiptsOf(m)' :
                  /\ provided'[m].exists
                  /\ provided'[m].last = OccurredAt[e]
                  /\ provided'[m].status = KindOf[e]
                  /\ \A d \in ReceiptsOf(m)' : OccurredAt[d] <= OccurredAt[e]
  BY <1>0, <1>2, <1>3 DEF ReceiptIsNewest
<1>4. ASSUME NEW h \in Handlers, Commit(h)
      PROVE /\ ReceiptsOf(m)' = {} => provided'[m].last = 0
            /\ ReceiptsOf(m)' # {} => \E e \in ReceiptsOf(m)' :
                  /\ provided'[m].exists
                  /\ provided'[m].last = OccurredAt[e]
                  /\ provided'[m].status = KindOf[e]
                  /\ \A d \in ReceiptsOf(m)' : OccurredAt[d] <= OccurredAt[e]
  <2> DEFINE c == run[h].event
  <2>1. c \in Events /\ MessageOf[c] = MessageOfRun(h) /\ receipts' = receipts \cup {c}
    BY <1>4, CommitRows
  <2>2. CASE m # MessageOfRun(h)
    <3>1. ReceiptsOf(m)' = ReceiptsOf(m) /\ provided'[m] = provided[m]
      BY <1>4, <2>1, <2>2, CommitRows DEF ReceiptsOf
    <3> QED
      BY <1>0, <3>1 DEF ReceiptIsNewest
  <2>3. CASE m = MessageOfRun(h)
    <3>0. ReceiptsOf(m)' = ReceiptsOf(m) \cup {c}
      BY <2>1, <2>3 DEF ReceiptsOf
    <3>1. \A d \in Events : OccurredAt[d] \in Nat
      BY TrackingAssumption
    <3>2. ReceiptsOf(m) \subseteq Events /\ provided[m].last \in Nat
      BY <1>0 DEF ReceiptsOf, TypeOK, ProviderRow
    <3>3. ASSUME NEW d \in ReceiptsOf(m) PROVE OccurredAt[d] <= provided[m].last
      BY <1>0, <3>3 DEF ReceiptIsNewest
    <3>4. CASE /\ run[h].locked /\ provided[m].last <= OccurredAt[c]
               /\ provided'[m] = [exists |-> TRUE, last |-> OccurredAt[c],
                                  status |-> KindOf[c]]
      <4>1. ASSUME NEW d \in ReceiptsOf(m)' PROVE OccurredAt[d] <= OccurredAt[c]
        <5>1. CASE d = c
          BY <2>1, <3>1, <5>1
        <5>2. CASE d \in ReceiptsOf(m)
          BY <2>1, <3>1, <3>2, <3>3, <3>4, <5>2
        <5> QED
          BY <3>0, <4>1, <5>1, <5>2
      <4>2. c \in ReceiptsOf(m)'
        BY <3>0
      <4> QED
        BY <3>4, <4>1, <4>2
    <3>5. CASE OccurredAt[c] < provided[m].last /\ provided' = provided
      <4>1. ReceiptsOf(m) # {}
        BY <1>0, <2>1, <3>1, <3>2, <3>5 DEF ReceiptIsNewest
      <4>2. PICK e \in ReceiptsOf(m) : /\ provided[m].exists
                                       /\ provided[m].last = OccurredAt[e]
                                       /\ provided[m].status = KindOf[e]
        BY <1>0, <4>1 DEF ReceiptIsNewest
      <4>3. ASSUME NEW d \in ReceiptsOf(m)' PROVE OccurredAt[d] <= OccurredAt[e]
        <5>1. CASE d = c
          BY <2>1, <3>1, <3>2, <3>5, <4>2, <5>1
        <5>2. CASE d \in ReceiptsOf(m)
          BY <3>3, <4>2, <5>2
        <5> QED
          BY <3>0, <4>3, <5>1, <5>2
      <4> QED
        BY <3>0, <3>5, <4>2, <4>3
    <3> QED
      BY <1>4, <2>3, <3>4, <3>5, CommitRows
  <2> QED
    BY <2>2, <2>3
<1> QED
  BY <1>1, <1>3, <1>4, ReceiptSteps

LEMMA RowsPreserved ==
    ASSUME TrackInv, [Next]_vars PROVE RowInv'
<1>0. TypeOK /\ RowInv
  BY DEF TrackInv, TypeInv
<1>1. CASE UNCHANGED <<message, provided, sender, receipts>>
  BY <1>0, <1>1 DEF RowInv, ReceiptsOf
<1>2. ASSUME NEW m \in Messages, SenderStep(m) \/ SenderStops(m) PROVE RowInv'
  <2>0. \A n \in Messages : ReceiptsOf(n)' = ReceiptsOf(n)
    BY <1>2 DEF SenderStep, SenderStops, CreateMessage, SendAnswered, SendThrows,
           CreateProviderMessage, ReadToMark, WriteMark, ReceiptsOf, history
  <2>1. /\ \A n \in Messages : n # m => /\ sender'[n] = sender[n]
                                        /\ message'[n] = message[n]
                                        /\ provided'[n] = provided[n]
        /\ sender'[m].pc # "idle"
        /\ sender'[m].pc \in {"sending", "tracking"} =>
              sender[m].pc \in {"idle", "sending"} /\ provided' = provided
        /\ ~provided'[m].exists => provided' = provided
    <3>0. sender[m] \in SenderState
      BY <1>0 DEF TypeOK
    <3>1. ASSUME NEW p, GoTo(m, p) PROVE /\ sender'[m].pc = p
                                         /\ \A n \in Messages : n # m => sender'[n] = sender[n]
      BY <1>0, <3>0, <3>1 DEF GoTo, TypeOK, SenderState
    <3>2. ASSUME CreateMessage(m) \/ CreateProviderMessage(m) PROVE <2>1!:
      BY <1>0, <3>1, <3>2 DEF CreateMessage, CreateProviderMessage, At, TypeOK
    <3>3. ASSUME WriteMark(m) \/ SenderStops(m) PROVE <2>1!:
      BY <1>0, <3>1, <3>3 DEF WriteMark, SenderStops, TypeOK, tables
    <3>4. ASSUME SendAnswered(m) \/ SendThrows(m) PROVE <2>1!:
      <4>1. /\ sender[m].pc = "sending" /\ sender'[m].pc \in {"tracking", "marking"}
            /\ \A n \in Messages : n # m => sender'[n] = sender[n]
        <5>1. ASSUME NEW o \in Outcomes, NEW p \in {"tracking", "marking"},
                     sender' = [sender EXCEPT ![m] =
                                   [@ EXCEPT !.pc = p, !.outcome = o]]
              PROVE /\ sender'[m].pc = p
                    /\ \A n \in Messages : n # m => sender'[n] = sender[n]
          BY <1>0, <3>0, <5>1 DEF TypeOK, SenderState
        <5>2. CASE SendAnswered(m)
          BY <5>1, <5>2 DEF SendAnswered, At
        <5>3. CASE SendThrows(m)
          <6>1. "failed" \in Outcomes
            BY DEF Outcomes
          <6> QED
            BY <5>1, <5>3, <6>1 DEF SendThrows, At
        <5> QED
          BY <3>4, <5>2, <5>3
      <4>2. message' = message /\ provided' = provided
        BY <3>4 DEF SendAnswered, SendThrows, tables
      <4> QED
        BY <4>1, <4>2
    <3>5. ASSUME ReadToMark(m) PROVE <2>1!:
      <4>1. /\ sender'[m].pc \in {"done", "writing"}
            /\ \A n \in Messages : n # m => sender'[n] = sender[n]
        BY <1>0, <3>0, <3>5 DEF ReadToMark, TypeOK, SenderState
      <4> QED
        BY <3>5, <4>1 DEF ReadToMark, tables
    <3> QED
      BY <1>2, <3>2, <3>3, <3>4, <3>5 DEF SenderStep
  <2> QED
    BY <1>0, <2>0, <2>1 DEF RowInv
<1>3. ASSUME NEW h \in Handlers, HandlerStep(h) \/ Fail(h) \/ RunStops(h) PROVE RowInv'
  <2>1. CASE Commit(h)
    <3> DEFINE m == MessageOfRun(h)
    <3>1. /\ m \in Messages /\ MessageOf[run[h].event] = m
          /\ receipts' = receipts \cup {run[h].event}
          /\ \A n \in Messages : n # m => provided'[n] = provided[n]
          /\ provided[m].exists /\ provided'[m].exists
      BY <2>1, CommitRows
    <3>2. sender' = sender /\ \A n \in Messages : n # m => message'[n] = message[n]
      BY <1>0, <2>1 DEF Commit, WriteTables, TypeOK, sending
    <3>3. \A n \in Messages : n # m => ReceiptsOf(n)' = ReceiptsOf(n)
      BY <3>1 DEF ReceiptsOf
    <3> QED
      BY <1>0, <3>1, <3>2, <3>3 DEF RowInv
  <2>2. CASE ~Commit(h)
    BY <1>1, <1>3, <2>2 DEF HandlerStep, Claim, Recheck, Resolve, MarkUnmatched, Touch,
       ReadStatus, MarkFailed, Fail, RunStops, tables, history, sending
  <2> QED
    BY <2>1, <2>2
<1>4. ASSUME NEW h \in Handlers, NEW e \in Events, Ingest(h, e) \/ Reprocess(h, e)
      PROVE RowInv'
  BY <1>1, <1>4 DEF Ingest, Reprocess, tables, history, sending
<1>5. CASE UNCHANGED vars
  BY <1>1, <1>5 DEF vars, tables, history
<1> QED
  BY <1>2, <1>3, <1>4, <1>5 DEF Next

\* An execution that does not run keeps its lock, or its knowledge of an older
\* event, while another commits.
LEMMA OthersLocks ==
    ASSUME TrackInv, [Next]_vars, NEW g \in Handlers, run'[g] = run[g],
           ~\E h \in Handlers : h = g /\ Commit(h)
    PROVE LockOk(g)'
<1>0. TypeOK /\ LockOk(g) /\ LocksDiffer /\ RowInv
  BY DEF TrackInv, TypeInv, LockInv
<1>1. CASE run[g].pc = "idle"
  BY <1>1 DEF LockOk
<1>2. CASE run[g].pc # "idle"
  <2> DEFINE m == MessageOfRun(g)
  <2>0. /\ run[g].event \in Events /\ m \in Messages /\ MessageOfRun(g)' = m
        /\ run[g].locked \in BOOLEAN
    BY <1>0, <1>2, BusyFields DEF MessageOfRun
  <2>1. CASE provided'[m] = provided[m]
    BY <1>0, <1>2, <2>0, <2>1 DEF LockOk, IsNews
  <2>2. ASSUME NEW n \in Messages, CreateProviderMessage(n) PROVE LockOk(g)'
    <3>1. ~provided[n].exists /\ (n # m => provided'[m] = provided[m])
      BY <1>0, <2>2 DEF CreateProviderMessage, RowInv, At, TypeOK
    <3>2. n = m => run[g].pc \notin {"touching", "reading", "committing"}
      BY <1>0, <1>2, <3>1 DEF LockOk
    <3>3. n = m => ~run[g].locked
      BY <1>0, <1>2, <3>2 DEF LockOk
    <3> QED
      BY <1>2, <2>0, <2>1, <3>1, <3>2, <3>3 DEF LockOk
  <2>3. ASSUME NEW h \in Handlers, Commit(h) PROVE LockOk(g)'
    <3>1. h # g
      BY <2>3
    <3>2. CASE MessageOfRun(h) # m
      BY <2>0, <2>1, <2>3, <3>2, CommitRows
    <3>3. CASE MessageOfRun(h) = m
      <4>1. run[h].pc # "idle" /\ provided'[m].exists
        BY <2>3, <3>3, CommitRows
      <4>2. CASE run[h].locked
        <5>1. ~run[g].locked
          BY <1>0, <1>2, <3>1, <3>3, <4>1, <4>2 DEF LocksDiffer, Holds
        <5>2. provided'[m].last \in Nat /\ provided[m].last \in Nat
              /\ provided[m].last <= provided'[m].last
          BY <2>3, <3>3, <4>2, CommitRows
        <5>3. OccurredAt[run[g].event] \in Nat
          BY <2>0, TrackingAssumption
        <5>4. ~IsNews(g) => ~IsNews(g)'
          BY <2>0, <5>2, <5>3 DEF IsNews
        <5> QED
          BY <1>0, <1>2, <2>0, <4>1, <5>1, <5>4 DEF LockOk
      <4>3. CASE ~run[h].locked
        BY <2>1, <2>3, <3>3, <4>3, CommitRows
      <4> QED
        BY <4>2, <4>3
    <3> QED
      BY <3>2, <3>3
  <2> QED
    BY <2>1, <2>2, <2>3, ReceiptSteps
<1> QED
  BY <1>1, <1>2

\* The execution that runs, unless it starts or commits.
LEMMA OwnLock ==
    ASSUME TrackInv, NEW h \in Handlers,
           HandlerStep(h) \/ Fail(h) \/ RunStops(h)
    PROVE /\ LockOk(h)'
          /\ Stepped(h) /\ run[h].pc # "idle"
          /\ Holds(h)' => /\ run'[h].event = run[h].event
                          /\ run[h].locked \/ ~Locked(MessageOfRun(h))
<1>0. TypeOK /\ TypeInv /\ LockOk(h)
  BY DEF TrackInv, TypeInv, LockInv
<1>1. CASE Claim(h) \/ Recheck(h) \/ Resolve(h)
  <2>1. UNCHANGED provided
    BY <1>1 DEF Claim, Recheck, Resolve, tables
  <2>2. run[h].pc \in {"claiming", "rechecking", "resolving"} /\ ~run[h].locked
    BY <1>0, <1>1, ClaimRuns DEF LockOk
  <2>3. run'[h].pc # "idle" => ~run'[h].locked /\ MessageOfRun(h)' = MessageOfRun(h)
    BY <1>0, <1>1, <2>2, ClaimRuns DEF MessageOfRun
  <2>4. run'[h].pc = "touching" => provided[MessageOfRun(h)].exists
    BY <1>0, <1>1, ClaimRuns
  <2> QED
    BY <1>0, <1>1, <2>1, <2>2, <2>3, <2>4, ClaimRuns DEF LockOk, Holds
<1>2. CASE MarkUnmatched(h) \/ Commit(h) \/ MarkFailed(h) \/ RunStops(h)
  BY <1>0, <1>2, EndRuns DEF LockOk, Holds
<1>3. CASE Touch(h)
  <2>1. UNCHANGED provided /\ MessageOfRun(h)' = MessageOfRun(h) /\ IsNews(h)' = IsNews(h)
    BY <1>0, <1>3, TouchRuns DEF Touch, tables, MessageOfRun, IsNews
  <2>2. provided[MessageOfRun(h)].exists /\ ~run[h].locked
    BY <1>0, <1>3, TouchRuns DEF LockOk
  <2> QED
    BY <1>0, <1>3, <2>1, <2>2, TouchRuns DEF LockOk, Holds
<1>4. CASE ReadStatus(h)
  <2>1. UNCHANGED provided /\ MessageOfRun(h)' = MessageOfRun(h) /\ IsNews(h)' = IsNews(h)
    BY <1>0, <1>4, ReadRuns DEF ReadStatus, tables, MessageOfRun, IsNews
  <2> QED
    BY <1>0, <1>4, <2>1, ReadRuns DEF LockOk, Holds
<1>5. CASE Fail(h)
  BY <1>0, <1>5, FailRuns DEF LockOk, Holds, InTransaction
<1> QED
  BY <1>1, <1>2, <1>3, <1>4, <1>5 DEF HandlerStep

LEMMA LocksPreserved ==
    ASSUME TrackInv, [Next]_vars PROVE LockInv'
<1>0. TypeInv /\ TypeOK /\ LockInv
  BY DEF TrackInv, TypeInv
<1>1. CASE run' = run /\ ~\E h \in Handlers : Commit(h)
  <2>1. \A h \in Handlers : LockOk(h)'
    BY <1>1, OthersLocks
  <2>2. LocksDiffer'
    BY <1>0, <1>1 DEF LockInv, LocksDiffer, Holds, MessageOfRun
  <2> QED
    BY <2>1, <2>2 DEF LockInv
<1>2. ASSUME NEW h \in Handlers, Stepped(h), LockOk(h)',
             \A g \in Handlers : g # h => ~Commit(g),
             Holds(h)' => /\ run[h].pc # "idle" /\ run'[h].event = run[h].event
                          /\ run[h].locked \/ ~Locked(MessageOfRun(h))
      PROVE LockInv'
  <2>1. \A g \in Handlers : g # h => run'[g] = run[g]
    BY <1>2 DEF Stepped
  <2>2. \A g \in Handlers : LockOk(g)'
    BY <1>2, <2>1, OthersLocks
  <2>3. ASSUME NEW g \in Handlers, g # h, Holds(g)', Holds(h)'
        PROVE MessageOfRun(g)' # MessageOfRun(h)'
    <3>1. Holds(g) /\ MessageOfRun(g)' = MessageOfRun(g)
      BY <2>1, <2>3 DEF Holds, MessageOfRun
    <3>2. MessageOfRun(h)' = MessageOfRun(h)
      BY <1>2, <2>3 DEF MessageOfRun
    <3>3. run[g].pc \in InTransaction /\ run[g].locked
      BY <1>0, <3>1 DEF LockInv, LockOk, Holds, InTransaction
    <3>4. CASE run[h].locked
      BY <1>0, <1>2, <2>3, <3>1, <3>2, <3>4 DEF LockInv, LocksDiffer, Holds
    <3>5. CASE ~Locked(MessageOfRun(h))
      BY <3>1, <3>2, <3>3, <3>5 DEF Locked
    <3> QED
      BY <1>2, <2>3, <3>4, <3>5
  <2>4. ASSUME NEW g \in Handlers, NEW k \in Handlers, g # h, k # h, g # k,
               Holds(g)', Holds(k)'
        PROVE MessageOfRun(g)' # MessageOfRun(k)'
    BY <1>0, <2>1, <2>4 DEF LockInv, LocksDiffer, Holds, MessageOfRun
  <2> QED
    BY <2>2, <2>3, <2>4 DEF LockInv, LocksDiffer
<1>3. ASSUME NEW m \in Messages, SenderStep(m) \/ SenderStops(m) PROVE LockInv'
  <2>1. run' = run
    BY <1>3 DEF SenderStep, SenderStops, CreateMessage, SendAnswered, SendThrows,
           CreateProviderMessage, ReadToMark, WriteMark
  <2>2. ~\E h \in Handlers : Commit(h)
    BY <1>0, <2>1, EndRuns
  <2> QED
    BY <1>1, <2>1, <2>2
<1>4. ASSUME NEW h \in Handlers, HandlerStep(h) \/ Fail(h) \/ RunStops(h) PROVE LockInv'
  <2>1. /\ LockOk(h)' /\ Stepped(h) /\ run[h].pc # "idle"
        /\ Holds(h)' => /\ run'[h].event = run[h].event
                        /\ run[h].locked \/ ~Locked(MessageOfRun(h))
    BY <1>4, OwnLock
  <2>2. \A g \in Handlers : g # h => ~Commit(g)
    <3> SUFFICES ASSUME NEW g \in Handlers, g # h, Commit(g) PROVE FALSE
      OBVIOUS
    <3>1. run'[g].pc = "idle" /\ run[g].pc # "idle"
      BY <1>0, EndRuns
    <3> QED
      BY <2>1, <3>1 DEF Stepped
  <2> QED
    BY <1>2, <2>1, <2>2
<1>5. ASSUME NEW h \in Handlers, NEW e \in Events, Ingest(h, e) \/ Reprocess(h, e)
      PROVE LockInv'
  <2>1. \A g \in Handlers : ~Commit(g)
    BY <1>0, <1>5 DEF Ingest, Reprocess, Commit, bounds, TypeOK
  <2>2. CASE run' = run
    BY <1>1, <2>1, <2>2
  <2>3. CASE Stepped(h) /\ run'[h].locked = FALSE /\ run'[h].pc \in {"claiming", "resolving"}
    BY <1>2, <2>1, <2>3 DEF LockOk, Holds
  <2> QED
    BY <1>0, <1>5, <2>2, <2>3, StartRuns
<1>6. CASE UNCHANGED vars
  <2>1. run' = run
    BY <1>6 DEF vars
  <2>2. ~\E h \in Handlers : Commit(h)
    BY <1>0, <2>1, EndRuns
  <2> QED
    BY <1>1, <2>1, <2>2
<1> QED
  BY <1>3, <1>4, <1>5, <1>6 DEF Next

LEMMA TrackInvariant == Spec => []TrackInv
<1>1. Init => TrackInv
  <2> SUFFICES ASSUME Init PROVE TrackInv
    OBVIOUS
  <2>1. TypeInv
    BY TypeInitial
  <2>2. \A h \in Handlers : run[h].pc = "idle"
    BY DEF Init, IdleRun
  <2>3. \A m \in Messages : ReceiptsOf(m) = {} /\ provided[m].last = 0 /\ ~provided[m].exists
    BY DEF Init, ReceiptsOf, NoRow
  <2>4. \A m \in Messages : message[m] = "none"
    BY DEF Init
  <2> QED
    BY <2>1, <2>2, <2>3, <2>4
       DEF TrackInv, RowInv, LockInv, LockOk, LocksDiffer, Holds, ReceiptIsNewest
<1>2. TrackInv /\ [Next]_vars => TrackInv'
  <2> SUFFICES ASSUME TrackInv, [Next]_vars PROVE TrackInv'
    OBVIOUS
  <2>1. TypeInv'
    <3>1. TypeInv
      BY DEF TrackInv
    <3> QED
      BY <3>1, TypePreserved
  <2> QED
    BY <2>1, RowsPreserved, LocksPreserved, NewestPreserved DEF TrackInv
<1> QED
  BY <1>1, <1>2, PTL DEF Spec

\* Whatever the order, repetition and overlap of the webhooks of an e-mail, its
\* provider row shows the newest that was applied.
THEOREM NewestReceipt == Spec => []ReceiptIsNewest
BY TrackInvariant, PTL DEF TrackInv

-----------------------------------------------------------------------------
\* The statuses of events and e-mails.

\* A waiting event is held by an execution, for every kind of step.
LEMMA WaitingPreserved ==
    ASSUME TypeInv, WaitingIsHeld, [Next]_vars PROVE WaitingIsHeld'
<1>0. TypeOK
  BY DEF TypeInv
<1> SUFFICES ASSUME NEW e \in Events, stored'[e] \in {"persisted", "received"}
             PROVE e \in abandoned' \/ \E h \in Handlers : Processing(h, e)'
  BY DEF WaitingIsHeld
<1> DEFINE Held == e \in abandoned' \/ \E h \in Handlers : Processing(h, e)'
<1>1. CASE run' = run /\ stored' = stored /\ abandoned' = abandoned
  BY <1>1 DEF WaitingIsHeld, Processing
<1>2. ASSUME NEW h \in Handlers, Stepped(h), stored' = stored, abandoned' = abandoned,
             \A d \in Events : Processing(h, d) => Processing(h, d)'
      PROVE Held
  BY <1>2 DEF WaitingIsHeld, Processing, Stepped
<1>3. ASSUME NEW h \in Handlers, Stepped(h), abandoned' = abandoned, run[h].pc # "idle",
             NEW s \in Retryable \cup {"received", "applied"}, StoreRun(h, s),
             s \in {"persisted", "received"} =>
                run'[h].event = run[h].event /\ run'[h].pc \in InTransaction
      PROVE Held
  <2>1. stored' = [stored EXCEPT ![run[h].event] = s] /\ run[h].event \in Events
    BY <1>0, <1>3, BusyFields DEF StoreRun
  <2>2. CASE e = run[h].event
    BY <1>0, <1>3, <2>1, <2>2 DEF TypeOK, Processing
  <2>3. CASE e # run[h].event
    <3>1. stored[e] \in {"persisted", "received"} /\ ~Processing(h, e)
      BY <1>0, <2>1, <2>3 DEF TypeOK, Processing
    <3> QED
      BY <1>3, <2>3, <3>1 DEF WaitingIsHeld, Processing, Stepped
  <2> QED
    BY <2>2, <2>3
<1>4. ASSUME NEW m \in Messages, SenderStep(m) \/ SenderStops(m) PROVE Held
  BY <1>1, <1>4 DEF SenderStep, SenderStops, CreateMessage, SendAnswered, SendThrows,
     CreateProviderMessage, ReadToMark, WriteMark, tables, history
<1>5. ASSUME NEW h \in Handlers, Recheck(h) \/ Resolve(h) \/ Touch(h) \/ ReadStatus(h) \/ Fail(h)
      PROVE Held
  <2>1. stored' = stored /\ abandoned' = abandoned
    BY <1>5 DEF Recheck, Resolve, Touch, ReadStatus, Fail, tables, history
  <2>2. CASE Recheck(h)
    BY <1>2, <2>1, <2>2, ClaimRuns DEF Processing, InTransaction, Recheck, InPc
  <2>3. CASE Resolve(h)
    <3>1. ASSUME NEW p \in {"touching", "unmatching"}, Enter(h, p)
          PROVE Stepped(h) /\ run'[h].event = run[h].event /\ run'[h].pc = p
      BY <1>0, <2>3, <3>1, EnteredRun DEF Resolve, InPc, InTransaction
    <3> QED
      BY <1>2, <2>1, <2>3, <3>1 DEF Processing, InTransaction, Resolve
  <2>4. CASE Touch(h)
    BY <1>2, <2>1, <2>4, TouchRuns DEF Processing, InTransaction
  <2>5. CASE ReadStatus(h)
    BY <1>2, <2>1, <2>5, ReadRuns DEF Processing, InTransaction
  <2>6. CASE Fail(h)
    BY <1>2, <2>1, <2>6, FailRuns DEF Processing
  <2> QED
    BY <1>5, <2>2, <2>3, <2>4, <2>5, <2>6
<1>6. ASSUME NEW h \in Handlers, MarkUnmatched(h) \/ Commit(h) \/ MarkFailed(h) PROVE Held
  <2>1. Stepped(h) /\ run[h].pc # "idle" /\ abandoned' = abandoned
    BY <1>6, EndRuns DEF MarkUnmatched, Commit, MarkFailed, history
  <2>2. \E s \in {"unmatched", "applied", "failed"} : StoreRun(h, s)
    BY <1>6 DEF MarkUnmatched, Commit, MarkFailed
  <2> QED
    BY <1>3, <2>1, <2>2 DEF Retryable
<1>7. ASSUME NEW h \in Handlers, Claim(h) PROVE Held
  <2>0. run[h].pc = "claiming" /\ abandoned' = abandoned
    BY <1>7 DEF Claim, InPc, history
  <2>1. CASE StoreRun(h, "received") /\ Enter(h, "resolving")
    <3>1. Stepped(h) /\ run'[h].pc = "resolving" /\ run'[h].event = run[h].event
      BY <1>0, <2>0, <2>1, EnteredRun DEF InTransaction
    <3> QED
      BY <1>3, <2>0, <2>1, <3>1 DEF Processing, InTransaction
  <2>2. CASE stored' = stored
    <3>1. Stepped(h) /\ ~\E d \in Events : Processing(h, d)
      BY <1>7, <2>0, ClaimRuns DEF Processing, InTransaction
    <3> QED
      BY <1>2, <2>0, <2>2, <3>1
  <2> QED
    BY <1>7, <2>1, <2>2 DEF Claim
<1>8. ASSUME NEW h \in Handlers, RunStops(h) PROVE Held
  <2>1. /\ Stepped(h) /\ stored' = stored /\ run[h].pc # "idle"
        /\ abandoned' = abandoned \cup {run[h].event}
    BY <1>8, EndRuns DEF RunStops, tables
  <2>2. \A d \in Events : Processing(h, d) => d \in abandoned'
    BY <2>1 DEF Processing
  <2> QED
    BY <2>1, <2>2 DEF WaitingIsHeld, Processing, Stepped
<1>9. ASSUME NEW h \in Handlers, NEW d \in Events, Ingest(h, d) \/ Reprocess(h, d) PROVE Held
  <2>0. abandoned' = abandoned
    BY <1>9 DEF Ingest, Reprocess, history
  <2>1. CASE run' = run /\ stored' = stored
    BY <1>1, <2>0, <2>1
  <2>2. CASE Stepped(h) /\ run[h].pc = "idle" /\ stored' = stored
    BY <1>2, <2>0, <2>2 DEF Processing, InTransaction
  <2>3. CASE /\ Stepped(h) /\ run[h].pc = "idle" /\ run'[h].event = d
             /\ run'[h].pc = "resolving"
             /\ stored' = [stored EXCEPT ![d] = "persisted"]
    <3>1. CASE e = d
      BY <2>3, <3>1 DEF Processing, InTransaction
    <3>2. CASE e # d
      <4>1. stored[e] \in {"persisted", "received"} /\ ~Processing(h, e)
        BY <1>0, <2>3, <3>2 DEF TypeOK, Processing, InTransaction
      <4> QED
        BY <2>0, <2>3, <4>1 DEF WaitingIsHeld, Processing, Stepped
    <3> QED
      BY <3>1, <3>2
  <2> QED
    BY <1>9, <2>1, <2>2, <2>3, StartRuns
<1>10. CASE UNCHANGED vars
  BY <1>1, <1>10 DEF vars, tables, history
<1> QED
  BY <1>4, <1>5, <1>6, <1>7, <1>8, <1>9, <1>10 DEF Next, HandlerStep

\* No lost claim, failure or duplicate drops an event that waits.
THEOREM WaitingEventsHeld == Spec => []WaitingIsHeld
<1>1. Init => WaitingIsHeld
  BY DEF Init, WaitingIsHeld
<1>2. TypeInv /\ WaitingIsHeld /\ [Next]_vars => WaitingIsHeld'
  BY WaitingPreserved
<1> QED
  BY <1>1, <1>2, TypeInvariant, PTL DEF Spec

\* A status is written over another only as getNextWebhookStatus allows, and
\* stands for the kind of its event.
LEMMA StatusFacts ==
    ASSUME NEW c \in Statuses \cup {"none"}, NEW s \in Statuses \cup {"none"}
    PROVE /\ NextStatus(c, s) \in {"none", s}
          /\ NextStatus(c, s) # "none" => Rank(NextStatus(c, s)) > Rank(c)
<1>1. NextStatus(c, s) \in {"none", s}
  BY DEF NextStatus
<1>2. NextStatus(c, s) # "none" => Rank(NextStatus(c, s)) > Rank(c)
  BY DEF NextStatus, Rank, Statuses
<1> QED
  BY <1>1, <1>2

LEMMA KindFacts ==
    ASSUME NEW k \in Kinds
    PROVE /\ \A s \in {"delivered", "bounced", "complained", "failed"} :
                StatusFor(k) = s => k = s
          /\ StatusFor(k) = "accepted" => k = "sent"
          /\ StatusFor(k) # "pending"
BY DEF StatusFor, Kinds

\* The steps that write an e-mail's status.
LEMMA MessageSteps ==
    ASSUME TypeOK, [Next]_vars
    PROVE \/ message' = message
          \/ \E m \in Messages : CreateMessage(m) \/ WriteMark(m)
          \/ \E h \in Handlers : Commit(h)
<1>1. ASSUME NEW m \in Messages, SenderStep(m) \/ SenderStops(m)
      PROVE message' = message \/ CreateMessage(m) \/ WriteMark(m)
  BY <1>1 DEF SenderStep, SenderStops, SendAnswered, SendThrows, CreateProviderMessage,
         ReadToMark, tables
<1>2. ASSUME NEW h \in Handlers, HandlerStep(h) \/ Fail(h) \/ RunStops(h)
      PROVE message' = message \/ Commit(h)
  BY <1>2 DEF HandlerStep, Claim, Recheck, Resolve, MarkUnmatched, Touch, ReadStatus,
         MarkFailed, Fail, RunStops, tables
<1>3. ASSUME NEW h \in Handlers, NEW e \in Events, Ingest(h, e) \/ Reprocess(h, e)
      PROVE message' = message
  BY <1>3 DEF Ingest, Reprocess, tables
<1> QED
  BY <1>1, <1>2, <1>3 DEF Next, vars, tables

\* Receipts are kept, and a sender that is done stays as it is.
LEMMA CausesStay ==
    ASSUME TypeOK, [Next]_vars
    PROVE /\ receipts \subseteq receipts'
          /\ \A m \in Messages : sender[m].pc = "done" => sender'[m] = sender[m]
<1>1. receipts \subseteq receipts'
  BY ReceiptSteps DEF CreateProviderMessage, Commit, history
<1>2. ASSUME NEW m \in Messages, sender[m].pc = "done" PROVE sender'[m] = sender[m]
  <2>1. ASSUME NEW n \in Messages, SenderStep(n) \/ SenderStops(n)
        PROVE sender[n].pc # "done" /\ (n # m => sender'[m] = sender[m])
    <3>1. CASE CreateMessage(n) \/ SendAnswered(n) \/ SendThrows(n) \/ CreateProviderMessage(n)
      BY <3>1 DEF CreateMessage, SendAnswered, SendThrows, CreateProviderMessage, GoTo, At,
             TypeOK
    <3>2. CASE ReadToMark(n) \/ WriteMark(n) \/ SenderStops(n)
      BY <3>2 DEF ReadToMark, WriteMark, SenderStops, GoTo, At, TypeOK
    <3> QED
      BY <2>1, <3>1, <3>2 DEF SenderStep
  <2>2. ASSUME NEW h \in Handlers,
               \/ HandlerStep(h) \/ Fail(h) \/ RunStops(h)
               \/ \E e \in Events : Ingest(h, e) \/ Reprocess(h, e)
        PROVE sender' = sender
    BY <2>2 DEF HandlerStep, Claim, Recheck, Resolve, MarkUnmatched, Touch, ReadStatus,
           Commit, MarkFailed, Fail, RunStops, Ingest, Reprocess, sending
  <2> QED
    BY <1>2, <2>1, <2>2 DEF Next, vars
<1> QED
  BY <1>1, <1>2

\* What accounts for status s of e-mail m.
Caused(m, s) ==
    /\ s \in {"delivered", "bounced", "complained"} =>
          \E e \in ReceiptsOf(m) : KindOf[e] = s
    /\ s = "accepted" => \/ sender[m].pc = "done" /\ sender[m].outcome = "accepted"
                         \/ \E e \in ReceiptsOf(m) : KindOf[e] = "sent"
    /\ s = "failed" => \/ sender[m].pc = "done" /\ sender[m].outcome = "failed"
                       \/ \E e \in ReceiptsOf(m) : KindOf[e] = "failed"

LEMMA CausePreserved ==
    ASSUME TypeOK, StatusHasCause, [Next]_vars PROVE StatusHasCause'
<1> SUFFICES ASSUME NEW m \in Messages, NEW s, s = message'[m]
             PROVE Caused(m, s)'
  BY DEF StatusHasCause, Caused
<1>1. ReceiptsOf(m) \subseteq ReceiptsOf(m)'
  BY CausesStay DEF ReceiptsOf
<1>2. CASE message'[m] = message[m]
  <2>1. Caused(m, s)
    BY <1>2 DEF StatusHasCause, Caused
  <2> QED
    BY <1>1, <2>1, CausesStay DEF Caused
<1>3. ASSUME NEW n \in Messages, CreateMessage(n) PROVE Caused(m, s)'
  <2>1. s = message[m] \/ s = "pending"
    BY <1>3 DEF CreateMessage, TypeOK
  <2> QED
    BY <1>2, <2>1 DEF Caused
<1>4. ASSUME NEW n \in Messages, WriteMark(n), message'[m] # message[m] PROVE Caused(m, s)'
  <2>1. n = m /\ s = NextStatus(sender[m].seen, sender[m].outcome)
    BY <1>4 DEF WriteMark, TypeOK
  <2>2. /\ sender[m].seen \in Statuses \cup {"none"} /\ sender[m].outcome \in Outcomes
        /\ sender'[m].pc = "done" /\ sender'[m].outcome = sender[m].outcome
    <3>1. sender[m] \in SenderState
      BY DEF TypeOK
    <3> QED
      BY <1>4, <2>1, <3>1 DEF WriteMark, GoTo, TypeOK, SenderState
  <2>3. s \in {"none", sender[m].outcome}
    BY <2>1, <2>2, StatusFacts DEF Outcomes, Statuses
  <2> QED
    BY <2>2, <2>3 DEF Caused, Outcomes
<1>5. ASSUME NEW h \in Handlers, Commit(h), message'[m] # message[m] PROVE Caused(m, s)'
  <2> DEFINE e == run[h].event
  <2>1. run[h].pc # "idle"
    BY <1>5 DEF Commit, InPc
  <2>2. e \in Events /\ KindOf[e] \in Kinds /\ run[h].seen \in Statuses \cup {"none"}
    BY <2>1, BusyFields, TrackingAssumption
  <2>3. s = StatusOfRun(h) /\ m = MessageOfRun(h)
    BY <1>5 DEF Commit, WriteTables, TypeOK
  <2>4. s \in {"none", StatusFor(KindOf[e])}
    BY <2>2, <2>3, StatusFacts, StatusTypes DEF StatusOfRun
  <2>5. e \in ReceiptsOf(m)'
    BY <1>5, <2>2, <2>3 DEF Commit, ReceiptsOf, MessageOfRun
  <2> QED
    BY <2>2, <2>4, <2>5, KindFacts DEF Caused
<1> QED
  BY <1>2, <1>3, <1>4, <1>5, MessageSteps

\* A processing that fails or dies leaves no trace in the e-mail's status.
THEOREM StatusesCaused == Spec => []StatusHasCause
<1>1. Init => StatusHasCause
  BY DEF Init, StatusHasCause
<1>2. TypeOK /\ StatusHasCause /\ [Next]_vars => StatusHasCause'
  BY CausePreserved
<1> QED
  BY <1>1, <1>2, TypeCorrect, PTL DEF Spec

\* A sender about to write has a status to write.
WriteInv ==
    \A m \in Messages : sender[m].pc = "writing" =>
        NextStatus(sender[m].seen, sender[m].outcome) # "none"

LEMMA WritesPreserved ==
    ASSUME TypeOK, WriteInv, [Next]_vars PROVE WriteInv'
<1> SUFFICES ASSUME NEW m \in Messages, sender'[m].pc = "writing"
             PROVE NextStatus(sender[m].seen, sender[m].outcome)' # "none"
  BY DEF WriteInv
<1>1. CASE sender'[m] = sender[m]
  BY <1>1 DEF WriteInv, NextStatus
<1>2. ASSUME NEW n \in Messages, SenderStep(n) \/ SenderStops(n), sender'[m] # sender[m]
      PROVE ReadToMark(m)
  <2>0. sender[n] \in SenderState
    BY DEF TypeOK
  <2>1. CASE CreateMessage(n) \/ CreateProviderMessage(n) \/ WriteMark(n) \/ SenderStops(n)
    BY <1>2, <2>0, <2>1 DEF CreateMessage, CreateProviderMessage, WriteMark, SenderStops,
       GoTo, TypeOK, SenderState
  <2>2. CASE SendAnswered(n)
    BY <1>2, <2>0, <2>2 DEF SendAnswered, TypeOK, SenderState
  <2>3. CASE SendThrows(n)
    BY <1>2, <2>0, <2>3 DEF SendThrows, TypeOK, SenderState
  <2>4. CASE ReadToMark(n)
    BY <1>2, <2>4 DEF ReadToMark, TypeOK
  <2> QED
    BY <1>2, <2>1, <2>2, <2>3, <2>4 DEF SenderStep
<1>3. CASE ReadToMark(m)
  <2>0. sender[m] \in SenderState
    BY DEF TypeOK
  <2>1. /\ sender'[m].seen = message[m] /\ sender'[m].outcome = sender[m].outcome
        /\ sender'[m].pc = "writing" =>
              NextStatus(message[m], sender[m].outcome) # "none"
    BY <1>3, <2>0 DEF ReadToMark, TypeOK, SenderState
  <2> QED
    BY <2>1 DEF NextStatus
<1>4. ASSUME NEW h \in Handlers,
             \/ HandlerStep(h) \/ Fail(h) \/ RunStops(h)
             \/ \E e \in Events : Ingest(h, e) \/ Reprocess(h, e)
      PROVE sender' = sender
  BY <1>4 DEF HandlerStep, Claim, Recheck, Resolve, MarkUnmatched, Touch, ReadStatus,
         Commit, MarkFailed, Fail, RunStops, Ingest, Reprocess, sending
<1> QED
  BY <1>1, <1>2, <1>3, <1>4 DEF Next, vars

\* No status is undone by a writer that had read it.
THEOREM StatusesForward == Spec => StatusMovesForward
<1> DEFINE Forward == \A m \in Messages : message[m]' # message[m] =>
          \/ Rank(message[m]') > Rank(message[m])
          \/ At(m, "writing") /\ sender[m].seen # message[m]
          \/ \E h \in Handlers : /\ InPc(h, "committing")
                                 /\ ~InPc(h, "committing")'
                                 /\ MessageOfRun(h) = m
                                 /\ run[h].seen # message[m]
<1>0. Spec => []WriteInv
  <2>1. Init => WriteInv
    BY DEF Init, WriteInv
  <2>2. TypeOK /\ WriteInv /\ [Next]_vars => WriteInv'
    BY WritesPreserved
  <2> QED
    BY <2>1, <2>2, TypeCorrect, PTL DEF Spec
<1>1. TrackInv /\ WriteInv /\ [Next]_vars => Forward
  <2> SUFFICES ASSUME TrackInv, WriteInv, [Next]_vars, NEW m \in Messages, message'[m] # message[m]
               PROVE \/ Rank(message[m]') > Rank(message[m])
                     \/ At(m, "writing") /\ sender[m].seen # message[m]
                     \/ \E h \in Handlers : /\ InPc(h, "committing")
                                            /\ ~InPc(h, "committing")'
                                            /\ MessageOfRun(h) = m
                                            /\ run[h].seen # message[m]
    OBVIOUS
  <2>0. TypeInv /\ TypeOK /\ RowInv
    BY DEF TrackInv, TypeInv
  <2>1. ASSUME NEW n \in Messages, CreateMessage(n) PROVE Rank(message[m]') > Rank(message[m])
    <3>1. n = m /\ message'[m] = "pending" /\ message[m] = "none"
      BY <2>0, <2>1 DEF CreateMessage, TypeOK, RowInv, At
    <3> QED
      BY <3>1 DEF Rank
  <2>2. ASSUME NEW n \in Messages, WriteMark(n), sender[m].seen = message[m]
        PROVE Rank(message[m]') > Rank(message[m])
    <3>1. n = m /\ message'[m] = NextStatus(message[m], sender[m].outcome)
      BY <2>0, <2>2 DEF WriteMark, TypeOK
    <3>2. message[m] \in Statuses \cup {"none"} /\ sender[m].outcome \in Statuses
      BY <2>0 DEF TypeOK, SenderState, Outcomes, Statuses
    <3>3. message'[m] # "none"
      BY <2>2, <3>1 DEF WriteInv, WriteMark, At
    <3> QED
      BY <3>1, <3>2, <3>3, StatusFacts
  <2>3. ASSUME NEW h \in Handlers, Commit(h)
        PROVE /\ InPc(h, "committing") /\ ~InPc(h, "committing")' /\ MessageOfRun(h) = m
              /\ run[h].seen = message[m] => Rank(message[m]') > Rank(message[m])
    <3>1. InPc(h, "committing") /\ ~InPc(h, "committing")'
      BY <2>0, <2>3, EndRuns DEF Commit, InPc
    <3>2. /\ MessageOfRun(h) = m /\ message'[m] = StatusOfRun(h) /\ StatusOfRun(h) # "none"
      BY <2>0, <2>3 DEF Commit, WriteTables, TypeOK
    <3>3. message[m] \in Statuses \cup {"none"} /\ KindOf[run[h].event] \in Kinds
      BY <2>0, <3>1, BusyFields, TrackingAssumption DEF TypeOK, InPc
    <3> QED
      BY <3>1, <3>2, <3>3, StatusFacts, StatusTypes DEF StatusOfRun
  <2>4. ASSUME NEW n \in Messages, WriteMark(n) PROVE At(m, "writing")
    BY <2>0, <2>4 DEF WriteMark, TypeOK
  <2> QED
    BY <2>0, <2>1, <2>2, <2>3, <2>4, MessageSteps
<1> QED
  BY <1>0, <1>1, TrackInvariant, PTL DEF Spec, StatusMovesForward

\* Duplicates and reprocess commands leave an applied event alone.
THEOREM AppliedLeftAlone == Spec => AppliedNotTakenUp
<1>1. TypeInv /\ [Next]_vars =>
         \A h \in Handlers, e \in Events :
            Processing(h, e)' /\ ~Processing(h, e) => stored[e] # "applied"
  <2> SUFFICES ASSUME TypeInv, [Next]_vars, NEW h \in Handlers, NEW e \in Events,
                      Processing(h, e)', ~Processing(h, e)
               PROVE stored[e] # "applied"
    OBVIOUS
  <2>0. TypeOK
    BY DEF TypeInv
  <2>1. run'[h] # run[h]
    BY DEF Processing
  <2>2. ASSUME NEW m \in Messages, SenderStep(m) \/ SenderStops(m) PROVE FALSE
    BY <2>1, <2>2 DEF SenderStep, SenderStops, CreateMessage, SendAnswered, SendThrows,
       CreateProviderMessage, ReadToMark, WriteMark
  <2>3. ASSUME NEW g \in Handlers, Claim(g) PROVE stored[e] # "applied"
    <3>1. g = h /\ run'[h].event = run[h].event /\ run'[h].pc # "rechecking"
      BY <2>1, <2>3, ClaimRuns DEF Processing, Stepped, InTransaction
    <3>2. stored[run[h].event] \in Retryable
      <4>1. CASE stored[run[h].event] \notin Retryable
        <5>1. run' = [run EXCEPT ![h] =
                        [@ EXCEPT !.pc = "rechecking", !.tries = run[h].tries + 1]]
          BY <2>3, <3>1, <4>1 DEF Claim
        <5>2. run[h] \in BusyRun
          BY <2>0, <2>3, <3>1, BusyFields DEF Claim, InPc
        <5> QED
          BY <2>0, <3>1, <5>1, <5>2 DEF TypeOK, BusyRun
      <4> QED
        BY <4>1
    <3> QED
      BY <3>1, <3>2 DEF Processing, Retryable
  <2>4. ASSUME NEW g \in Handlers, Recheck(g) PROVE stored[e] # "applied"
    <3>1. g = h /\ run'[h].event = run[h].event /\ run'[h].pc \notin {"idle", "claiming"}
      BY <2>1, <2>4, ClaimRuns DEF Processing, Stepped, InTransaction
    <3>2. run[h].pc # "idle"
      BY <2>4, <3>1 DEF Recheck, InPc
    <3>3. ~Leave(h) /\ ~Enter(h, "claiming")
      BY <2>0, <3>1, <3>2, LeftRun, EnteredRun
    <3> QED
      BY <2>4, <3>1, <3>3 DEF Recheck, Processing
  <2>5. ASSUME NEW g \in Handlers,
               Resolve(g) \/ Touch(g) \/ ReadStatus(g) \/ Fail(g) PROVE FALSE
    <3>1. /\ Stepped(g) /\ run'[g].event = run[g].event
          /\ run[g].pc \in InTransaction
      <4>1. CASE Resolve(g)
        <5>1. run'[g].pc # "idle"
          BY <2>0, <4>1, EnteredRun DEF Resolve, InPc, InTransaction
        <5> QED
          BY <4>1, <5>1, ClaimRuns DEF Resolve, InPc, InTransaction
      <4> QED
        BY <2>5, <4>1, TouchRuns, ReadRuns, FailRuns DEF InTransaction
    <3> QED
      BY <2>1, <3>1 DEF Processing, Stepped
  <2>6. ASSUME NEW g \in Handlers,
               MarkUnmatched(g) \/ Commit(g) \/ MarkFailed(g) \/ RunStops(g) PROVE FALSE
    BY <2>1, <2>6, EndRuns DEF Processing, Stepped, InTransaction
  <2>7. ASSUME NEW g \in Handlers, NEW d \in Events, Ingest(g, d) \/ Reprocess(g, d)
        PROVE stored[e] # "applied"
    <3>1. /\ g = h /\ run'[g].event = d
          /\ run'[g].pc = "claiming" \/ stored[d] = "none"
      BY <2>1, <2>7, StartRuns DEF Stepped
    <3> QED
      BY <3>1 DEF Processing, InTransaction
  <2> QED
    BY <2>1, <2>2, <2>3, <2>4, <2>5, <2>6, <2>7 DEF Next, vars, HandlerStep
<1> QED
  BY <1>1, TypeInvariant, PTL DEF Spec, AppliedNotTakenUp

-----------------------------------------------------------------------------
(***************************************************************************)
(* What is on record changes as in EmailRecord.                             *)
(***************************************************************************)

\* An execution has an event that is stored, and a sender that reports that an
\* e-mail was accepted has written its provider row.
OnRecord ==
    /\ \A h \in Handlers : run[h].pc # "idle" => stored[run[h].event] # "none"
    /\ \A m \in Messages :
          sender[m].pc \in {"marking", "writing"} /\ sender[m].outcome = "accepted"
          => provided[m].exists

\* Events are not deleted.
LEMMA StoredStays ==
    ASSUME TypeInv, [Next]_vars, NEW e \in Events, stored[e] # "none"
    PROVE stored'[e] # "none"
<1>0. TypeOK
  BY DEF TypeInv
<1>1. ASSUME NEW m \in Messages, SenderStep(m) \/ SenderStops(m) PROVE stored' = stored
  BY <1>1 DEF SenderStep, SenderStops, CreateMessage, SendAnswered, SendThrows,
     CreateProviderMessage, ReadToMark, WriteMark, tables
<1>2. ASSUME NEW h \in Handlers, HandlerStep(h) \/ Fail(h) \/ RunStops(h)
      PROVE \/ stored' = stored
            \/ \E s \in {"received", "unmatched", "applied", "failed"} :
                  stored' = [stored EXCEPT ![run[h].event] = s]
  BY <1>2 DEF HandlerStep, Claim, Recheck, Resolve, MarkUnmatched, Touch, ReadStatus,
     Commit, MarkFailed, Fail, RunStops, tables, StoreRun
<1>3. ASSUME NEW h \in Handlers, NEW d \in Events, Ingest(h, d) \/ Reprocess(h, d)
      PROVE stored' = stored \/ stored' = [stored EXCEPT ![d] = "persisted"]
  BY <1>3, StartRuns
<1>4. stored' = stored \/ \E d, s : s # "none" /\ stored' = [stored EXCEPT ![d] = s]
  BY <1>1, <1>2, <1>3 DEF Next, vars, tables
<1> QED
  BY <1>0, <1>4 DEF TypeOK

\* An execution goes on with its event, or begins with one that is stored.
LEMMA EventKept ==
    ASSUME TypeInv, [Next]_vars, NEW h \in Handlers, run'[h].pc # "idle"
    PROVE \/ run[h].pc # "idle" /\ run'[h].event = run[h].event
          \/ run'[h].event \in Events /\ stored'[run'[h].event] # "none"
<1> DEFINE Goal == \/ run[h].pc # "idle" /\ run'[h].event = run[h].event
                   \/ run'[h].event \in Events /\ stored'[run'[h].event] # "none"
<1>0. TypeOK
  BY DEF TypeInv
<1>1. ASSUME run'[h] = run[h] PROVE Goal
  BY <1>1
<1>2. ASSUME NEW g \in Handlers, HandlerStep(g) \/ Fail(g) \/ RunStops(g) PROVE Goal
  <2>1. Stepped(g) /\ (run'[g].pc # "idle" =>
            run[g].pc # "idle" /\ run'[g].event = run[g].event)
    <3>1. CASE Claim(g) \/ Recheck(g) \/ Resolve(g)
      BY <3>1, ClaimRuns
    <3>2. CASE MarkUnmatched(g) \/ Commit(g) \/ MarkFailed(g) \/ RunStops(g)
      BY <3>2, EndRuns
    <3>3. CASE Touch(g) \/ ReadStatus(g) \/ Fail(g)
      BY <3>3, TouchRuns, ReadRuns, FailRuns DEF InTransaction
    <3> QED
      BY <1>2, <3>1, <3>2, <3>3 DEF HandlerStep
  <2> QED
    BY <1>1, <2>1 DEF Stepped
<1>3. ASSUME NEW g \in Handlers, NEW e \in Events, Ingest(g, e) \/ Reprocess(g, e)
      PROVE Goal
  <2>1. CASE run' = run
    BY <1>1, <2>1
  <2>2. CASE run' # run
    <3>1. Stepped(g) /\ run'[g].event = e
      BY <1>3, <2>2, StartRuns
    <3>2. stored'[e] # "none"
      BY <1>0, <1>3, <2>2 DEF Ingest, Reprocess, TypeOK, Retryable, tables
    <3> QED
      BY <1>1, <3>1, <3>2 DEF Stepped
  <2> QED
    BY <2>1, <2>2
<1>4. ASSUME run' = run PROVE Goal
  BY <1>1, <1>4
<1>5. ASSUME NEW m \in Messages, SenderStep(m) \/ SenderStops(m) PROVE run' = run
  BY <1>5 DEF SenderStep, SenderStops, CreateMessage, SendAnswered, SendThrows,
     CreateProviderMessage, ReadToMark, WriteMark
<1> HIDE DEF Goal
<1>6. Goal
  BY <1>2, <1>3, <1>4, <1>5 DEF Next, vars
<1> QED
  BY <1>6 DEF Goal

\* A provider row is not deleted, and a sender reaches its mark over the row it
\* writes or by a failure.
LEMMA AcceptedHasRow ==
    ASSUME TrackInv, OnRecord, [Next]_vars, NEW m \in Messages,
           sender'[m].pc \in {"marking", "writing"}, sender'[m].outcome = "accepted"
    PROVE provided'[m].exists
<1>0. TypeOK /\ RowInv
  BY DEF TrackInv, TypeInv
<1>1. provided[m].exists => provided'[m].exists
  <2>1. ASSUME NEW n \in Messages, CreateProviderMessage(n)
        PROVE provided[m].exists => provided'[m].exists
    BY <1>0, <2>1 DEF CreateProviderMessage, TypeOK
  <2>2. ASSUME NEW h \in Handlers, Commit(h)
        PROVE provided[m].exists => provided'[m].exists
    BY <2>2, CommitRows
  <2> QED
    BY <2>1, <2>2, ReceiptSteps
<1>2. CASE sender'[m] = sender[m]
  BY <1>1, <1>2 DEF OnRecord
<1>3. CASE sender'[m] # sender[m]
  <2>1. PICK n \in Messages : SenderStep(n) \/ SenderStops(n)
    BY <1>3 DEF Next, vars, HandlerStep, Claim, Recheck, Resolve, MarkUnmatched, Touch,
       ReadStatus, Commit, MarkFailed, Fail, RunStops, Ingest, Reprocess, sending
  <2>2. sender[n] \in SenderState
    BY <1>0 DEF TypeOK
  <2>3. CASE CreateProviderMessage(n)
    BY <1>0, <1>3, <2>2, <2>3 DEF CreateProviderMessage, GoTo, TypeOK, SenderState
  <2>4. CASE ReadToMark(n)
    <3>1. n = m /\ sender[m].pc = "marking" /\ sender[m].outcome = "accepted"
      BY <1>0, <1>3, <2>2, <2>4 DEF ReadToMark, At, TypeOK, SenderState
    <3> QED
      BY <1>1, <3>1 DEF OnRecord
  <2>5. CASE CreateMessage(n) \/ WriteMark(n) \/ SenderStops(n)
    BY <1>0, <1>3, <2>2, <2>5 DEF CreateMessage, WriteMark, SenderStops, GoTo, TypeOK,
       SenderState
  <2>6. CASE SendAnswered(n)
    BY <1>0, <1>3, <2>2, <2>6 DEF SendAnswered, TypeOK, SenderState
  <2>7. CASE SendThrows(n)
    BY <1>0, <1>3, <2>2, <2>7 DEF SendThrows, TypeOK, SenderState
  <2> QED
    BY <2>1, <2>3, <2>4, <2>5, <2>6, <2>7 DEF SenderStep
<1> QED
  BY <1>2, <1>3

LEMMA OnRecordPreserved ==
    ASSUME TrackInv, OnRecord, [Next]_vars PROVE OnRecord'
<1>0. TypeInv /\ TypeOK
  BY DEF TrackInv, TypeInv
<1>1. ASSUME NEW h \in Handlers, run'[h].pc # "idle"
      PROVE stored'[run'[h].event] # "none"
  <2>1. CASE run[h].pc # "idle" /\ run'[h].event = run[h].event
    <3>1. run[h].event \in Events /\ stored[run[h].event] # "none"
      BY <1>0, <2>1, BusyFields DEF OnRecord
    <3> QED
      BY <1>0, <2>1, <3>1, StoredStays
  <2> QED
    BY <1>0, <1>1, <2>1, EventKept
<1> QED
  BY <1>1, AcceptedHasRow DEF OnRecord

\* A commit applies its event.
LEMMA CommitApplies ==
    ASSUME TrackInv, OnRecord, NEW h \in Handlers, Commit(h)
    PROVE run[h].event \in Events /\ Record!Apply(run[h].event)
<1> DEFINE e == run[h].event
           m == MessageOf[e]
<1>0. TypeInv /\ TypeOK
  BY DEF TrackInv, TypeInv
<1>1. run[h].pc # "idle" /\ e \in Events /\ m = MessageOfRun(h) /\ m \in Messages
  BY <1>0, CommitRows, BusyFields DEF Commit, InPc
<1>2. stored[e] # "none" /\ provided[m].exists
  BY <1>1, CommitRows DEF OnRecord
<1>3. provided' = IF provided[m].last > OccurredAt[e] THEN provided
                  ELSE [provided EXCEPT ![m] = [exists |-> TRUE,
                           last |-> OccurredAt[e], status |-> KindOf[e]]]
  <2>1. provided[m].last \in Nat /\ OccurredAt[e] \in Nat
    BY <1>1, CommitRows
  <2>2. CASE run[h].locked /\ provided[m].last <= OccurredAt[e]
    BY <1>1, <2>1, <2>2 DEF Commit, WriteTables
  <2>3. CASE OccurredAt[e] < provided[m].last /\ provided' = provided
    BY <2>1, <2>3
  <2> QED
    BY <1>1, <2>2, <2>3, CommitRows
<1>4. \/ message' = message
      \/ /\ Record!Shows(KindOf[e]) # "none"
         /\ message' = [message EXCEPT ![m] = Record!Shows(KindOf[e])]
  <2>1. Record!Shows(KindOf[e]) = StatusFor(KindOf[e])
    BY DEF Record!Shows, StatusFor
  <2>2. /\ run[h].seen \in Statuses \cup {"none"}
        /\ StatusFor(KindOf[e]) \in Statuses \cup {"none"}
    BY <1>0, <1>1, BusyFields, StatusTypes, TrackingAssumption
  <2>3. StatusOfRun(h) \in {"none", StatusFor(KindOf[e])}
    BY <2>2, StatusFacts DEF StatusOfRun
  <2> QED
    BY <1>1, <2>1, <2>3 DEF Commit, WriteTables
<1>5. /\ stored' = [stored EXCEPT ![e] = "applied"]
      /\ receipts' = receipts \cup {e} /\ UNCHANGED Finished
  BY DEF Commit, StoreRun, sending, Finished, At
<1> QED
  BY <1>1, <1>2, <1>3, <1>4, <1>5 DEF Record!Apply

\* The steps of a webhook execution.
LEMMA HandlerRecords ==
    ASSUME TrackInv, OnRecord, NEW h \in Handlers,
           HandlerStep(h) \/ Fail(h) \/ RunStops(h)
    PROVE [Record!Next]_(Record!vars)
<1>0. TypeOK
  BY DEF TrackInv, TypeInv
<1> DEFINE Goal == [Record!Next]_(Record!vars)
           e == run[h].event
<1>1. ASSUME Recheck(h) \/ Resolve(h) \/ Touch(h) \/ ReadStatus(h) \/ Fail(h) \/ RunStops(h)
      PROVE Goal
  BY <1>1 DEF Recheck, Resolve, Touch, ReadStatus, Fail, RunStops, tables, sending,
     history, Finished, At, Record!vars
<1>2. ASSUME Claim(h) PROVE Goal
  <2>1. e \in Events
    BY <1>0, <1>2, BusyFields DEF Claim, InPc
  <2>2. CASE Record!Claim(e)
    BY <2>1, <2>2 DEF Record!Next
  <2>3. CASE stored' = stored
    BY <1>2, <2>3 DEF Claim, sending, history, Finished, At, Record!vars
  <2> QED
    BY <1>2, <2>2, <2>3 DEF Claim, StoreRun, Retryable, sending, history, Finished, At,
       Record!Claim
<1>3. ASSUME MarkUnmatched(h) \/ MarkFailed(h) PROVE Goal
  <2>1. e \in Events /\ stored[e] # "none"
    BY <1>0, <1>3, BusyFields DEF MarkUnmatched, MarkFailed, InPc, OnRecord
  <2>2. Record!SetAside(e)
    BY <1>3, <2>1 DEF MarkUnmatched, MarkFailed, StoreRun, sending, history, Finished, At,
       Record!SetAside
  <2> QED
    BY <2>1, <2>2 DEF Record!Next
<1>4. ASSUME Commit(h) PROVE Goal
  BY <1>4, CommitApplies DEF Record!Next
<1> HIDE DEF Goal
<1>5. Goal
  BY <1>1, <1>2, <1>3, <1>4 DEF HandlerStep
<1> QED
  BY <1>5 DEF Goal

\* The steps of a sender.
LEMMA SenderRecords ==
    ASSUME TrackInv, WriteInv, OnRecord, NEW m \in Messages,
           SenderStep(m) \/ SenderStops(m)
    PROVE [Record!Next]_(Record!vars)
<1>0. TypeOK /\ RowInv /\ sender[m] \in SenderState
  BY DEF TrackInv, TypeInv, TypeOK
<1> DEFINE Goal == [Record!Next]_(Record!vars)
<1>1. ASSUME NEW s \in SenderState, sender' = [sender EXCEPT ![m] = s]
      PROVE IF s.pc = "done" THEN Finished' = Finished \cup {m}
            ELSE Finished' = Finished \ {m}
  BY <1>0, <1>1 DEF Finished, At, TypeOK
<1>2. ASSUME NEW p \in {"sending", "marking", "done"}, GoTo(m, p)
      PROVE IF p = "done" THEN Finished' = Finished \cup {m}
            ELSE Finished' = Finished \ {m}
  <2>1. [sender[m] EXCEPT !.pc = p] \in SenderState
    BY <1>0 DEF SenderState
  <2>2. [sender[m] EXCEPT !.pc = p].pc = p
    BY <1>0 DEF SenderState
  <2>3. sender' = [sender EXCEPT ![m] = [sender[m] EXCEPT !.pc = p]]
    BY <1>0, <1>2 DEF GoTo, TypeOK
  <2> QED
    BY <1>1, <2>1, <2>2, <2>3
<1>3. m \in Finished <=> sender[m].pc = "done"
  BY DEF Finished, At
<1>4. ASSUME CreateMessage(m) PROVE Goal
  <2>1. message[m] = "none" /\ m \notin Finished /\ Finished' = Finished
    BY <1>0, <1>2, <1>3, <1>4 DEF CreateMessage, At, RowInv
  <2>2. Record!Create(m)
    BY <1>4, <2>1 DEF CreateMessage, history, Record!Create
  <2> QED
    BY <2>2 DEF Record!Next
<1>5. ASSUME CreateProviderMessage(m) PROVE Goal
  <2>1. /\ ~provided[m].exists /\ m \notin Finished /\ Finished' = Finished
        /\ sender[m].outcome \in Record!Outcomes
    BY <1>0, <1>2, <1>3, <1>5, ZenonT(30) DEF CreateProviderMessage, At, RowInv, SenderState, Outcomes,
       Record!Outcomes
  <2>2. Record!Provide(m, sender[m].outcome)
    BY <1>5, <2>1 DEF CreateProviderMessage, history, Record!Provide
  <2> QED
    BY <2>1, <2>2 DEF Record!Next
<1>6. ASSUME SendAnswered(m) \/ SendThrows(m) PROVE Goal
  <2>1. PICK o \in Outcomes, p \in {"tracking", "marking"} :
           sender' = [sender EXCEPT ![m] = [sender[m] EXCEPT !.pc = p, !.outcome = o]]
    BY <1>0, <1>6 DEF SendAnswered, SendThrows, Outcomes, TypeOK
  <2> DEFINE s == [sender[m] EXCEPT !.pc = p, !.outcome = o]
  <2>2. s \in SenderState /\ s.pc # "done" /\ sender' = [sender EXCEPT ![m] = s]
    BY <1>0, <2>1 DEF SenderState
  <2>3. m \notin Finished
    BY <1>3, <1>6 DEF SendAnswered, SendThrows, At
  <2> HIDE DEF s
  <2>4. Finished' = Finished
    BY <1>1, <2>2, <2>3
  <2> QED
    BY <1>6, <2>4 DEF SendAnswered, SendThrows, tables, history, Record!vars
<1>7. ASSUME ReadToMark(m) PROVE Goal
  <2>1. PICK p \in {"done", "writing"} :
           sender' = [sender EXCEPT ![m] = [sender[m] EXCEPT !.seen = message[m], !.pc = p]]
    BY <1>0, <1>7 DEF ReadToMark, TypeOK
  <2> DEFINE s == [sender[m] EXCEPT !.seen = message[m], !.pc = p]
  <2>2. s \in SenderState /\ sender' = [sender EXCEPT ![m] = s]
    BY <1>0, <2>1 DEF TypeOK, SenderState
  <2> HIDE DEF s
  <2>3. UNCHANGED <<message, provided, stored, receipts>> /\ m \notin Finished
    BY <1>3, <1>7 DEF ReadToMark, tables, history, At
  <2>4. Finished' = Finished \/ Finished' = Finished \cup {m}
    BY <1>1, <2>2, <2>3
  <2> QED
    BY <2>3, <2>4 DEF Record!Next, Record!Finish, Record!vars
<1>8. ASSUME WriteMark(m) PROVE Goal
  <2>1. /\ sender[m].seen \in Statuses \cup {"none"} /\ sender[m].outcome \in Outcomes
        /\ sender[m].pc = "writing"
    BY <1>0, <1>8 DEF WriteMark, At, SenderState
  <2>2. NextStatus(sender[m].seen, sender[m].outcome) = sender[m].outcome
    BY <2>1, StatusFacts DEF WriteInv, Outcomes, Statuses
  <2>3. sender[m].outcome = "accepted" => provided[m].exists
    BY <2>1 DEF OnRecord
  <2>4. Record!Finish(m)
    BY <1>2, <1>3, <1>8, <2>1, <2>2, <2>3 DEF WriteMark, history, Outcomes,
       Record!Outcomes, Record!Finish
  <2> QED
    BY <2>4 DEF Record!Next
<1>9. ASSUME SenderStops(m) PROVE Goal
  <2>1. m \notin Finished /\ Finished' = Finished \cup {m}
    BY <1>2, <1>3, <1>9 DEF SenderStops
  <2> QED
    BY <1>9, <2>1 DEF SenderStops, tables, history, Record!Next, Record!Finish
<1> HIDE DEF Goal
<1>10. Goal
  BY <1>4, <1>5, <1>6, <1>7, <1>8, <1>9 DEF SenderStep
<1> QED
  BY <1>10 DEF Goal

\* However deliveries, commands, statements, exceptions and deaths interleave,
\* an event is applied to both rows in one step or leaves no trace in them, for
\* any e-mails, events and executions.
THEOREM TrackingImplementsRecord == Spec => ImplementsRecord
<1>1. Init => Record!Init /\ WriteInv /\ OnRecord
  BY DEF Init, Record!Init, WriteInv, OnRecord, IdleRun, NoRow, Finished, At
<1>2. TypeOK /\ WriteInv /\ [Next]_vars => WriteInv'
  BY WritesPreserved
<1>3. TrackInv /\ OnRecord /\ [Next]_vars => OnRecord'
  BY OnRecordPreserved
<1>4. TrackInv /\ WriteInv /\ OnRecord /\ [Next]_vars => [Record!Next]_(Record!vars)
  <2> SUFFICES ASSUME TrackInv, WriteInv, OnRecord, [Next]_vars
               PROVE [Record!Next]_(Record!vars)
    OBVIOUS
  <2>1. ASSUME NEW h \in Handlers, NEW e \in Events, Ingest(h, e) \/ Reprocess(h, e)
        PROVE [Record!Next]_(Record!vars)
    <3>1. \/ stored' = stored
          \/ stored[e] = "none" /\ stored' = [stored EXCEPT ![e] = "persisted"]
      BY <2>1, StartRuns DEF TrackInv
    <3>2. UNCHANGED <<message, provided, receipts, Finished>>
      BY <2>1 DEF Ingest, Reprocess, tables, sending, history, Finished, At
    <3> QED
      BY <3>1, <3>2 DEF Record!Next, Record!Store, Record!vars
  <2>2. CASE UNCHANGED vars
    BY <2>2 DEF vars, tables, history, Finished, At, Record!vars
  <2> QED
    BY <2>1, <2>2, HandlerRecords, SenderRecords DEF Next
<1>5. TypeInv => TypeOK
  BY DEF TypeInv
<1>6. TrackInv => TypeInv
  BY DEF TrackInv
<1> QED
  BY <1>1, <1>2, <1>3, <1>4, <1>5, <1>6, TrackInvariant, PTL
     DEF Spec, ImplementsRecord, Record!Spec
=============================================================================
