-------------------------- MODULE KeyRotationProofs --------------------------
(***************************************************************************)
(* Theorems about KeyRotation, for any tenants, entries, pollers, workers,  *)
(* versions and plans.                                                      *)
(***************************************************************************)
EXTENDS KeyRotation, FiniteSetTheorems, TLAPS

(***************************************************************************)
(* The inductive invariant, part by part.                                   *)
(***************************************************************************)

\* Only an active job has a lock, and a job that may run again has an attempt
\* left.
LocksActive ==
    \A j \in Jobs :
        /\ holder[j] # NoOne => job[j] = "active"
        /\ job[j] \in {"none", "waiting", "active"} => made[j] < Attempts

\* A worker that is not idle has a job; what it has read are rows.
Working ==
    \A w \in Workers :
        /\ wstep[w] # "idle" => work[w] \in Jobs
        /\ batch[w] \subseteq stored /\ owed[w] \subseteq stored

\* The version read is no newer than the primary until the data key is
\* wrapped, and no newer than the wrapping version from then on.
LabelsBehind ==
    \A e \in Entries :
        /\ sstep[e] # "none" => label[e] \in Versions
        /\ sstep[e] = "read" => label[e] <= primary
        /\ sstep[e] \in {"wrapped", "stored"} => label[e] <= wrap[e]

\* A poll has queued tenants of a rotation, or none.
Finding ==
    \A p \in Pollers :
        /\ pstep[p] # "idle" => observed[p] \in Versions
        /\ IF pstep[p] = "queueing" THEN Found(p) \in Rotations
                                    ELSE queued[p] = {}

\* The tenants a poll has queued have their job.
Announced ==
    \A p \in Pollers : pstep[p] = "queueing" =>
        \A t \in queued[p] : job[<<t, Found(p)>>] # "none"

\* One poll at a time holds the checkpoint's row, and rotates from its version.
Serial ==
    \A p \in Pollers : pstep[p] = "queueing" =>
        /\ \A q \in Pollers : pstep[q] = "queueing" => q = p
        /\ seen # NoVersion => from[p] = seen

\* What a worker owes is rewritten, in its batch, or left to a further batch,
\* and all of it is rewritten when it closes.
Owing ==
    \A w \in Workers :
        /\ wstep[w] = "applying" =>
              \A e \in owed[w] : \/ label[e] = Target(w) \/ e \in batch[w]
                                 \/ ~(Cardinality(batch[w]) < BatchSize)
        /\ wstep[w] = "closing" => \A e \in owed[w] : label[e] = Target(w)

IInv == /\ TypeOK /\ LocksActive /\ Working /\ LabelsBehind /\ Finding
        /\ TransitionIsQueued /\ Announced /\ Serial /\ Owing

\* The fields of a plan are bounds.
LEMMA PlanFields ==
    ASSUME TypeOK
    PROVE /\ plan.versions \in Versions
          /\ plan.manual \in Nat /\ plan.cancels \in Nat
          /\ plan.faults \in Nat
BY RotationAssumption DEF TypeOK, Plan

\* The target of a job is a version.
LEMMA TargetIsVersion ==
    ASSUME NEW w \in Workers, work[w] \in Jobs
    PROVE Target(w) \in Versions
BY DEF Jobs, Rotations, Target

\* A poll rotates from versions.
LEMMA PreviousAreVersions ==
    ASSUME TypeOK, LabelsBehind, NEW p \in Pollers
    PROVE Previous(p) \subseteq Versions \ {observed[p]}
BY DEF TypeOK, LabelsBehind, Previous, StaleVersions, stored, NoVersion

\* Every step keeps the state in its domains.
LEMMA TypePreserved ==
    ASSUME IInv, [Next]_vars PROVE TypeOK'
<1>0. TypeOK /\ LocksActive /\ Working /\ LabelsBehind /\ Finding
  BY DEF IInv
<1>1. ASSUME NewVersion PROVE TypeOK'
  BY <1>0, <1>1, PlanFields, RotationAssumption DEF NewVersion, checkpoint,
     poll, entries, queue, worker, bounds, Versions, TypeOK, JobStates,
     Statuses, WorkerSteps
<1>2. ASSUME NEW e \in Entries, StoreReadVersion(e) PROVE TypeOK'
  BY <1>0, <1>2, PlanFields, RotationAssumption DEF StoreReadVersion,
     checkpoint, poll, queue, worker, bounds, TypeOK, JobStates, Statuses,
     WorkerSteps
<1>3. ASSUME NEW e \in Entries, StoreWrap(e) PROVE TypeOK'
  BY <1>0, <1>3, PlanFields, RotationAssumption DEF StoreWrap, checkpoint,
     poll, queue, worker, bounds, TypeOK, JobStates, Statuses, WorkerSteps
<1>4. ASSUME NEW e \in Entries, StoreInsert(e) PROVE TypeOK'
  BY <1>0, <1>4, PlanFields, RotationAssumption DEF StoreInsert, checkpoint,
     poll, queue, worker, bounds, TypeOK, JobStates, Statuses, WorkerSteps
<1>5. ASSUME NEW p \in Pollers, PollReadVersion(p) PROVE TypeOK'
  BY <1>0, <1>5, PlanFields, RotationAssumption DEF PollReadVersion,
     checkpoint, entries, queue, worker, bounds, TypeOK, JobStates, Statuses,
     WorkerSteps
<1>6. ASSUME NEW p \in Pollers, PollCompare(p) PROVE TypeOK'
  BY <1>0, <1>6, PlanFields, RotationAssumption, PreviousAreVersions, SMTT(30) DEF
     PollCompare, EndPoll, BeginQueueing, entries, queue, worker, bounds,
     TypeOK, JobStates, Statuses, WorkerSteps
<1>7. ASSUME NEW p \in Pollers, NEW t \in Tenants, QueueTenant(p, t)
     PROVE TypeOK'
  BY <1>0, <1>7, PlanFields, RotationAssumption DEF QueueTenant, Enqueued,
     checkpoint, entries, worker, bounds, TypeOK, JobStates, Statuses,
     WorkerSteps
<1>8. ASSUME NEW p \in Pollers, PollCommit(p) PROVE TypeOK'
  BY <1>0, <1>8, PlanFields, RotationAssumption DEF PollCommit, EndPoll,
     entries, queue, worker, bounds, Finding, TypeOK, JobStates, Statuses,
     WorkerSteps
<1>9. ASSUME NEW p \in Pollers, PollAbort(p) PROVE TypeOK'
  BY <1>0, <1>9, PlanFields, RotationAssumption DEF PollAbort, Fault, EndPoll,
     Enqueued, checkpoint, entries, worker, bounds, TypeOK, JobStates,
     Statuses, WorkerSteps
<1>10. ASSUME NEW t \in Tenants, NEW k \in Rotations, QueueManual(t, k)
     PROVE TypeOK'
  BY <1>0, <1>10, PlanFields, RotationAssumption DEF QueueManual, Enqueued,
     checkpoint, poll, entries, worker, TypeOK, JobStates, Statuses,
     WorkerSteps
<1>11. ASSUME NEW w \in Workers, NEW j \in Jobs, TakeJob(w, j) PROVE TypeOK'
  BY <1>0, <1>11, PlanFields, RotationAssumption DEF TakeJob, checkpoint,
     poll, entries, bounds, TypeOK, JobStates, Statuses, WorkerSteps
<1>12. ASSUME NEW j \in Jobs, LoseLock(j) PROVE TypeOK'
  BY <1>0, <1>12, PlanFields, RotationAssumption DEF LoseLock, Fault,
     checkpoint, poll, entries, worker, bounds, TypeOK, JobStates, Statuses,
     WorkerSteps
<1>13. ASSUME NEW j \in Jobs, Recover(j) PROVE TypeOK'
  BY <1>0, <1>13, PlanFields, RotationAssumption DEF Recover, checkpoint,
     poll, entries, worker, bounds, TypeOK, JobStates, Statuses, WorkerSteps
<1>14. ASSUME NEW w \in Workers, Crash(w) PROVE TypeOK'
  BY <1>0, <1>14, PlanFields, RotationAssumption DEF Crash, Fault, Leave,
     checkpoint, poll, entries, bounds, TypeOK, JobStates, Statuses,
     WorkerSteps
<1>15. ASSUME NEW w \in Workers, OpenState(w) PROVE TypeOK'
  <2>1. CASE status[work[w]] \in {"completed", "cancelled"}
    <3>1. /\ Leave(w) /\ Succeeded(w) /\ UNCHANGED status
          /\ UNCHANGED <<primary, checkpoint, poll, entries, made, stalls,
                         cancelling, bounds>>
      BY <1>15, <2>1 DEF OpenState
    <3>2. /\ wstep' \in [Workers -> WorkerSteps]
          /\ work' \in [Workers -> Jobs \cup {NoJob}]
          /\ batch' \in [Workers -> SUBSET Entries]
          /\ owed' \in [Workers -> SUBSET Entries]
      BY <1>0, <3>1 DEF Leave, TypeOK, WorkerSteps
    <3>3. /\ job' \in [Jobs -> JobStates]
          /\ holder' \in [Jobs -> Workers \cup {NoOne}]
      BY <1>0, <3>1 DEF Succeeded, TypeOK, JobStates
    <3> QED
      BY <1>0, <3>1, <3>2, <3>3
      DEF checkpoint, poll, entries, bounds, TypeOK
  <2>2. CASE status[work[w]] \in {"none", "in_progress"}
    BY <1>0, <1>15, <2>2, PlanFields, RotationAssumption DEF OpenState, Go,
       checkpoint, poll, entries, bounds, TypeOK, Statuses, WorkerSteps
  <2>3. CASE status[work[w]] = "failed"
    BY <1>0, <1>15, <2>3, PlanFields, RotationAssumption DEF OpenState, Go,
       checkpoint, poll, entries, bounds, TypeOK, Statuses, WorkerSteps
  <2> QED
    BY <1>15, <2>1, <2>2, <2>3 DEF OpenState
<1>16. ASSUME NEW w \in Workers, ResetState(w) PROVE TypeOK'
  BY <1>0, <1>16, PlanFields, RotationAssumption DEF ResetState, Go,
     checkpoint, poll, entries, queue, bounds, TypeOK, JobStates, Statuses,
     WorkerSteps
<1>17. ASSUME NEW w \in Workers, ReadBatch(w) PROVE TypeOK'
  BY <1>0, <1>17, PlanFields, RotationAssumption DEF ReadBatch, checkpoint,
     poll, entries, queue, bounds, stored, Unrotated, TypeOK, JobStates,
     Statuses, WorkerSteps
<1>18. ASSUME NEW w \in Workers, ApplyBatch(w) PROVE TypeOK'
  BY <1>0, <1>18, PlanFields, RotationAssumption, TargetIsVersion DEF
     ApplyBatch, Go, Rewrapped, checkpoint, poll, queue, bounds, Working,
     TypeOK, JobStates, Statuses, WorkerSteps
<1>19. ASSUME NEW w \in Workers, CloseState(w) PROVE TypeOK'
  BY <1>0, <1>19, PlanFields, RotationAssumption DEF CloseState, Go,
     checkpoint, poll, entries, queue, bounds, TypeOK, JobStates, Statuses,
     WorkerSteps
<1>20. ASSUME NEW w \in Workers, FinishJob(w) PROVE TypeOK'
  BY <1>0, <1>20, PlanFields, RotationAssumption DEF FinishJob, Leave,
     Succeeded, checkpoint, poll, entries, bounds, TypeOK, JobStates,
     Statuses, WorkerSteps
<1>21. ASSUME NEW w \in Workers, OpeningFails(w) PROVE TypeOK'
  <2>1. work[w] \in Jobs
    BY <1>0, <1>21 DEF OpeningFails, Working
  <2>2. made' \in [Jobs -> 0..Attempts] /\ job' \in [Jobs -> JobStates]
    BY <1>0, <1>21, <2>1, RotationAssumption DEF OpeningFails, AttemptFailed,
       LocksActive, TypeOK, JobStates
  <2> QED
    BY <1>0, <1>21, <2>1, <2>2, PlanFields DEF OpeningFails, Fault, Leave,
       AttemptFailed, checkpoint, poll, entries, bounds, TypeOK, JobStates,
       WorkerSteps
<1>22. ASSUME NEW w \in Workers, StepFails(w) PROVE TypeOK'
  BY <1>0, <1>22, PlanFields, RotationAssumption DEF StepFails, Fault, Go,
     checkpoint, poll, entries, queue, bounds, TypeOK, JobStates, Statuses,
     WorkerSteps
<1>23. ASSUME NEW w \in Workers, MarkFailed(w) PROVE TypeOK'
  <2>1. work[w] \in Jobs
    BY <1>0, <1>23 DEF MarkFailed, Working
  <2>2. made' \in [Jobs -> 0..Attempts] /\ job' \in [Jobs -> JobStates]
    BY <1>0, <1>23, <2>1, RotationAssumption DEF MarkFailed, AttemptFailed,
       LocksActive, TypeOK, JobStates
  <2>3. /\ status' \in [Jobs -> Statuses] /\ faults' \in 0..plan.faults
        /\ UNCHANGED <<plan, manual, cancels>>
    BY <1>0, <1>23, PlanFields DEF MarkFailed, Fault, bounds, TypeOK, Statuses
  <2> QED
    BY <1>0, <1>23, <2>1, <2>2, <2>3 DEF MarkFailed, Leave, AttemptFailed,
       checkpoint, poll, entries, TypeOK, WorkerSteps
<1>24. ASSUME NEW j \in Jobs, CancelRead(j) PROVE TypeOK'
  BY <1>0, <1>24, PlanFields, RotationAssumption DEF CancelRead, checkpoint,
     poll, entries, queue, worker, TypeOK, JobStates, Statuses, WorkerSteps
<1>25. ASSUME NEW j \in Jobs, CancelWrite(j) PROVE TypeOK'
  BY <1>0, <1>25, PlanFields, RotationAssumption DEF CancelWrite, checkpoint,
     poll, entries, queue, worker, bounds, TypeOK, JobStates, Statuses,
     WorkerSteps
<1>26. CASE UNCHANGED vars
  BY <1>0, <1>26 DEF vars, bounds, checkpoint, entries, poll, queue, worker,
     TypeOK, JobStates, Statuses, WorkerSteps
<1> QED
  BY <1>1, <1>2, <1>3, <1>4, <1>5, <1>6, <1>7, <1>8, <1>9, <1>10, <1>11,
     <1>12, <1>13, <1>14, <1>15, <1>16, <1>17, <1>18, <1>19, <1>20, <1>21,
     <1>22, <1>23, <1>24, <1>25, <1>26
  DEF Next, StoreStep, Poll, Work, RotateKey

\* A lock is given with an active job, and an attempt is counted with the lock.
LEMMA LocksPreserved ==
    ASSUME IInv, [Next]_vars PROVE LocksActive'
<1>0. TypeOK /\ LocksActive /\ Working
  BY DEF IInv
<1>1. ASSUME NEW p \in Pollers, NEW t \in Tenants, QueueTenant(p, t)
     PROVE LocksActive'
  BY <1>0, <1>1, RotationAssumption DEF QueueTenant, Enqueued, checkpoint,
     entries, worker, bounds, TypeOK, LocksActive, Working
<1>2. ASSUME NEW p \in Pollers, PollAbort(p) PROVE LocksActive'
  BY <1>0, <1>2, RotationAssumption DEF PollAbort, Fault, EndPoll, Enqueued,
     checkpoint, entries, worker, bounds, TypeOK, LocksActive, Working
<1>3. ASSUME NEW t \in Tenants, NEW k \in Rotations, QueueManual(t, k)
     PROVE LocksActive'
  BY <1>0, <1>3, RotationAssumption DEF QueueManual, Enqueued, checkpoint,
     poll, entries, worker, TypeOK, LocksActive, Working
<1>4. ASSUME NEW w \in Workers, NEW j \in Jobs, TakeJob(w, j)
     PROVE LocksActive'
  BY <1>0, <1>4, RotationAssumption DEF TakeJob, checkpoint, poll, entries,
     bounds, TypeOK, LocksActive, Working
<1>5. ASSUME NEW j \in Jobs, LoseLock(j) PROVE LocksActive'
  BY <1>0, <1>5, RotationAssumption DEF LoseLock, Fault, checkpoint, poll,
     entries, worker, bounds, TypeOK, LocksActive, Working
<1>6. ASSUME NEW j \in Jobs, Recover(j) PROVE LocksActive'
  BY <1>0, <1>6, RotationAssumption DEF Recover, checkpoint, poll, entries,
     worker, bounds, TypeOK, LocksActive, Working
<1>7. ASSUME NEW w \in Workers, Crash(w) PROVE LocksActive'
  BY <1>0, <1>7, RotationAssumption DEF Crash, Fault, Leave, checkpoint, poll,
     entries, bounds, TypeOK, LocksActive, Working
<1>8. ASSUME NEW w \in Workers, OpenState(w) PROVE LocksActive'
  BY <1>0, <1>8, RotationAssumption DEF OpenState, Leave, Succeeded, Go,
     checkpoint, poll, entries, bounds, TypeOK, LocksActive, Working
<1>9. ASSUME NEW w \in Workers, FinishJob(w) PROVE LocksActive'
  BY <1>0, <1>9, RotationAssumption DEF FinishJob, Leave, Succeeded,
     checkpoint, poll, entries, bounds, TypeOK, LocksActive, Working
<1>10. ASSUME NEW w \in Workers, OpeningFails(w) PROVE LocksActive'
  BY <1>0, <1>10, RotationAssumption DEF OpeningFails, Fault, Leave,
     AttemptFailed, checkpoint, poll, entries, bounds, TypeOK, LocksActive,
     Working
<1>11. ASSUME NEW w \in Workers, MarkFailed(w) PROVE LocksActive'
  BY <1>0, <1>11, RotationAssumption DEF MarkFailed, Fault, Leave,
     AttemptFailed, checkpoint, poll, entries, bounds, TypeOK, LocksActive,
     Working
<1>12. ASSUME UNCHANGED <<job, holder, made>> PROVE LocksActive'
  BY <1>0, <1>12 DEF TypeOK, LocksActive, Working
<1> QED
  BY <1>1, <1>2, <1>3, <1>4, <1>5, <1>6, <1>7, <1>8, <1>9, <1>10, <1>11, <1>12
  DEF Next, StoreStep, Poll, Work, RotateKey, vars, NewVersion,
     StoreReadVersion, StoreWrap, StoreInsert, PollReadVersion, PollCompare,
     EndPoll, BeginQueueing, PollCommit, ResetState, Go, ReadBatch,
     ApplyBatch, Rewrapped, CloseState, StepFails, Fault, CancelRead,
     CancelWrite, bounds, checkpoint, entries, poll, queue, worker

\* A worker keeps to its job, and no row goes away.
LEMMA WorkingPreserved ==
    ASSUME IInv, [Next]_vars PROVE Working'
<1>0. TypeOK /\ Working
  BY DEF IInv
<1>1. ASSUME NEW e \in Entries, StoreReadVersion(e) PROVE Working'
  BY <1>0, <1>1 DEF StoreReadVersion, checkpoint, poll, queue, worker, bounds,
     TypeOK, Working, stored
<1>2. ASSUME NEW e \in Entries, StoreWrap(e) PROVE Working'
  BY <1>0, <1>2 DEF StoreWrap, checkpoint, poll, queue, worker, bounds,
     TypeOK, Working, stored
<1>3. ASSUME NEW e \in Entries, StoreInsert(e) PROVE Working'
  BY <1>0, <1>3 DEF StoreInsert, checkpoint, poll, queue, worker, bounds,
     TypeOK, Working, stored
<1>4. ASSUME NEW w \in Workers, NEW j \in Jobs, TakeJob(w, j) PROVE Working'
  BY <1>0, <1>4 DEF TakeJob, checkpoint, poll, entries, bounds, TypeOK,
     Working, stored
<1>5. ASSUME NEW w \in Workers, Crash(w) PROVE Working'
  BY <1>0, <1>5 DEF Crash, Fault, Leave, checkpoint, poll, entries, bounds,
     TypeOK, Working, stored
<1>6. ASSUME NEW w \in Workers, OpenState(w) PROVE Working'
  BY <1>0, <1>6 DEF OpenState, Leave, Succeeded, Go, checkpoint, poll,
     entries, bounds, TypeOK, Working, stored
<1>7. ASSUME NEW w \in Workers, ResetState(w) PROVE Working'
  BY <1>0, <1>7 DEF ResetState, Go, checkpoint, poll, entries, queue, bounds,
     TypeOK, Working, stored
<1>8. ASSUME NEW w \in Workers, ReadBatch(w) PROVE Working'
  BY <1>0, <1>8 DEF ReadBatch, checkpoint, poll, entries, queue, bounds,
     Unrotated, TypeOK, Working, stored
<1>9. ASSUME NEW w \in Workers, ApplyBatch(w) PROVE Working'
  BY <1>0, <1>9 DEF ApplyBatch, Go, Rewrapped, checkpoint, poll, queue,
     bounds, TypeOK, Working, stored
<1>10. ASSUME NEW w \in Workers, CloseState(w) PROVE Working'
  BY <1>0, <1>10 DEF CloseState, Go, checkpoint, poll, entries, queue, bounds,
     TypeOK, Working, stored
<1>11. ASSUME NEW w \in Workers, FinishJob(w) PROVE Working'
  BY <1>0, <1>11 DEF FinishJob, Leave, Succeeded, checkpoint, poll, entries,
     bounds, TypeOK, Working, stored
<1>12. ASSUME NEW w \in Workers, OpeningFails(w) PROVE Working'
  BY <1>0, <1>12 DEF OpeningFails, Fault, Leave, AttemptFailed, checkpoint,
     poll, entries, bounds, TypeOK, Working, stored
<1>13. ASSUME NEW w \in Workers, StepFails(w) PROVE Working'
  BY <1>0, <1>13 DEF StepFails, Fault, Go, checkpoint, poll, entries, queue,
     bounds, TypeOK, Working, stored
<1>14. ASSUME NEW w \in Workers, MarkFailed(w) PROVE Working'
  BY <1>0, <1>14 DEF MarkFailed, Fault, Leave, AttemptFailed, checkpoint,
     poll, entries, bounds, TypeOK, Working, stored
<1>15. ASSUME UNCHANGED <<wstep, work, batch, owed, sstep>> PROVE Working'
  BY <1>0, <1>15 DEF TypeOK, Working, stored
<1> QED
  BY <1>1, <1>2, <1>3, <1>4, <1>5, <1>6, <1>7, <1>8, <1>9, <1>10, <1>11,
     <1>12, <1>13, <1>14, <1>15
  DEF Next, StoreStep, Poll, Work, RotateKey, vars, NewVersion,
     PollReadVersion, PollCompare, EndPoll, BeginQueueing, QueueTenant,
     Enqueued, PollCommit, PollAbort, Fault, QueueManual, LoseLock, Recover,
     CancelRead, CancelWrite, bounds, checkpoint, entries, poll, queue, worker

\* The version is read before the data key is wrapped.
LEMMA LabelsPreserved ==
    ASSUME IInv, [Next]_vars PROVE LabelsBehind'
<1>0. TypeOK /\ Working /\ LabelsBehind
  BY DEF IInv
<1>1. ASSUME NewVersion PROVE LabelsBehind'
  BY <1>0, <1>1 DEF NewVersion, checkpoint, poll, entries, queue, worker,
     bounds, Versions, TypeOK, LabelsBehind, stored
<1>2. ASSUME NEW e \in Entries, StoreReadVersion(e) PROVE LabelsBehind'
  BY <1>0, <1>2 DEF StoreReadVersion, checkpoint, poll, queue, worker, bounds,
     Versions, TypeOK, LabelsBehind, stored
<1>3. ASSUME NEW e \in Entries, StoreWrap(e) PROVE LabelsBehind'
  BY <1>0, <1>3 DEF StoreWrap, checkpoint, poll, queue, worker, bounds,
     Versions, TypeOK, LabelsBehind, stored
<1>4. ASSUME NEW e \in Entries, StoreInsert(e) PROVE LabelsBehind'
  BY <1>0, <1>4 DEF StoreInsert, checkpoint, poll, queue, worker, bounds,
     TypeOK, LabelsBehind, stored
<1>5. ASSUME NEW w \in Workers, ApplyBatch(w) PROVE LabelsBehind'
  BY <1>0, <1>5, TargetIsVersion DEF ApplyBatch, Go, Rewrapped, checkpoint,
     poll, queue, bounds, Working, Versions, TypeOK, LabelsBehind, stored
<1>6. ASSUME UNCHANGED <<primary, sstep, label, wrap>> PROVE LabelsBehind'
  BY <1>0, <1>6 DEF TypeOK, LabelsBehind, stored
<1> QED
  BY <1>1, <1>2, <1>3, <1>4, <1>5, <1>6
  DEF Next, StoreStep, Poll, Work, RotateKey, vars, PollReadVersion,
     PollCompare, EndPoll, BeginQueueing, QueueTenant, Enqueued, PollCommit,
     PollAbort, Fault, QueueManual, TakeJob, LoseLock, Recover, Crash, Leave,
     OpenState, Succeeded, Go, ResetState, ReadBatch, CloseState, FinishJob,
     OpeningFails, AttemptFailed, StepFails, MarkFailed, CancelRead,
     CancelWrite, bounds, checkpoint, entries, poll, queue, worker

\* A transition is between two versions.
LEMMA FindingPreserved ==
    ASSUME IInv, [Next]_vars PROVE Finding'
<1>0. TypeOK /\ LabelsBehind /\ Finding
  BY DEF IInv
<1>1. ASSUME NEW p \in Pollers, PollReadVersion(p) PROVE Finding'
  BY <1>0, <1>1 DEF PollReadVersion, checkpoint, entries, queue, worker,
     bounds, TypeOK, Finding, Found
<1>2. ASSUME NEW p \in Pollers, PollCompare(p) PROVE Finding'
  <2>1. CASE EndPoll(p)
    BY <1>0, <2>1 DEF EndPoll, TypeOK, Finding, Found
  <2>2. ASSUME NEW v \in Previous(p), BeginQueueing(p, v) PROVE Finding'
    <3>1. observed[p] \in Versions /\ <<v, observed[p]>> \in Rotations
      BY <1>0, <1>2, PreviousAreVersions DEF PollCompare, Finding, Rotations
    <3>2. /\ pstep'[p] = "queueing" /\ Found(p)' = <<v, observed[p]>>
          /\ UNCHANGED <<observed, queued>>
      BY <1>0, <2>2 DEF BeginQueueing, TypeOK, Found
    <3>3. \A q \in Pollers \ {p} : pstep'[q] = pstep[q] /\ Found(q)' = Found(q)
      BY <1>0, <2>2 DEF BeginQueueing, TypeOK, Found
    <3> QED
      BY <1>0, <3>1, <3>2, <3>3 DEF Finding
  <2> QED
    BY <1>2, <2>1, <2>2 DEF PollCompare
<1>3. ASSUME NEW p \in Pollers, NEW t \in Tenants, QueueTenant(p, t)
     PROVE Finding'
  BY <1>0, <1>3 DEF QueueTenant, Enqueued, checkpoint, entries, worker,
     bounds, TypeOK, Finding, Found
<1>4. ASSUME NEW p \in Pollers, PollCommit(p) PROVE Finding'
  BY <1>0, <1>4 DEF PollCommit, EndPoll, entries, queue, worker, bounds,
     TypeOK, Finding, Found
<1>5. ASSUME NEW p \in Pollers, PollAbort(p) PROVE Finding'
  BY <1>0, <1>5 DEF PollAbort, Fault, EndPoll, Enqueued, checkpoint, entries,
     worker, bounds, TypeOK, Finding, Found
<1>6. ASSUME UNCHANGED <<pstep, observed, from, queued>> PROVE Finding'
  BY <1>0, <1>6 DEF TypeOK, Finding, Found
<1> QED
  BY <1>1, <1>2, <1>3, <1>4, <1>5, <1>6
  DEF Next, StoreStep, Poll, Work, RotateKey, vars, NewVersion,
     StoreReadVersion, StoreWrap, StoreInsert, QueueManual, Enqueued, TakeJob,
     LoseLock, Fault, Recover, Crash, Leave, OpenState, Succeeded, Go,
     ResetState, ReadBatch, ApplyBatch, Rewrapped, CloseState, FinishJob,
     OpeningFails, AttemptFailed, StepFails, MarkFailed, CancelRead,
     CancelWrite, bounds, checkpoint, entries, poll, queue, worker

\* A job that is in the queue stays there.
LEMMA JobsStay ==
    ASSUME IInv, [Next]_vars, NEW i \in Jobs, job[i] # "none"
    PROVE job'[i] # "none"
<1>0. TypeOK /\ Working
  BY DEF IInv
<1>1. ASSUME NEW p \in Pollers, NEW t \in Tenants, QueueTenant(p, t)
     PROVE job'[i] # "none"
  BY <1>0, <1>1 DEF QueueTenant, Enqueued, checkpoint, entries, worker,
     bounds, TypeOK
<1>2. ASSUME NEW p \in Pollers, PollAbort(p) PROVE job'[i] # "none"
  BY <1>0, <1>2 DEF PollAbort, Fault, EndPoll, Enqueued, checkpoint, entries,
     worker, bounds, TypeOK
<1>3. ASSUME NEW t \in Tenants, NEW k \in Rotations, QueueManual(t, k)
     PROVE job'[i] # "none"
  BY <1>0, <1>3 DEF QueueManual, Enqueued, checkpoint, poll, entries, worker,
     TypeOK
<1>4. ASSUME NEW w \in Workers, NEW j \in Jobs, TakeJob(w, j)
     PROVE job'[i] # "none"
  BY <1>0, <1>4 DEF TakeJob, checkpoint, poll, entries, bounds, TypeOK
<1>5. ASSUME NEW j \in Jobs, Recover(j) PROVE job'[i] # "none"
  BY <1>0, <1>5 DEF Recover, checkpoint, poll, entries, worker, bounds, TypeOK
<1>6. ASSUME NEW w \in Workers, OpenState(w) PROVE job'[i] # "none"
  BY <1>0, <1>6 DEF OpenState, Leave, Succeeded, Go, checkpoint, poll,
     entries, bounds, Working, TypeOK
<1>7. ASSUME NEW w \in Workers, FinishJob(w) PROVE job'[i] # "none"
  BY <1>0, <1>7 DEF FinishJob, Leave, Succeeded, checkpoint, poll, entries,
     bounds, Working, TypeOK
<1>8. ASSUME NEW w \in Workers, OpeningFails(w) PROVE job'[i] # "none"
  BY <1>0, <1>8 DEF OpeningFails, Fault, Leave, AttemptFailed, checkpoint,
     poll, entries, bounds, Working, TypeOK
<1>9. ASSUME NEW w \in Workers, MarkFailed(w) PROVE job'[i] # "none"
  BY <1>0, <1>9 DEF MarkFailed, Fault, Leave, AttemptFailed, checkpoint, poll,
     entries, bounds, Working, TypeOK
<1>10. ASSUME UNCHANGED <<job>> PROVE job'[i] # "none"
  BY <1>0, <1>10 DEF TypeOK
<1> QED
  BY <1>1, <1>2, <1>3, <1>4, <1>5, <1>6, <1>7, <1>8, <1>9, <1>10
  DEF Next, StoreStep, Poll, Work, RotateKey, vars, NewVersion,
     StoreReadVersion, StoreWrap, StoreInsert, PollReadVersion, PollCompare,
     EndPoll, BeginQueueing, PollCommit, LoseLock, Fault, Crash, Leave,
     ResetState, Go, ReadBatch, ApplyBatch, Rewrapped, CloseState, StepFails,
     CancelRead, CancelWrite, bounds, checkpoint, entries, poll, queue, worker

\* A poll has queued what it has marked, and jobs stay.
LEMMA AnnouncedPreserved ==
    ASSUME IInv, [Next]_vars PROVE Announced'
<1>0. TypeOK /\ Finding /\ Announced
  BY DEF IInv
<1>1. ASSUME NEW p \in Pollers, PollReadVersion(p) PROVE Announced'
  BY <1>0, <1>1, JobsStay DEF PollReadVersion, checkpoint, entries, queue,
     worker, bounds, TypeOK, Finding, Announced, Found, Jobs
<1>2. ASSUME NEW p \in Pollers, PollCompare(p) PROVE Announced'
  <2>1. queued[p] = {} /\ queued' = [queued EXCEPT ![p] = {}]
    BY <1>0, <1>2 DEF PollCompare, BeginQueueing, EndPoll, TypeOK, Finding
  <2>2. \A q \in Pollers \ {p} : pstep'[q] = pstep[q] /\ Found(q)' = Found(q)
    BY <1>0, <1>2 DEF PollCompare, BeginQueueing, EndPoll, TypeOK, Found
  <2> QED
    BY <1>0, <1>2, <2>1, <2>2 DEF PollCompare, queue, TypeOK, Announced
<1>3. ASSUME NEW p \in Pollers, NEW t \in Tenants, QueueTenant(p, t)
     PROVE Announced'
  BY <1>0, <1>3, JobsStay DEF QueueTenant, Enqueued, checkpoint, entries,
     worker, bounds, TypeOK, Finding, Announced, Found, Jobs
<1>4. ASSUME NEW p \in Pollers, PollCommit(p) PROVE Announced'
  BY <1>0, <1>4, JobsStay DEF PollCommit, EndPoll, entries, queue, worker,
     bounds, TypeOK, Finding, Announced, Found, Jobs
<1>5. ASSUME NEW p \in Pollers, PollAbort(p) PROVE Announced'
  BY <1>0, <1>5, JobsStay DEF PollAbort, Fault, EndPoll, Enqueued, checkpoint,
     entries, worker, bounds, TypeOK, Finding, Announced, Found, Jobs
<1>6. ASSUME UNCHANGED <<pstep, observed, from, queued>> PROVE Announced'
  BY <1>0, <1>6, JobsStay, SMTT(30) DEF TypeOK, Finding, Announced, Found, Jobs
<1> QED
  BY <1>1, <1>2, <1>3, <1>4, <1>5, <1>6
  DEF Next, StoreStep, Poll, Work, RotateKey, vars, NewVersion,
     StoreReadVersion, StoreWrap, StoreInsert, QueueManual, Enqueued, TakeJob,
     LoseLock, Fault, Recover, Crash, Leave, OpenState, Succeeded, Go,
     ResetState, ReadBatch, ApplyBatch, Rewrapped, CloseState, FinishJob,
     OpeningFails, AttemptFailed, StepFails, MarkFailed, CancelRead,
     CancelWrite, bounds, checkpoint, entries, poll, queue, worker

\* A transition is recorded when all its tenants are queued.
LEMMA QueuedPreserved ==
    ASSUME IInv, [Next]_vars PROVE TransitionIsQueued'
<1>0. TypeOK /\ TransitionIsQueued /\ Announced /\ Finding
  BY DEF IInv
<1>1. ASSUME NEW p \in Pollers, PollCommit(p) PROVE TransitionIsQueued'
  BY <1>0, <1>1, JobsStay DEF PollCommit, EndPoll, entries, queue, worker,
     bounds, Announced, Finding, TypeOK, TransitionIsQueued, Jobs
<1>2. ASSUME UNCHANGED <<processed>> PROVE TransitionIsQueued'
  BY <1>0, <1>2, JobsStay DEF TypeOK, TransitionIsQueued, Jobs
<1> QED
  BY <1>1, <1>2
  DEF Next, StoreStep, Poll, Work, RotateKey, vars, NewVersion,
     StoreReadVersion, StoreWrap, StoreInsert, PollReadVersion, PollCompare,
     EndPoll, BeginQueueing, QueueTenant, Enqueued, PollAbort, Fault,
     QueueManual, TakeJob, LoseLock, Recover, Crash, Leave, OpenState,
     Succeeded, Go, ResetState, ReadBatch, ApplyBatch, Rewrapped, CloseState,
     FinishJob, OpeningFails, AttemptFailed, StepFails, MarkFailed,
     CancelRead, CancelWrite, bounds, checkpoint, entries, poll, queue, worker

\* The checkpoint's row is locked to the end of the transaction.
LEMMA SerialPreserved ==
    ASSUME IInv, [Next]_vars PROVE Serial'
<1>0. TypeOK /\ Serial
  BY DEF IInv
<1>1. ASSUME NEW p \in Pollers, PollReadVersion(p) PROVE Serial'
  BY <1>0, <1>1 DEF PollReadVersion, checkpoint, entries, queue, worker,
     bounds, TypeOK, Serial, NoVersion
<1>2. ASSUME NEW p \in Pollers, PollCompare(p) PROVE Serial'
  BY <1>0, <1>2 DEF PollCompare, EndPoll, BeginQueueing, entries, queue,
     worker, bounds, RowFree, Previous, TypeOK, Serial, NoVersion
<1>3. ASSUME NEW p \in Pollers, PollCommit(p) PROVE Serial'
  BY <1>0, <1>3 DEF PollCommit, EndPoll, entries, queue, worker, bounds,
     TypeOK, Serial, NoVersion
<1>4. ASSUME NEW p \in Pollers, PollAbort(p) PROVE Serial'
  BY <1>0, <1>4 DEF PollAbort, Fault, EndPoll, Enqueued, checkpoint, entries,
     worker, bounds, TypeOK, Serial, NoVersion
<1>5. ASSUME UNCHANGED <<pstep, from, seen>> PROVE Serial'
  BY <1>0, <1>5 DEF TypeOK, Serial, NoVersion
<1> QED
  BY <1>1, <1>2, <1>3, <1>4, <1>5
  DEF Next, StoreStep, Poll, Work, RotateKey, vars, NewVersion,
     StoreReadVersion, StoreWrap, StoreInsert, QueueTenant, Enqueued,
     QueueManual, TakeJob, LoseLock, Fault, Recover, Crash, Leave, OpenState,
     Succeeded, Go, ResetState, ReadBatch, ApplyBatch, Rewrapped, CloseState,
     FinishJob, OpeningFails, AttemptFailed, StepFails, MarkFailed,
     CancelRead, CancelWrite, bounds, checkpoint, entries, poll, queue, worker

\* What a worker has not rewritten is in its batch or in a further one.
LEMMA OwingPreserved ==
    ASSUME IInv, [Next]_vars PROVE Owing'
<1>0. TypeOK /\ Working /\ Owing
  BY DEF IInv
<1>1. ASSUME NEW e \in Entries, StoreReadVersion(e) PROVE Owing'
  BY <1>0, <1>1 DEF StoreReadVersion, checkpoint, poll, queue, worker, bounds,
     TypeOK, Working, Owing, stored, Target
<1>2. ASSUME NEW e \in Entries, StoreWrap(e) PROVE Owing'
  BY <1>0, <1>2 DEF StoreWrap, checkpoint, poll, queue, worker, bounds,
     TypeOK, Working, Owing, stored, Target
<1>3. ASSUME NEW e \in Entries, StoreInsert(e) PROVE Owing'
  BY <1>0, <1>3 DEF StoreInsert, checkpoint, poll, queue, worker, bounds,
     TypeOK, Working, Owing, stored, Target
<1>4. ASSUME NEW w \in Workers, NEW j \in Jobs, TakeJob(w, j) PROVE Owing'
  BY <1>0, <1>4 DEF TakeJob, checkpoint, poll, entries, bounds, TypeOK,
     Working, Owing, stored, Target
<1>5. ASSUME NEW w \in Workers, Crash(w) PROVE Owing'
  BY <1>0, <1>5 DEF Crash, Fault, Leave, checkpoint, poll, entries, bounds,
     TypeOK, Working, Owing, stored, Target
<1>6. ASSUME NEW w \in Workers, OpenState(w) PROVE Owing'
  BY <1>0, <1>6 DEF OpenState, Leave, Succeeded, Go, checkpoint, poll,
     entries, bounds, TypeOK, Working, Owing, stored, Target
<1>7. ASSUME NEW w \in Workers, ResetState(w) PROVE Owing'
  BY <1>0, <1>7 DEF ResetState, Go, checkpoint, poll, entries, queue, bounds,
     TypeOK, Working, Owing, stored, Target
<1>8. ASSUME NEW w \in Workers, ReadBatch(w) PROVE Owing'
  <2>1. PICK b \in SUBSET Unrotated(w) :
              /\ b = Unrotated(w) \/ Cardinality(b) = BatchSize
              /\ batch' = [batch EXCEPT ![w] = b]
              /\ wstep' = [wstep EXCEPT ![w] =
                             IF b = {} THEN "closing" ELSE "applying"]
    BY <1>8 DEF ReadBatch
  <2>2. b = {} => Unrotated(w) = {}
    BY <2>1, FS_EmptySet, RotationAssumption
  <2>3. Cardinality(b) = BatchSize => ~(Cardinality(b) < BatchSize)
    BY RotationAssumption
  <2>4. /\ owed' = [owed EXCEPT ![w] =
                       {e \in stored : TenantOf[e] = work[w][1]}]
        /\ UNCHANGED <<label, work>>
    BY <1>8 DEF ReadBatch, entries
  <2> QED
    BY <1>0, <2>1, <2>2, <2>3, <2>4 DEF TypeOK, Owing, Unrotated, Target
<1>9. ASSUME NEW w \in Workers, ApplyBatch(w) PROVE Owing'
  BY <1>0, <1>9 DEF ApplyBatch, Go, Rewrapped, checkpoint, poll, queue,
     bounds, TypeOK, Working, Owing, stored, Target
<1>10. ASSUME NEW w \in Workers, CloseState(w) PROVE Owing'
  BY <1>0, <1>10 DEF CloseState, Go, checkpoint, poll, entries, queue, bounds,
     TypeOK, Working, Owing, stored, Target
<1>11. ASSUME NEW w \in Workers, FinishJob(w) PROVE Owing'
  BY <1>0, <1>11 DEF FinishJob, Leave, Succeeded, checkpoint, poll, entries,
     bounds, TypeOK, Working, Owing, stored, Target
<1>12. ASSUME NEW w \in Workers, OpeningFails(w) PROVE Owing'
  BY <1>0, <1>12 DEF OpeningFails, Fault, Leave, AttemptFailed, checkpoint,
     poll, entries, bounds, TypeOK, Working, Owing, stored, Target
<1>13. ASSUME NEW w \in Workers, StepFails(w) PROVE Owing'
  BY <1>0, <1>13 DEF StepFails, Fault, Go, checkpoint, poll, entries, queue,
     bounds, TypeOK, Working, Owing, stored, Target
<1>14. ASSUME NEW w \in Workers, MarkFailed(w) PROVE Owing'
  BY <1>0, <1>14 DEF MarkFailed, Fault, Leave, AttemptFailed, checkpoint,
     poll, entries, bounds, TypeOK, Working, Owing, stored, Target
<1>15. ASSUME UNCHANGED <<wstep, work, batch, owed, label, sstep>> PROVE Owing'
  BY <1>0, <1>15 DEF TypeOK, Working, Owing, stored, Target
<1> QED
  BY <1>1, <1>2, <1>3, <1>4, <1>5, <1>6, <1>7, <1>8, <1>9, <1>10, <1>11,
     <1>12, <1>13, <1>14, <1>15
  DEF Next, StoreStep, Poll, Work, RotateKey, vars, NewVersion,
     PollReadVersion, PollCompare, EndPoll, BeginQueueing, QueueTenant,
     Enqueued, PollCommit, PollAbort, Fault, QueueManual, LoseLock, Recover,
     CancelRead, CancelWrite, bounds, checkpoint, entries, poll, queue, worker

\* The invariant holds initially: nothing runs, and the rows there are have
\* the first version.
LEMMA InitIInv ==
    ASSUME Init PROVE IInv
<1>1. 1 \in Versions /\ NoVersion \notin Versions
  BY RotationAssumption DEF Versions, NoVersion
<1>2. TypeOK
  BY <1>1, RotationAssumption DEF Init, TypeOK, JobStates, Statuses,
     WorkerSteps, Plan
<1>3. LocksActive /\ Working /\ Finding
  BY RotationAssumption DEF Init, LocksActive, Working, Finding
<1>4. LabelsBehind
  BY <1>1, RotationAssumption DEF Init, LabelsBehind
<1>5. TransitionIsQueued /\ Announced /\ Serial /\ Owing
  BY DEF Init, TransitionIsQueued, Announced, Serial, Owing
<1> QED
  BY <1>2, <1>3, <1>4, <1>5 DEF IInv

\* Every step preserves it.
LEMMA StepIInv ==
    ASSUME IInv, [Next]_vars PROVE IInv'
BY TypePreserved, LocksPreserved, WorkingPreserved, LabelsPreserved,
   FindingPreserved, AnnouncedPreserved, QueuedPreserved, SerialPreserved,
   OwingPreserved DEF IInv

LEMMA Invariant == Spec => []IInv
<1>1. Init => IInv
  BY InitIInv
<1>2. IInv /\ [Next]_vars => IInv'
  BY StepIInv
<1> QED
  BY <1>1, <1>2, PTL DEF Spec

(***************************************************************************)
(* The theorems.                                                            *)
(***************************************************************************)

\* The queue, the checkpoint, the rows and the workers stay in their domains:
\* no job is tried or forgiven a stall more often than it may.
THEOREM TypeCorrect == Spec => []TypeOK
<1>1. IInv => TypeOK
  BY DEF IInv
<1> QED
  BY <1>1, Invariant, PTL

\* No row of vault_entries claims a newer version than the one that wraps its
\* data key (store and rotateKey, against new versions and each other).
THEOREM LabelsNeverAhead == Spec => []LabelNeverAhead
<1>1. IInv => LabelNeverAhead
  BY DEF IInv, LabelsBehind, LabelNeverAhead, stored
<1> QED
  BY <1>1, Invariant, PTL

\* A transition the checkpoint records has a job for every tenant, whatever
\* fails between the first job and the commit (pollForRotation).
THEOREM TransitionsQueued == Spec => []TransitionIsQueued
<1>1. IInv => TransitionIsQueued
  BY SMTT(30) DEF IInv
<1> QED
  BY <1>1, Invariant, PTL

\* The checkpoint moves when a poll commits, from the version the poll found.
LEMMA ChainStep ==
    ASSUME IInv, [Next]_vars, seen # NoVersion, seen' # seen
    PROVE processed' = <<seen, seen'>>
<1>0. TypeOK /\ Serial
  BY DEF IInv
<1>1. ASSUME NEW p \in Pollers, PollCompare(p)
     PROVE processed' = <<seen, seen'>>
  BY <1>0, <1>1 DEF PollCompare, EndPoll, BeginQueueing, entries, queue,
     worker, bounds, Previous, NoVersion, TypeOK
<1>2. ASSUME NEW p \in Pollers, PollCommit(p)
     PROVE processed' = <<seen, seen'>>
  BY <1>0, <1>2 DEF PollCommit, EndPoll, entries, queue, worker, bounds,
     Serial, Found, TypeOK
<1>3. ASSUME UNCHANGED <<seen>> PROVE processed' = <<seen, seen'>>
  BY <1>0, <1>3 DEF TypeOK
<1> QED
  BY <1>1, <1>2, <1>3
  DEF Next, StoreStep, Poll, Work, RotateKey, vars, NewVersion,
     StoreReadVersion, StoreWrap, StoreInsert, PollReadVersion, QueueTenant,
     Enqueued, PollAbort, Fault, EndPoll, QueueManual, TakeJob, LoseLock,
     Recover, Crash, Leave, OpenState, Succeeded, Go, ResetState, ReadBatch,
     ApplyBatch, Rewrapped, CloseState, FinishJob, OpeningFails,
     AttemptFailed, StepFails, MarkFailed, CancelRead, CancelWrite, bounds,
     checkpoint, entries, poll, queue, worker

\* Overlapping pollers leave no gap between the transitions (pollForRotation's
\* row lock).
THEOREM CheckpointChains == Spec => TransitionsChain
<1>1. IInv /\ [Next]_vars =>
        [seen # NoVersion /\ seen' # seen => processed' = <<seen, seen'>>]_vars
  BY ChainStep
<1> QED
  BY <1>1, Invariant, PTL DEF Spec, TransitionsChain

\* A worker closes a rotation with all it owes under the new version.
Earned(i) ==
    \E w \in Workers : /\ wstep[w] = "closing" /\ work[w] = i
                       /\ \A e \in owed[w] : label[e] = Target(w)

\* Only CloseState completes a row.
LEMMA CompletionStep ==
    ASSUME IInv, [Next]_vars, NEW i \in Jobs,
           status[i] # "completed", status'[i] = "completed"
    PROVE Earned(i)
<1>0. TypeOK /\ Owing
  BY DEF IInv
<1>1. ASSUME NEW w \in Workers, OpenState(w) PROVE Earned(i)
  BY <1>0, <1>1 DEF OpenState, Leave, Succeeded, Go, checkpoint, poll,
     entries, bounds, TypeOK
<1>2. ASSUME NEW w \in Workers, ResetState(w) PROVE Earned(i)
  BY <1>0, <1>2 DEF ResetState, Go, checkpoint, poll, entries, queue, bounds,
     TypeOK
<1>3. ASSUME NEW w \in Workers, CloseState(w) PROVE Earned(i)
  BY <1>0, <1>3 DEF CloseState, Go, checkpoint, poll, entries, queue, bounds,
     Owing, Earned, TypeOK
<1>4. ASSUME NEW w \in Workers, MarkFailed(w) PROVE Earned(i)
  BY <1>0, <1>4 DEF MarkFailed, Fault, Leave, AttemptFailed, checkpoint, poll,
     entries, bounds, TypeOK
<1>5. ASSUME NEW j \in Jobs, CancelWrite(j) PROVE Earned(i)
  BY <1>0, <1>5 DEF CancelWrite, checkpoint, poll, entries, queue, worker,
     bounds, TypeOK
<1>6. ASSUME UNCHANGED <<status>> PROVE Earned(i)
  BY <1>0, <1>6 DEF TypeOK
<1> QED
  BY <1>1, <1>2, <1>3, <1>4, <1>5, <1>6
  DEF Next, StoreStep, Poll, Work, RotateKey, vars, NewVersion,
     StoreReadVersion, StoreWrap, StoreInsert, PollReadVersion, PollCompare,
     EndPoll, BeginQueueing, QueueTenant, Enqueued, PollCommit, PollAbort,
     Fault, QueueManual, TakeJob, LoseLock, Recover, Crash, Leave, ReadBatch,
     ApplyBatch, Go, Rewrapped, FinishJob, Succeeded, OpeningFails,
     AttemptFailed, StepFails, CancelRead, bounds, checkpoint, entries, poll,
     queue, worker

\* A rotation is completed only when its worker has left nothing of what it saw
\* under another version, unless a rotation to another one took it (rotateKey).
THEOREM CompletionsEarned == Spec => CompletionIsEarned
<1>1. IInv /\ [Next]_vars =>
        [\A j \in Jobs : status[j] # "completed" /\ status'[j] = "completed" =>
            \E w \in Workers : /\ wstep[w] = "closing" /\ work[w] = j
                               /\ \A e \in owed[w] : label[e] = Target(w)]_vars
  BY CompletionStep DEF Earned
<1> QED
  BY <1>1, Invariant, PTL DEF Spec, CompletionIsEarned

(***************************************************************************)
(* The refinement.                                                          *)
(***************************************************************************)

\* No version is read, written, claimed or rotated to before it is made.
KnownVersions ==
    /\ seen <= primary
    /\ \A p \in Pollers : observed[p] <= primary /\ from[p] <= primary
    /\ \A e \in Entries : label[e] <= primary /\ wrap[e] <= primary
    /\ \A j \in Jobs : job[j] # "none" => j[2][1] <= primary /\ j[2][2] <= primary

\* What a worker runs was queued; past its opening, it has a row.
JobsBegun ==
    /\ \A w \in Workers :
          /\ wstep[w] # "idle" => job[work[w]] # "none"
          /\ wstep[w] \notin {"idle", "opening"} => status[work[w]] # "none"
    /\ \A j \in cancelling : status[j] # "none"

\* A worker's batch is of its tenant.
OwnBatch ==
    \A w \in Workers :
        /\ wstep[w] = "idle" => batch[w] = {}
        /\ \A e \in batch[w] : TenantOf[e] = work[w][1]

LedgerInv == IInv /\ KnownVersions /\ JobsBegun /\ OwnBatch

\* No step of a worker queues a job.
LEMMA NoneQueued ==
    ASSUME IInv, JobsBegun, NEW w \in Workers, RotateKey(w) \/ OpeningFails(w)
    PROVE \A j \in Jobs : job[j] = "none" => job'[j] = "none"
<1>0. TypeOK /\ Working /\ JobsBegun
  BY DEF IInv
<1>1. wstep[w] # "idle" /\ job[work[w]] # "none" /\ work[w] \in Jobs
  BY <1>0 DEF RotateKey, OpenState, ResetState, ReadBatch, ApplyBatch,
     CloseState, FinishJob, MarkFailed, OpeningFails, Go, Working, JobsBegun
<1> QED
  BY <1>0, <1>1 DEF RotateKey, OpenState, ResetState, ReadBatch, ApplyBatch,
     Rewrapped, CloseState, FinishJob, MarkFailed, OpeningFails, Succeeded,
     AttemptFailed, queue, TypeOK

\* The versions in hand are naturals no newer than what they were read from.
LEMMA KnownPreserved ==
    ASSUME IInv, KnownVersions, JobsBegun, [Next]_vars PROVE KnownVersions'
<1>0. /\ TypeOK /\ Working /\ Finding /\ LabelsBehind /\ KnownVersions
      /\ primary \in Nat
  BY DEF IInv, TypeOK, Versions
<1>1. ASSUME NewVersion PROVE KnownVersions'
  <2>1. primary' = primary + 1
        /\ UNCHANGED <<seen, observed, from, label, wrap, job>>
    BY <1>1 DEF NewVersion, checkpoint, poll, entries, queue
  <2>2. /\ seen \in Nat
        /\ \A p \in Pollers : observed[p] \in Nat /\ from[p] \in Nat
        /\ \A e \in Entries : label[e] \in Nat /\ wrap[e] \in Nat
        /\ \A j \in Jobs : j[2][1] \in Nat /\ j[2][2] \in Nat
    BY <1>0 DEF TypeOK, Versions, NoVersion, Jobs, Rotations
  <2> QED
    BY <1>0, <2>1, <2>2 DEF KnownVersions
<1>2. ASSUME NEW e \in Entries, StoreReadVersion(e) PROVE KnownVersions'
  BY <1>0, <1>2 DEF StoreReadVersion, checkpoint, poll, queue, TypeOK,
     KnownVersions
<1>3. ASSUME NEW e \in Entries, StoreWrap(e) PROVE KnownVersions'
  BY <1>0, <1>3 DEF StoreWrap, checkpoint, poll, queue, TypeOK, KnownVersions
<1>4. ASSUME NEW p \in Pollers, PollReadVersion(p) PROVE KnownVersions'
  BY <1>0, <1>4 DEF PollReadVersion, checkpoint, entries, queue, TypeOK,
     KnownVersions
<1>5. ASSUME NEW p \in Pollers, PollCompare(p) PROVE KnownVersions'
  <2>1. \A v \in Previous(p) : v <= primary
    BY <1>0 DEF Previous, StaleVersions, stored, KnownVersions
  <2> QED
    BY <1>0, <1>5, <2>1 DEF PollCompare, EndPoll, BeginQueueing, entries, queue,
       NoVersion, TypeOK, KnownVersions
<1>6. ASSUME NEW p \in Pollers, NEW ts \in SUBSET Tenants,
             job' = Enqueued(ts, Found(p)),
             UNCHANGED <<primary, seen, observed, from, label, wrap>>
      PROVE KnownVersions'
  BY <1>0, <1>6 DEF Enqueued, Found, TypeOK, KnownVersions
<1>7. ASSUME NEW p \in Pollers, NEW t \in Tenants, QueueTenant(p, t)
      PROVE KnownVersions'
  BY <1>6, <1>7 DEF QueueTenant, checkpoint, entries
<1>8. ASSUME NEW p \in Pollers, PollCommit(p) PROVE KnownVersions'
  BY <1>0, <1>8 DEF PollCommit, EndPoll, entries, queue, NoVersion, TypeOK,
     KnownVersions
<1>9. ASSUME NEW p \in Pollers, PollAbort(p) PROVE KnownVersions'
  <2>1. PICK late \in SUBSET Tenants : job' = Enqueued(late, Found(p))
    BY <1>9 DEF PollAbort
  <2>2. \A j \in Jobs : job'[j] # "none" => j[2][1] <= primary /\ j[2][2] <= primary
    BY <1>0, <2>1 DEF Enqueued, Found, TypeOK, KnownVersions
  <2> QED
    BY <1>0, <1>9, <2>2 DEF PollAbort, EndPoll, checkpoint, entries, NoVersion,
       TypeOK, KnownVersions
<1>10. ASSUME NEW t \in Tenants, NEW k \in Rotations, QueueManual(t, k)
       PROVE KnownVersions'
  BY <1>0, <1>10 DEF QueueManual, Enqueued, checkpoint, poll, entries, TypeOK,
     KnownVersions
<1>11. ASSUME NEW w \in Workers, ApplyBatch(w) PROVE KnownVersions'
  <2>1. wstep[w] # "idle" /\ work[w] \in Jobs /\ job[work[w]] # "none"
    BY <1>0, <1>11 DEF ApplyBatch, Go, Working, JobsBegun
  <2>2. Target(w) <= primary
    BY <1>0, <2>1 DEF Target, KnownVersions
  <2> QED
    BY <1>0, <1>11, <2>2 DEF ApplyBatch, Rewrapped, checkpoint, poll, queue,
       TypeOK, KnownVersions
<1>12. ASSUME UNCHANGED <<primary, seen, observed, from, label, wrap>>,
              \A j \in Jobs : job[j] = "none" => job'[j] = "none"
       PROVE KnownVersions'
  BY <1>0, <1>12 DEF KnownVersions
<1>13. ASSUME NEW w \in Workers, RotateKey(w) \/ OpeningFails(w) PROVE KnownVersions'
  <2>1. ~ApplyBatch(w) => UNCHANGED <<primary, seen, observed, from, label, wrap>>
    BY <1>13 DEF RotateKey, OpenState, ResetState, ReadBatch, CloseState,
       FinishJob, MarkFailed, OpeningFails, checkpoint, poll, entries
  <2> QED
    BY <1>11, <1>12, <1>13, <2>1, NoneQueued
<1>14. ASSUME NEW w \in Workers, NEW j \in Jobs, TakeJob(w, j) PROVE KnownVersions'
  BY <1>0, <1>12, <1>14 DEF TakeJob, checkpoint, poll, entries, TypeOK
<1>15. ASSUME NEW j \in Jobs, Recover(j) PROVE KnownVersions'
  BY <1>0, <1>12, <1>15 DEF Recover, checkpoint, poll, entries, TypeOK
<1>16. ASSUME UNCHANGED <<primary, seen, observed, from, label, wrap, job>>
       PROVE KnownVersions'
  BY <1>12, <1>16
<1> QED
  BY <1>1, <1>2, <1>3, <1>4, <1>5, <1>7, <1>8, <1>9, <1>10, <1>13, <1>14,
     <1>15, <1>16
  DEF Next, StoreStep, StoreInsert, Poll, Work, LoseLock, Crash, StepFails,
     CancelRead, CancelWrite, checkpoint, poll, entries, queue, vars

\* A row is made once and stays.
LEMMA RowsStay ==
    ASSUME IInv, JobsBegun, [Next]_vars, NEW i \in Jobs, status[i] # "none"
    PROVE status'[i] # "none"
<1>0. TypeOK
  BY DEF IInv
<1>1. ASSUME NEW w \in Workers, RotateKey(w) PROVE status'[i] # "none"
  BY <1>0, <1>1 DEF RotateKey, OpenState, ResetState, ReadBatch, ApplyBatch,
     Rewrapped, CloseState, FinishJob, MarkFailed, TypeOK
<1>2. ASSUME NEW j \in Jobs, CancelWrite(j) PROVE status'[i] # "none"
  BY <1>0, <1>2 DEF CancelWrite, TypeOK
<1>3. ASSUME UNCHANGED status PROVE status'[i] # "none"
  BY <1>3
<1> QED
  BY <1>1, <1>2, <1>3
  DEF Next, StoreStep, StoreReadVersion, StoreWrap, StoreInsert, NewVersion,
     Poll, PollReadVersion, PollCompare, QueueTenant, PollCommit, PollAbort,
     QueueManual, Work, TakeJob, OpeningFails, StepFails, Crash, LoseLock,
     Recover, CancelRead, vars

\* A worker keeps the job it took, and its row.
LEMMA BegunPreserved ==
    ASSUME IInv, JobsBegun, [Next]_vars PROVE JobsBegun'
<1>0. TypeOK /\ Working /\ JobsBegun
  BY DEF IInv
<1>1. ASSUME NEW v \in Workers, wstep'[v] # "idle"
      PROVE job'[work'[v]] # "none"
  <2>1. CASE wstep[v] # "idle" /\ work'[v] = work[v]
    <3>1. work[v] \in Jobs /\ job[work[v]] # "none"
      BY <1>0, <2>1 DEF Working, JobsBegun
    <3> QED
      BY <2>1, <3>1, JobsStay
  <2>2. CASE \E j \in Jobs : TakeJob(v, j)
    BY <1>0, <2>2 DEF TakeJob, TypeOK
  <2>3. ASSUME NEW w \in Workers,
               RotateKey(w) \/ OpeningFails(w) \/ StepFails(w) \/ Crash(w)
        PROVE wstep[v] # "idle" /\ work'[v] = work[v]
    BY <1>0, <1>1, <2>3 DEF RotateKey, OpenState, ResetState, ReadBatch,
       ApplyBatch, Rewrapped, CloseState, FinishJob, MarkFailed, OpeningFails,
       StepFails, Crash, Leave, Go, TypeOK
  <2>4. ASSUME NEW w \in Workers, NEW j \in Jobs, TakeJob(w, j), w # v
        PROVE wstep[v] # "idle" /\ work'[v] = work[v]
    BY <1>0, <1>1, <2>4 DEF TakeJob, TypeOK
  <2>5. ASSUME UNCHANGED <<wstep, work>>
        PROVE wstep[v] # "idle" /\ work'[v] = work[v]
    BY <1>1, <2>5
  <2> QED
    BY <2>1, <2>2, <2>3, <2>4, <2>5
    DEF Next, StoreStep, StoreReadVersion, StoreWrap, StoreInsert, NewVersion,
       Poll, PollReadVersion, PollCompare, QueueTenant, PollCommit, PollAbort,
       QueueManual, Work, LoseLock, Recover, CancelRead, CancelWrite, worker,
       vars
<1>2. ASSUME NEW v \in Workers, wstep'[v] \notin {"idle", "opening"}
      PROVE status'[work'[v]] # "none"
  <2>1. CASE wstep[v] \notin {"idle", "opening"} /\ work'[v] = work[v]
    <3>1. work[v] \in Jobs /\ status[work[v]] # "none"
      BY <1>0, <2>1 DEF Working, JobsBegun
    <3> QED
      BY <2>1, <3>1, RowsStay
  <2>2. CASE OpenState(v)
    <3>1. work[v] \in Jobs /\ work' = work
      BY <1>0, <1>2, <2>2 DEF OpenState, Leave, Working, TypeOK
    <3> QED
      BY <1>0, <1>2, <2>2, <3>1 DEF OpenState, Leave, TypeOK
  <2>3. ASSUME NEW w \in Workers, w # v \/ ~OpenState(v),
               RotateKey(w) \/ OpeningFails(w) \/ StepFails(w) \/ Crash(w)
        PROVE wstep[v] \notin {"idle", "opening"} /\ work'[v] = work[v]
    BY <1>0, <1>2, <2>3 DEF RotateKey, OpenState, ResetState, ReadBatch,
       ApplyBatch, Rewrapped, CloseState, FinishJob, MarkFailed, OpeningFails,
       StepFails, Crash, Leave, Go, TypeOK
  <2>4. ASSUME NEW w \in Workers, NEW j \in Jobs, TakeJob(w, j)
        PROVE wstep[v] \notin {"idle", "opening"} /\ work'[v] = work[v]
    BY <1>0, <1>2, <2>4 DEF TakeJob, TypeOK
  <2>5. ASSUME UNCHANGED <<wstep, work>>
        PROVE wstep[v] \notin {"idle", "opening"} /\ work'[v] = work[v]
    BY <1>2, <2>5
  <2> QED
    BY <2>1, <2>2, <2>3, <2>4, <2>5
    DEF Next, StoreStep, StoreReadVersion, StoreWrap, StoreInsert, NewVersion,
       Poll, PollReadVersion, PollCompare, QueueTenant, PollCommit, PollAbort,
       QueueManual, Work, LoseLock, Recover, CancelRead, CancelWrite, worker,
       vars
<1>3. ASSUME NEW i \in cancelling' PROVE status'[i] # "none"
  <2>1. i \in cancelling \/ status[i] = "in_progress"
    BY <1>0, <1>3 DEF Next, StoreStep, StoreReadVersion, StoreWrap, StoreInsert,
       NewVersion, Poll, PollReadVersion, PollCompare, QueueTenant, PollCommit,
       PollAbort, QueueManual, Work, RotateKey, OpenState, ResetState,
       ReadBatch, ApplyBatch, Rewrapped, CloseState, FinishJob, MarkFailed,
       TakeJob, OpeningFails, StepFails, Crash, LoseLock, Recover, CancelRead,
       CancelWrite, vars
  <2>2. i \in Jobs
    BY <1>3, TypePreserved DEF TypeOK
  <2> QED
    BY <1>0, <2>1, <2>2, RowsStay DEF JobsBegun
<1> QED
  BY <1>1, <1>2, <1>3 DEF JobsBegun

\* A batch is read of the worker's tenant, and forgotten with the job.
LEMMA BatchPreserved ==
    ASSUME IInv, OwnBatch, [Next]_vars PROVE OwnBatch'
<1>0. TypeOK /\ OwnBatch
  BY DEF IInv
<1>1. ASSUME NEW w \in Workers,
             RotateKey(w) \/ OpeningFails(w) \/ StepFails(w) \/ Crash(w)
      PROVE OwnBatch'
  <2>1. CASE Leave(w)
    BY <1>0, <2>1 DEF Leave, TypeOK, OwnBatch
  <2>2. CASE ReadBatch(w)
    BY <1>0, <2>2 DEF ReadBatch, Unrotated, TypeOK, OwnBatch
  <2>3. CASE /\ UNCHANGED <<batch, work>>
             /\ \A v \in Workers : wstep'[v] = "idle" => wstep[v] = "idle"
    BY <1>0, <2>3 DEF OwnBatch
  <2>4. ASSUME NEW here, NEW there, here # "idle", there # "idle",
               Go(w, here, there)
        PROVE \A v \in Workers : wstep'[v] = "idle" => wstep[v] = "idle"
    BY <1>0, <2>4 DEF Go, TypeOK
  <2> QED
    BY <1>1, <2>1, <2>2, <2>3, <2>4 DEF RotateKey, OpenState, ResetState,
       ApplyBatch, Rewrapped, CloseState, FinishJob, MarkFailed, OpeningFails,
       StepFails, Crash
<1>2. ASSUME NEW w \in Workers, NEW j \in Jobs, TakeJob(w, j) PROVE OwnBatch'
  BY <1>0, <1>2 DEF TakeJob, TypeOK, OwnBatch
<1>3. ASSUME UNCHANGED <<wstep, work, batch>> PROVE OwnBatch'
  BY <1>0, <1>3 DEF OwnBatch
<1> QED
  BY <1>1, <1>2, <1>3
  DEF Next, StoreStep, StoreReadVersion, StoreWrap, StoreInsert, NewVersion,
     Poll, PollReadVersion, PollCompare, QueueTenant, PollCommit, PollAbort,
     QueueManual, Work, LoseLock, Recover, CancelRead, CancelWrite, worker,
     vars

LEMMA LedgerInvariant == Spec => []LedgerInv
<1>1. Init => LedgerInv
  <2>1. Init => IInv
    BY InitIInv
  <2>2. Init => KnownVersions
    BY RotationAssumption DEF Init, KnownVersions, NoVersion
  <2>3. Init => JobsBegun /\ OwnBatch
    BY DEF Init, JobsBegun, OwnBatch
  <2> QED
    BY <2>1, <2>2, <2>3 DEF LedgerInv
<1>2. LedgerInv /\ [Next]_vars => LedgerInv'
  BY StepIInv, KnownPreserved, BegunPreserved, BatchPreserved DEF LedgerInv
<1> QED
  BY <1>1, <1>2, PTL DEF Spec

\* Nothing of the record changes.
LEMMA Unrecorded ==
    ASSUME IInv, JobsBegun, [Next]_vars,
           UNCHANGED <<primary, seen, processed, sstep, label, wrap>>,
           \A j \in Jobs : job[j] = "none" => job'[j] = "none",
           \A j \in Jobs : status[j] = "none" => status'[j] = "none"
    PROVE UNCHANGED Ledger!vars
<1>1. Keys' = Keys
  BY DEF Keys, stored
<1>2. {j \in Jobs : job'[j] # "none"} = {j \in Jobs : job[j] # "none"}
  BY JobsStay
<1>3. {j \in Jobs : status'[j] # "none"} = {j \in Jobs : status[j] # "none"}
  BY RowsStay
<1> QED
  BY <1>1, <1>2, <1>3 DEF Ledger!vars

\* store() is one step of the record, its insert.
LEMMA StoreRecords ==
    ASSUME LedgerInv, NEW e \in Entries, StoreStep(e)
    PROVE Ledger!Next \/ UNCHANGED Ledger!vars
<1>0. /\ TypeOK /\ LabelsBehind /\ KnownVersions
      /\ UNCHANGED <<primary, seen, processed, job, status>>
  BY DEF LedgerInv, IInv, StoreStep, StoreReadVersion, StoreWrap, StoreInsert,
     checkpoint, queue
<1>1. CASE StoreReadVersion(e) \/ StoreWrap(e)
  <2>1. e \notin stored /\ stored' = stored
    BY <1>0, <1>1 DEF StoreReadVersion, StoreWrap, entries, stored, TypeOK
  <2>2. \A x \in Entries : x # e => label'[x] = label[x] /\ wrap'[x] = wrap[x]
    BY <1>0, <1>1 DEF StoreReadVersion, StoreWrap, TypeOK
  <2>3. Keys' = Keys
    BY <2>1, <2>2 DEF Keys
  <2> QED
    BY <1>0, <2>3 DEF Ledger!vars
<1>2. CASE StoreInsert(e)
  <2>1. /\ e \notin stored /\ stored' = stored \cup {e}
        /\ UNCHANGED <<label, wrap>>
    BY <1>0, <1>2 DEF StoreInsert, stored, TypeOK
  <2>2. /\ Keys[e] = Ledger!Absent
        /\ Keys' = [Keys EXCEPT ![e] =
                      [claims |-> label[e], wrapped |-> wrap[e]]]
    BY <2>1 DEF Keys, Ledger!Absent, NoVersion
  <2>3. sstep[e] = "wrapped"
    BY <1>2 DEF StoreInsert
  <2>4. label[e] \in 1..primary /\ wrap[e] \in 1..primary /\ label[e] <= wrap[e]
    BY <1>0, <2>3 DEF LabelsBehind, KnownVersions, TypeOK, Versions, NoVersion
  <2>5. Ledger!Store(e)
    BY <1>0, <2>2, <2>4 DEF Ledger!Store, Ledger!Existing
  <2> QED
    BY <2>5 DEF Ledger!Next
<1> QED
  BY <1>1, <1>2 DEF StoreStep

\* A call to the queue asks for a rotation between versions there are.
LEMMA QueueRecords ==
    ASSUME LedgerInv, NEW ts \in SUBSET Tenants, NEW k \in Rotations,
           k[1] <= primary, k[2] <= primary, job' = Enqueued(ts, k),
           UNCHANGED <<primary, seen, processed, sstep, label, wrap, status>>
    PROVE Ledger!Next
<1>0. TypeOK
  BY DEF LedgerInv, IInv
<1>1. Keys' = Keys
  BY DEF Keys, stored
<1>2. k = <<k[1], k[2]>> /\ k[1] # k[2] /\ k[1] \in Versions /\ k[2] \in Versions
  BY DEF Rotations
<1>3. k[1] \in 1..primary /\ k[2] \in 1..primary
  BY <1>0, <1>2 DEF Versions, TypeOK
<1>4. {j \in Jobs : job'[j] # "none"} =
        {j \in Jobs : job[j] # "none"} \cup {<<t, k>> : t \in ts}
  BY <1>0 DEF Enqueued, Jobs
<1>5. Ledger!Request(ts, k[1], k[2])
  BY <1>1, <1>2, <1>4 DEF Ledger!Request
<1> QED
  BY <1>3, <1>5 DEF Ledger!Next, Ledger!Existing

\* A poll asks for rotations, and moves the checkpoint with its commit.
LEMMA PollRecords ==
    ASSUME LedgerInv, [Next]_vars, NEW p \in Pollers, Poll(p) \/ PollAbort(p)
    PROVE Ledger!Next \/ UNCHANGED Ledger!vars
<1>0. TypeOK /\ Finding /\ Announced /\ Serial /\ KnownVersions /\ IInv /\ JobsBegun
  BY DEF LedgerInv, IInv
<1>1. ASSUME pstep[p] # "idle" PROVE observed[p] \in 1..primary
  BY <1>0, <1>1 DEF Finding, KnownVersions, TypeOK, Versions
<1>2. ASSUME pstep[p] = "queueing"
      PROVE /\ Found(p) \in Rotations
            /\ Found(p)[1] <= primary /\ Found(p)[2] <= primary
            /\ from[p] \in 1..primary /\ from[p] # observed[p]
  BY <1>0, <1>2 DEF Finding, Found, Rotations, KnownVersions, TypeOK, Versions
<1>3. CASE PollReadVersion(p)
  BY <1>0, <1>3, Unrecorded DEF PollReadVersion, checkpoint, entries, queue
<1>4. CASE PollCompare(p)
  <2>1. UNCHANGED <<primary, processed, sstep, label, wrap, job, status>>
    BY <1>4 DEF PollCompare, entries, queue
  <2>2. CASE UNCHANGED seen
    BY <1>0, <2>1, <2>2, Unrecorded
  <2>3. CASE Previous(p) = {} /\ seen' = observed[p] /\ seen' # seen
    <3>1. seen = NoVersion /\ StaleVersions(observed[p]) = {}
      BY <2>3 DEF Previous
    <3>2. \A e \in stored : label[e] = observed[p]
      BY <3>1 DEF StaleVersions
    <3>3. Keys' = Keys
      BY <2>1 DEF Keys, stored
    <3>4. Ledger!Settle(observed[p])
      BY <2>1, <2>3, <3>1, <3>2, <3>3 DEF Ledger!Settle, Ledger!Absent, Keys,
         NoVersion
    <3>5. observed[p] \in Ledger!Existing
      BY <1>1, <1>4 DEF PollCompare, Ledger!Existing
    <3> QED
      BY <3>4, <3>5 DEF Ledger!Next
  <2> QED
    BY <1>4, <2>2, <2>3 DEF PollCompare
<1>5. ASSUME NEW t \in Tenants, QueueTenant(p, t) PROVE Ledger!Next
  <2>1. /\ pstep[p] = "queueing" /\ job' = Enqueued({t}, Found(p))
        /\ UNCHANGED <<primary, seen, processed, sstep, label, wrap, status>>
    BY <1>5 DEF QueueTenant, checkpoint, entries
  <2> QED
    BY <1>2, <2>1, QueueRecords
<1>6. CASE PollCommit(p)
  <2>1. /\ pstep[p] = "queueing" /\ queued[p] = Tenants
        /\ seen' = observed[p] /\ processed' = Found(p)
        /\ UNCHANGED <<primary, sstep, label, wrap, job, status>>
    BY <1>6 DEF PollCommit, entries, queue
  <2>2. Keys' = Keys
    BY <2>1 DEF Keys, stored
  <2>3. seen \in {0, from[p]}
    BY <1>0, <2>1 DEF Serial, NoVersion
  <2>4. \A t \in Tenants : /\ <<t, Found(p)>> \in Jobs
                           /\ job[<<t, Found(p)>>] # "none"
    BY <1>0, <1>2, <2>1 DEF Announced, Jobs
  <2>5. Ledger!Advance(from[p], observed[p])
    BY <1>2, <2>1, <2>2, <2>3, <2>4 DEF Ledger!Advance, Found
  <2> QED
    BY <1>1, <1>2, <2>1, <2>5 DEF Ledger!Next, Ledger!Existing
<1>7. CASE PollAbort(p)
  <2>1. PICK late \in SUBSET Tenants : job' = Enqueued(late, Found(p))
    BY <1>7 DEF PollAbort
  <2>2. /\ pstep[p] = "queueing"
        /\ UNCHANGED <<primary, seen, processed, sstep, label, wrap, status>>
    BY <1>7 DEF PollAbort, checkpoint, entries
  <2> QED
    BY <1>2, <2>1, <2>2, QueueRecords
<1> QED
  BY <1>3, <1>4, <1>5, <1>6, <1>7 DEF Poll

\* A worker begins its rotation with the row, and rewraps a batch in one step.
LEMMA WorkerRecords ==
    ASSUME LedgerInv, [Next]_vars, NEW w \in Workers, RotateKey(w)
    PROVE Ledger!Next \/ UNCHANGED Ledger!vars
<1>0. /\ TypeOK /\ Working /\ KnownVersions /\ JobsBegun /\ OwnBatch
      /\ IInv /\ LabelsBehind
      /\ UNCHANGED <<primary, seen, processed, sstep>>
  BY DEF LedgerInv, IInv, RotateKey, OpenState, ResetState, ReadBatch,
     ApplyBatch, Rewrapped, CloseState, FinishJob, MarkFailed, checkpoint,
     entries
<1>1. /\ work[w] \in Jobs /\ job[work[w]] # "none"
      /\ wstep[w] # "opening" => status[work[w]] # "none"
  BY <1>0 DEF RotateKey, OpenState, ResetState, ReadBatch, ApplyBatch,
     CloseState, FinishJob, MarkFailed, Go, Working, JobsBegun
<1>2. \A j \in Jobs : job[j] = "none" => job'[j] = "none"
  BY <1>0, NoneQueued
<1>3. {j \in Jobs : job'[j] # "none"} = {j \in Jobs : job[j] # "none"}
  BY <1>0, <1>2, JobsStay
<1>4. CASE OpenState(w) /\ status[work[w]] = "none"
  <2>1. /\ status' = [status EXCEPT ![work[w]] = "in_progress"]
        /\ UNCHANGED <<label, wrap>>
    BY <1>4 DEF OpenState, entries
  <2>2. Keys' = Keys
    BY <1>0, <2>1 DEF Keys, stored
  <2>3. {j \in Jobs : status'[j] # "none"} =
          {j \in Jobs : status[j] # "none"} \cup {work[w]}
    BY <1>0, <1>1, <2>1 DEF TypeOK
  <2>4. Ledger!Begin(work[w])
    BY <1>0, <1>1, <1>3, <2>2, <2>3 DEF Ledger!Begin
  <2>5. \E j \in {i \in Jobs : job[i] # "none"} : Ledger!Begin(j)
    BY <1>1, <2>4 DEF Ledger!Begin
  <2> QED
    BY <2>5 DEF Ledger!Next
<1>5. CASE ApplyBatch(w)
  <2>1. /\ wstep[w] = "applying"
        /\ label' = [e \in Entries |-> IF e \in batch[w] THEN Target(w) ELSE label[e]]
        /\ wrap' = [e \in Entries |-> IF e \in batch[w] THEN Target(w) ELSE wrap[e]]
        /\ UNCHANGED status
    BY <1>5 DEF ApplyBatch, Go, Rewrapped
  <2>2. batch[w] \subseteq stored /\ stored' = stored
    BY <1>0 DEF Working, stored
  <2>3. Keys' = [e \in Entries |->
                   IF e \in batch[w]
                   THEN [claims |-> Target(w), wrapped |-> Target(w)]
                   ELSE Keys[e]]
    BY <2>1, <2>2 DEF Keys
  <2>4. \A e \in batch[w] : TenantOf[e] = work[w][1] /\ Keys[e] # Ledger!Absent
    <3>1. SUFFICES ASSUME NEW e \in batch[w]
                   PROVE TenantOf[e] = work[w][1] /\ Keys[e] # Ledger!Absent
      OBVIOUS
    <3>2. e \in Entries /\ e \in stored /\ label[e] \in Versions
      BY <1>0, <2>2 DEF LabelsBehind, stored
    <3>3. label[e] # 0
      BY <3>2 DEF Versions
    <3>4. Keys[e].claims = label[e] /\ Ledger!Absent.claims = 0
      BY <3>2 DEF Keys, Ledger!Absent
    <3> QED
      BY <1>0, <3>3, <3>4 DEF OwnBatch
  <2>5. /\ work[w] = <<work[w][1], <<work[w][2][1], work[w][2][2]>>>>
        /\ work[w][1] \in Tenants
        /\ work[w][2][1] \in 1..primary /\ work[w][2][2] \in 1..primary
    BY <1>0, <1>1 DEF Jobs, Rotations, Versions, KnownVersions, TypeOK
  <2>6. batch[w] \in SUBSET Entries /\ status[work[w]] # "none"
    BY <1>0, <1>1, <2>1 DEF TypeOK
  <2>7. Ledger!Rewrap(work[w][1], work[w][2][1], work[w][2][2], batch[w])
    BY <1>0, <1>1, <1>3, <2>1, <2>3, <2>4, <2>5, <2>6 DEF Ledger!Rewrap, Target
  <2> QED
    BY <2>5, <2>6, <2>7 DEF Ledger!Next, Ledger!Existing
<1>6. CASE ~ApplyBatch(w) /\ ~(OpenState(w) /\ status[work[w]] = "none")
  <2>1. UNCHANGED <<label, wrap>>
    BY <1>6 DEF RotateKey, OpenState, ResetState, ReadBatch, CloseState,
       FinishJob, MarkFailed, entries
  <2>2. \A j \in Jobs : status[j] = "none" => status'[j] = "none"
    BY <1>0, <1>1, <1>6 DEF RotateKey, OpenState, ResetState, ReadBatch,
       CloseState, FinishJob, MarkFailed, Go, TypeOK
  <2> QED
    BY <1>0, <1>2, <2>1, <2>2, Unrecorded
<1> QED
  BY <1>4, <1>5, <1>6

\* Every step is a step of the record or leaves it as it is.
LEMMA LedgerStep ==
    ASSUME LedgerInv, [Next]_vars PROVE Ledger!Next \/ UNCHANGED Ledger!vars
<1>0. TypeOK /\ IInv /\ JobsBegun /\ KnownVersions
  BY DEF LedgerInv, IInv
<1>1. CASE NewVersion
  <2>1. Keys' = Keys
    BY <1>1 DEF NewVersion, entries, Keys, stored
  <2>2. Ledger!NewVersion
    BY <1>1, <2>1 DEF NewVersion, checkpoint, queue, Ledger!NewVersion
  <2> QED
    BY <2>2 DEF Ledger!Next
<1>2. ASSUME NEW t \in Tenants, NEW k \in Rotations, QueueManual(t, k)
      PROVE Ledger!Next
  BY <1>2, QueueRecords DEF QueueManual, checkpoint, entries
<1>3. CASE \/ \E w \in Workers, j \in Jobs : TakeJob(w, j)
           \/ \E w \in Workers : StepFails(w) \/ Crash(w)
           \/ \E j \in Jobs : LoseLock(j) \/ Recover(j) \/ CancelRead(j)
           \/ UNCHANGED vars
  <2>1. UNCHANGED <<primary, seen, processed, sstep, label, wrap, status>>
    BY <1>3 DEF TakeJob, StepFails, Crash, LoseLock, Recover, CancelRead,
       checkpoint, entries, vars
  <2>2. \A j \in Jobs : job[j] = "none" => job'[j] = "none"
    BY <1>0, <1>3 DEF TakeJob, StepFails, Crash, LoseLock, Recover, CancelRead,
       queue, vars, TypeOK
  <2> QED
    BY <1>0, <2>1, <2>2, Unrecorded
<1>4. ASSUME NEW w \in Workers, OpeningFails(w) PROVE UNCHANGED Ledger!vars
  <2>1. UNCHANGED <<primary, seen, processed, sstep, label, wrap, status>>
    BY <1>4 DEF OpeningFails, checkpoint, entries
  <2> QED
    BY <1>0, <1>4, <2>1, NoneQueued, Unrecorded
<1>5. ASSUME NEW j \in Jobs, CancelWrite(j) PROVE UNCHANGED Ledger!vars
  <2>1. UNCHANGED <<primary, seen, processed, sstep, label, wrap, job>>
    BY <1>5 DEF CancelWrite, checkpoint, entries, queue
  <2>2. status[j] # "none" /\ status' = [status EXCEPT ![j] = "cancelled"]
    BY <1>0, <1>5 DEF CancelWrite, JobsBegun
  <2>3. \A i \in Jobs : status[i] = "none" => status'[i] = "none"
    BY <1>0, <2>2 DEF TypeOK
  <2> QED
    BY <1>0, <2>1, <2>3, Unrecorded
<1> QED
  BY <1>1, <1>2, <1>3, <1>4, <1>5, StoreRecords, PollRecords, WorkerRecords
  DEF Next, Work

\* The first rows claim the first version.
LEMMA LedgerInit == ASSUME Init PROVE Ledger!Init
<1>1. \A e \in Entries : Keys[e] = IF e \in Present
                                   THEN [claims |-> 1, wrapped |-> 1]
                                   ELSE Ledger!Absent
  BY DEF Init, Keys, stored, Ledger!Absent, NoVersion
<1>2. Keys \in [Entries -> {Ledger!Absent, [claims |-> 1, wrapped |-> 1]}]
  <2>1. Keys = [e \in Entries |-> Keys[e]]
    BY DEF Keys
  <2> QED
    BY <1>1, <2>1
<1>3. /\ {j \in Jobs : job[j] # "none"} = {}
      /\ {j \in Jobs : status[j] # "none"} = {}
  BY DEF Init
<1> QED
  BY <1>2, <1>3 DEF Init, Ledger!Init, NoVersion, NoRotation

\* Whatever is read, queued, rotated, cancelled, stalled and retried meanwhile,
\* the versions of entries, the rotations and the checkpoint change as in
\* KeyLedger (pollForRotation, orchestrateRotation, rotateKey, store).
THEOREM RotationImplementsLedger == Spec => ImplementsLedger
<1>1. Init => Ledger!Init
  BY LedgerInit
<1>2. LedgerInv /\ [Next]_vars => [Ledger!Next]_(Ledger!vars)
  BY LedgerStep
<1> QED
  BY <1>1, <1>2, LedgerInvariant, PTL DEF Spec, ImplementsLedger, Ledger!Spec
==============================================================================
