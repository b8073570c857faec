----------------------------- MODULE KeyRotation -----------------------------
(***************************************************************************)
(* The rotation of the key that wraps the data keys of the encrypted store.  *)
(* KmsRotationPollService compares the primary version of the key service    *)
(* with a checkpoint row and queues one job per tenant when it has changed,  *)
(* before the transaction that advances the checkpoint commits; the workers  *)
(* of EncryptedStoreKeyRotationJob run EncryptedStoreService.rotateKey,      *)
(* which rewraps a tenant's entries batch by batch and records its progress  *)
(* in key_rotation_state; EncryptedStoreService.store adds entries meanwhile.*)
(*                                                                          *)
(* The key service is one with versions: its primary only moves forward, and *)
(* it unwraps a data key of any version.  A transaction runs at READ          *)
(* COMMITTED.  The key versions of users, identities and invitations, the    *)
(* progress counters and the dead-letter queue of the jobs, which nothing    *)
(* reads, are left out; completed and failed jobs stay in the queue.         *)
(***************************************************************************)
EXTENDS Naturals, FiniteSets

CONSTANTS
    Tenants,      \* active organizations
    Entries,      \* of the encrypted store, stored or yet to be
    TenantOf,     \* the tenant of each entry
    Present,      \* entries stored under the first version before any poll
    Pollers,      \* instances that run the poll job
    Workers,      \* instances that run the rotation job, one at a time
    NoOne, NoJob,
    BatchSize,    \* of rotateKey
    Attempts,     \* of a rotation job
    MaxStalls,    \* maxStalledCount of the worker
    MaxVersion,   \* bound: versions of the key
    Plans         \* bounds: what may run and happen in a behaviour

Versions == 1..MaxVersion
NoVersion == 0

\* A rotation is <<oldKeyId, newKeyId>>; a job, and the row of
\* key_rotation_state, is a tenant's rotation.
Rotations == {k \in Versions \X Versions : k[1] # k[2]}
NoRotation == <<NoVersion, NoVersion>>
Jobs == Tenants \X Rotations

\* A plan: the instances that are up, and how many versions, rotations asked
\* for by an administrator, cancellations and faults (calls that fail,
\* processes that die, locks lost) there may be.
Plan == [pollers : SUBSET Pollers, workers : SUBSET Workers,
         versions : Versions, manual : Nat, cancels : Nat, faults : Nat]

ASSUME RotationAssumption ==
    /\ Plans \subseteq Plan
    /\ IsFiniteSet(Entries)
    /\ TenantOf \in [Entries -> Tenants]
    /\ Present \subseteq Entries
    /\ NoOne \notin Workers /\ NoJob \notin Jobs
    /\ BatchSize \in Nat \ {0} /\ Attempts \in Nat \ {0}
    /\ MaxVersion \in Nat \ {0}
    /\ MaxStalls \in Nat

VARIABLES
    plan,        \* the bounds of this behaviour
    primary,     \* the key service's current version
    seen,        \* the checkpoint: lastSeenVersion
    processed,   \* the checkpoint: lastProcessedFromVersion and -ToVersion
    pstep,       \* a poller's next step
    observed,    \* the version a poller has read
    from,        \* the version a poller rotates from
    queued,      \* the tenants a poller has queued
    sstep,       \* how far store() is with an entry
    label,       \* the keyVersion of an entry
    wrap,        \* the version its data key is wrapped with
    job,         \* the state of each job in the queue
    made,        \* its failed attempts
    stalls,      \* how often it was found stalled
    holder,      \* the worker that holds its lock
    status,      \* key_rotation_state
    wstep,       \* a worker's next step
    work,        \* the job it runs
    batch,       \* the entries it has read and rewrapped
    owed,        \* history: entries it saw and no other rotation has rewritten
    cancelling,  \* rows a cancellation has found in progress
    manual, cancels, faults

checkpoint == <<seen, processed>>
poll == <<pstep, observed, from, queued>>
entries == <<sstep, label, wrap>>
queue == <<job, made, stalls, holder>>
worker == <<wstep, work, batch, owed>>
bounds == <<plan, manual, cancels, faults>>
vars == <<primary, checkpoint, poll, entries, queue, status, worker,
          cancelling, bounds>>

JobStates == {"none", "waiting", "active", "done", "failed"}
Statuses == {"none", "in_progress", "completed", "failed", "cancelled"}
WorkerSteps == {"idle", "opening", "reset", "reading", "applying", "closing",
                "auditing", "failing"}

TypeOK ==
    /\ plan \in Plans
    /\ primary \in Versions
    /\ seen \in Versions \cup {NoVersion}
    /\ processed \in Rotations \cup {NoRotation}
    /\ pstep \in [Pollers -> {"idle", "polled", "queueing"}]
    /\ observed \in [Pollers -> Versions \cup {NoVersion}]
    /\ from \in [Pollers -> Versions \cup {NoVersion}]
    /\ queued \in [Pollers -> SUBSET Tenants]
    /\ sstep \in [Entries -> {"none", "read", "wrapped", "stored"}]
    /\ label \in [Entries -> Versions \cup {NoVersion}]
    /\ wrap \in [Entries -> Versions \cup {NoVersion}]
    /\ job \in [Jobs -> JobStates]
    /\ made \in [Jobs -> 0..Attempts]
    /\ stalls \in [Jobs -> 0..MaxStalls]
    /\ holder \in [Jobs -> Workers \cup {NoOne}]
    /\ status \in [Jobs -> Statuses]
    /\ wstep \in [Workers -> WorkerSteps]
    /\ work \in [Workers -> Jobs \cup {NoJob}]
    /\ batch \in [Workers -> SUBSET Entries]
    /\ owed \in [Workers -> SUBSET Entries]
    /\ cancelling \subseteq Jobs
    /\ manual \in 0..plan.manual
    /\ cancels \in 0..plan.cancels
    /\ faults \in 0..plan.faults

\* The rows of vault_entries.
stored == {e \in Entries : sstep[e] = "stored"}

Init ==
    /\ plan \in Plans
    /\ primary = 1
    /\ seen = NoVersion /\ processed = NoRotation
    /\ pstep = [p \in Pollers |-> "idle"]
    /\ observed = [p \in Pollers |-> NoVersion]
    /\ from = [p \in Pollers |-> NoVersion]
    /\ queued = [p \in Pollers |-> {}]
    /\ sstep = [e \in Entries |-> IF e \in Present THEN "stored" ELSE "none"]
    /\ label = [e \in Entries |-> IF e \in Present THEN 1 ELSE NoVersion]
    /\ wrap = label
    /\ job = [j \in Jobs |-> "none"]
    /\ made = [j \in Jobs |-> 0]
    /\ stalls = [j \in Jobs |-> 0]
    /\ holder = [j \in Jobs |-> NoOne]
    /\ status = [j \in Jobs |-> "none"]
    /\ wstep = [w \in Workers |-> "idle"]
    /\ work = [w \in Workers |-> NoJob]
    /\ batch = [w \in Workers |-> {}]
    /\ owed = [w \in Workers |-> {}]
    /\ cancelling = {}
    /\ manual = 0 /\ cancels = 0 /\ faults = 0

Fault == /\ faults < plan.faults
         /\ faults' = faults + 1
         /\ UNCHANGED <<plan, manual, cancels>>

\* The key service makes a new version and makes it primary.
NewVersion ==
    /\ primary < plan.versions
    /\ primary' = primary + 1
    /\ UNCHANGED <<checkpoint, poll, entries, queue, status, worker,
                   cancelling, bounds>>

(***************************************************************************)
(* store: the version is read first, then the data key is wrapped.          *)
(***************************************************************************)

StoreReadVersion(e) ==
    /\ sstep[e] = "none"
    /\ sstep' = [sstep EXCEPT ![e] = "read"]
    /\ label' = [label EXCEPT ![e] = primary]
    /\ UNCHANGED <<primary, checkpoint, poll, wrap, queue, status, worker,
                   cancelling, bounds>>

\* encryptToBase64 names the key without a version.
StoreWrap(e) ==
    /\ sstep[e] = "read"
    /\ sstep' = [sstep EXCEPT ![e] = "wrapped"]
    /\ wrap' = [wrap EXCEPT ![e] = primary]
    /\ UNCHANGED <<primary, checkpoint, poll, label, queue, status, worker,
                   cancelling, bounds>>

\* Mutant of StoreInsert: the version is read after the data key was wrapped.
StoreInsertLate(e) ==
    /\ sstep[e] = "wrapped"
    /\ sstep' = [sstep EXCEPT ![e] = "stored"]
    /\ label' = [label EXCEPT ![e] = primary]
    /\ UNCHANGED <<primary, checkpoint, poll, wrap, queue, status, worker,
                   cancelling, bounds>>

\* The row is committed.
StoreInsert(e) ==
    /\ sstep[e] = "wrapped"
    /\ sstep' = [sstep EXCEPT ![e] = "stored"]
    /\ UNCHANGED <<primary, checkpoint, poll, label, wrap, queue, status,
                   worker, cancelling, bounds>>

(***************************************************************************)
(* pollForRotation and the orchestrator.                                    *)
(***************************************************************************)

\* getPrimaryKeyIdWithVersion, before the transaction; a poll whose
\* transaction could not begin ends, and the next one reads again.
PollReadVersion(p) ==
    /\ p \in plan.pollers
    /\ pstep[p] \in {"idle", "polled"}
    /\ pstep' = [pstep EXCEPT ![p] = "polled"]
    /\ observed' = [observed EXCEPT ![p] = primary]
    /\ UNCHANGED <<primary, checkpoint, from, queued, entries, queue, status,
                   worker, cancelling, bounds>>

\* The poll ends; what it has read is forgotten.
EndPoll(p) ==
    /\ pstep' = [pstep EXCEPT ![p] = "idle"]
    /\ observed' = [observed EXCEPT ![p] = NoVersion]
    /\ from' = [from EXCEPT ![p] = NoVersion]
    /\ queued' = [queued EXCEPT ![p] = {}]

\* The poll goes on to queue the jobs of a transition.
BeginQueueing(p, v) ==
    /\ pstep' = [pstep EXCEPT ![p] = "queueing"]
    /\ from' = [from EXCEPT ![p] = v]
    /\ UNCHANGED <<observed, queued>>

\* No poller holds the checkpoint's row, nor an insert of it, in a transaction.
RowFree == \A p \in Pollers : pstep[p] # "queueing"

\* detectBootstrapPreviousVersion.
StaleVersions(v) == {label[e] : e \in stored} \ {v}

\* The versions to rotate from: without a checkpoint, those in use.
Previous(p) == IF seen = NoVersion THEN StaleVersions(observed[p])
               ELSE {seen} \ {observed[p]}

\* Mutant of PollCompare: the checkpoint is read without FOR UPDATE.
PollCompareUnlocked(p) ==
    /\ pstep[p] = "polled"
    /\ \/ /\ Previous(p) = {}
          /\ seen' = observed[p]
          /\ EndPoll(p)
       \/ \E v \in Previous(p) :
             /\ Previous(p) = {v}
             /\ BeginQueueing(p, v)
             /\ UNCHANGED seen
    /\ UNCHANGED <<primary, processed, entries, queue, status, worker,
                   cancelling, bounds>>

\* The checkpoint is inserted or locked, and compared: nothing to rotate, a
\* version to rotate from, or several of them, which is an error.
PollCompare(p) ==
    /\ pstep[p] = "polled"
    /\ RowFree
    /\ \/ /\ Previous(p) = {}
          /\ seen' = observed[p]
          /\ EndPoll(p)
       \/ \E v \in Previous(p) :
             /\ Previous(p) = {v}
             /\ BeginQueueing(p, v)
             /\ UNCHANGED seen
       \/ /\ \E u, v \in Previous(p) : u # v
          /\ EndPoll(p)
          /\ UNCHANGED seen
    /\ UNCHANGED <<primary, processed, entries, queue, status, worker,
                   cancelling, bounds>>

\* The transition a poller has found.
Found(p) == <<from[p], observed[p]>>

\* addJob: an id that is in the queue, in whatever state, is a duplicate.
Enqueued(ts, k) ==
    [j \in Jobs |-> IF j[1] \in ts /\ j[2] = k /\ job[j] = "none"
                    THEN "waiting" ELSE job[j]]

QueueTenant(p, t) ==
    /\ pstep[p] = "queueing"
    /\ t \notin queued[p]
    /\ queued' = [queued EXCEPT ![p] = @ \cup {t}]
    /\ job' = Enqueued({t}, Found(p))
    /\ UNCHANGED <<primary, checkpoint, pstep, observed, from, entries, made,
                   stalls, holder, status, worker, cancelling, bounds>>

\* Mutant of PollCommit: the transaction does not wait for the jobs.
PollCommitEarly(p) ==
    /\ pstep[p] = "queueing"
    /\ seen' = observed[p]
    /\ processed' = Found(p)
    /\ EndPoll(p)
    /\ UNCHANGED <<primary, entries, queue, status, worker, cancelling,
                   bounds>>

PollCommit(p) ==
    /\ pstep[p] = "queueing"
    /\ queued[p] = Tenants
    /\ seen' = observed[p]
    /\ processed' = Found(p)
    /\ EndPoll(p)
    /\ UNCHANGED <<primary, entries, queue, status, worker, cancelling,
                   bounds>>

\* A call fails or the process dies: the checkpoint is rolled back, the jobs
\* stay, and calls of the same Promise.all may still reach the queue.
PollAbort(p) ==
    /\ pstep[p] = "queueing"
    /\ EndPoll(p)
    /\ \E late \in SUBSET (Tenants \ queued[p]) :
          job' = Enqueued(late, Found(p))
    /\ Fault
    /\ UNCHANGED <<primary, checkpoint, entries, made, stalls, holder, status,
                   worker, cancelling>>

\* RotateEncryptedStoreKeyHandler: an administrator names both versions.
QueueManual(t, k) ==
    /\ manual < plan.manual
    /\ manual' = manual + 1
    /\ k[1] <= primary /\ k[2] <= primary
    /\ job' = Enqueued({t}, k)
    /\ UNCHANGED <<primary, checkpoint, poll, entries, made, stalls, holder,
                   status, worker, cancelling, plan, cancels, faults>>

(***************************************************************************)
(* The job queue (BullMQ) around EncryptedStoreKeyRotationJob.process.      *)
(***************************************************************************)

Target(w) == work[w][2][2]

TakeJob(w, j) ==
    /\ w \in plan.workers
    /\ wstep[w] = "idle"
    /\ job[j] = "waiting"
    /\ job' = [job EXCEPT ![j] = "active"]
    /\ holder' = [holder EXCEPT ![j] = w]
    /\ wstep' = [wstep EXCEPT ![w] = "opening"]
    /\ work' = [work EXCEPT ![w] = j]
    /\ UNCHANGED <<primary, checkpoint, poll, entries, made, stalls, status,
                   batch, owed, cancelling, bounds>>

\* The worker is free; what it has read is forgotten.
Leave(w) ==
    /\ wstep' = [wstep EXCEPT ![w] = "idle"]
    /\ work' = [work EXCEPT ![w] = NoJob]
    /\ batch' = [batch EXCEPT ![w] = {}]
    /\ owed' = [owed EXCEPT ![w] = {}]

\* The outcome of a job is taken only from the worker that holds its lock.
Succeeded(w) ==
    LET j == work[w] IN
    IF holder[j] = w
    THEN /\ job' = [job EXCEPT ![j] = "done"]
         /\ holder' = [holder EXCEPT ![j] = NoOne]
    ELSE UNCHANGED <<job, holder>>

AttemptFailed(w) ==
    LET j == work[w] IN
    IF holder[j] = w
    THEN /\ made' = [made EXCEPT ![j] = @ + 1]
         /\ job' = [job EXCEPT ![j] =
                      IF made[j] + 1 >= Attempts THEN "failed" ELSE "waiting"]
         /\ holder' = [holder EXCEPT ![j] = NoOne]
    ELSE UNCHANGED <<job, made, holder>>

\* The lock of an active job runs out while its worker goes on.
LoseLock(j) ==
    /\ job[j] = "active" /\ holder[j] # NoOne
    /\ holder' = [holder EXCEPT ![j] = NoOne]
    /\ Fault
    /\ UNCHANGED <<primary, checkpoint, poll, entries, job, made, stalls,
                   status, worker, cancelling>>

\* An active job without a lock is found stalled.
Recover(j) ==
    /\ job[j] = "active" /\ holder[j] = NoOne
    /\ IF stalls[j] < MaxStalls
       THEN /\ job' = [job EXCEPT ![j] = "waiting"]
            /\ stalls' = [stalls EXCEPT ![j] = @ + 1]
       ELSE /\ job' = [job EXCEPT ![j] = "failed"]
            /\ UNCHANGED stalls
    /\ UNCHANGED <<primary, checkpoint, poll, entries, made, holder, status,
                   worker, cancelling, bounds>>

\* The worker's process dies.
Crash(w) ==
    /\ wstep[w] # "idle"
    /\ holder' = [j \in Jobs |-> IF holder[j] = w THEN NoOne ELSE holder[j]]
    /\ Leave(w)
    /\ Fault
    /\ UNCHANGED <<primary, checkpoint, poll, entries, job, made, stalls,
                   status, cancelling>>

(***************************************************************************)
(* rotateKey.                                                               *)
(***************************************************************************)

Go(w, here, there) ==
    /\ wstep[w] = here
    /\ wstep' = [wstep EXCEPT ![w] = there]

\* _getOrCreateRotationState: a row completed or cancelled makes the job a
\* no-op; one that failed is reset by a second statement.
OpenState(w) ==
    LET j == work[w] IN
    /\ wstep[w] = "opening"
    /\ \/ /\ status[j] \in {"completed", "cancelled"}
          /\ Leave(w)
          /\ Succeeded(w)
          /\ UNCHANGED status
       \/ /\ status[j] \in {"none", "in_progress"}
          /\ Go(w, "opening", "reading")
          /\ status' = [status EXCEPT ![j] = "in_progress"]
          /\ UNCHANGED <<job, holder, work, batch, owed>>
       \/ /\ status[j] = "failed"
          /\ Go(w, "opening", "reset")
          /\ UNCHANGED <<status, job, holder, work, batch, owed>>
    /\ UNCHANGED <<primary, checkpoint, poll, entries, made, stalls,
                   cancelling, bounds>>

ResetState(w) ==
    /\ Go(w, "reset", "reading")
    /\ status' = [status EXCEPT ![work[w]] = "in_progress"]
    /\ UNCHANGED <<primary, checkpoint, poll, entries, queue, work, batch,
                   owed, cancelling, bounds>>

\* Mutants of Unrotated: entries under the new version are selected again; the
\* tenant is not looked at.
UnrotatedAll(w) == {e \in stored : TenantOf[e] = work[w][1]}
UnrotatedAnywhere(w) == {e \in stored : label[e] # Target(w)}

\* What rotateKey selects: the entries of the tenant that are not yet under
\* the new version.  The old version of the rotation is not looked at.
Unrotated(w) ==
    {e \in stored : TenantOf[e] = work[w][1] /\ label[e] # Target(w)}

ReadBatch(w) ==
    /\ wstep[w] = "reading"
    /\ \E b \in SUBSET Unrotated(w) :
          /\ Cardinality(b) <= BatchSize
          /\ b = Unrotated(w) \/ Cardinality(b) = BatchSize
          /\ batch' = [batch EXCEPT ![w] = b]
          /\ wstep' = [wstep EXCEPT ![w] =
                         IF b = {} THEN "closing" ELSE "applying"]
    /\ owed' = [owed EXCEPT ![w] =
                  {e \in stored : TenantOf[e] = work[w][1]}]
    /\ UNCHANGED <<primary, checkpoint, poll, entries, queue, status, work,
                   cancelling, bounds>>

\* The rewrapped data keys are written, and with them the version.
Rewrapped(w) ==
    /\ label' = [e \in Entries |-> IF e \in batch[w] THEN Target(w)
                                   ELSE label[e]]
    /\ wrap' = [e \in Entries |-> IF e \in batch[w] THEN Target(w)
                                  ELSE wrap[e]]
    /\ owed' = [v \in Workers |->
                  IF wstep[v] # "idle" /\ Target(v) # Target(w)
                  THEN owed[v] \ batch[w] ELSE owed[v]]
    /\ UNCHANGED <<primary, checkpoint, poll, sstep, queue, status,
                   work, batch, cancelling, bounds>>

\* Mutant of ApplyBatch: a full batch is taken for the last one.
ApplyBatchOnce(w) ==
    /\ Go(w, "applying", "closing")
    /\ Rewrapped(w)

\* A batch that is not full was the last one.
ApplyBatch(w) ==
    /\ Go(w, "applying",
          IF Cardinality(batch[w]) < BatchSize THEN "closing" ELSE "reading")
    /\ Rewrapped(w)

\* The row is completed, whatever has been made of it meanwhile.
CloseState(w) ==
    /\ Go(w, "closing", "auditing")
    /\ status' = [status EXCEPT ![work[w]] = "completed"]
    /\ UNCHANGED <<primary, checkpoint, poll, entries, queue, work, batch,
                   owed, cancelling, bounds>>

\* The audit event is inserted, and the job is done.
FinishJob(w) ==
    /\ wstep[w] = "auditing"
    /\ Leave(w)
    /\ Succeeded(w)
    /\ UNCHANGED <<primary, checkpoint, poll, entries, made, stalls, status,
                   cancelling, bounds>>

\* The key service or the database fails before rotateKey's try block.
OpeningFails(w) ==
    /\ wstep[w] \in {"opening", "reset"}
    /\ Leave(w)
    /\ AttemptFailed(w)
    /\ Fault
    /\ UNCHANGED <<primary, checkpoint, poll, entries, stalls, status,
                   cancelling>>

\* It fails inside the try block: not even a completed row is spared.
StepFails(w) ==
    /\ \E here \in {"reading", "applying", "closing", "auditing"} :
          Go(w, here, "failing")
    /\ Fault
    /\ UNCHANGED <<primary, checkpoint, poll, entries, queue, status, work,
                   batch, owed, cancelling>>

\* The catch marks the row, or fails to, and throws.
MarkFailed(w) ==
    /\ wstep[w] = "failing"
    /\ \/ /\ status' = [status EXCEPT ![work[w]] = "failed"]
          /\ UNCHANGED bounds
       \/ Fault /\ UNCHANGED status
    /\ Leave(w)
    /\ AttemptFailed(w)
    /\ UNCHANGED <<primary, checkpoint, poll, entries, stalls, cancelling>>

\* cancelRotation of the address rotation, which shares the table: the status
\* is read, and written by a later statement.
CancelRead(j) ==
    /\ status[j] = "in_progress"
    /\ j \notin cancelling
    /\ cancels < plan.cancels
    /\ cancels' = cancels + 1
    /\ cancelling' = cancelling \cup {j}
    /\ UNCHANGED <<primary, checkpoint, poll, entries, queue, status, worker,
                   plan, manual, faults>>

CancelWrite(j) ==
    /\ j \in cancelling
    /\ cancelling' = cancelling \ {j}
    /\ status' = [status EXCEPT ![j] = "cancelled"]
    /\ UNCHANGED <<primary, checkpoint, poll, entries, queue, worker, bounds>>

StoreStep(e) == StoreReadVersion(e) \/ StoreWrap(e) \/ StoreInsert(e)

Poll(p) == \/ PollReadVersion(p) \/ PollCompare(p) \/ PollCommit(p)
           \/ \E t \in Tenants : QueueTenant(p, t)

RotateKey(w) ==
    \/ OpenState(w) \/ ResetState(w) \/ ReadBatch(w) \/ ApplyBatch(w)
    \/ CloseState(w) \/ FinishJob(w) \/ MarkFailed(w)

Work(w) == RotateKey(w) \/ \E j \in Jobs : TakeJob(w, j)

Next ==
    \/ NewVersion
    \/ \E e \in Entries : StoreStep(e)
    \/ \E p \in Pollers : Poll(p) \/ PollAbort(p)
    \/ \E t \in Tenants, k \in Rotations : QueueManual(t, k)
    \/ \E w \in Workers : Work(w) \/ OpeningFails(w) \/ StepFails(w) \/ Crash(w)
    \/ \E j \in Jobs : \/ LoseLock(j) \/ Recover(j)
                       \/ CancelRead(j) \/ CancelWrite(j)

\* Workers take jobs and their calls return; the queue looks for stalled jobs
\* every 30 seconds.
Fairness ==
    /\ \A w \in Workers : WF_vars(Work(w))
    /\ WF_vars(\E j \in Jobs : Recover(j))

Spec == Init /\ [][Next]_vars /\ Fairness

(***************************************************************************)
(* Properties.                                                              *)
(***************************************************************************)

\* An entry never claims a newer version than the one its data key is wrapped
\* with, however versions change between the two calls of store or during a
\* rotation: a version below every keyVersion in the table wraps nothing.
LabelNeverAhead == \A e \in stored : label[e] <= wrap[e]

\* Whatever fails or dies in a poll, the transition its checkpoint says was
\* processed has a job for every tenant (orchestrateRotation is awaited inside
\* the transaction of pollForRotation).
TransitionIsQueued ==
    processed # NoRotation => \A t \in Tenants : job[<<t, processed>>] # "none"

\* Pollers that overlap leave no gap: the checkpoint moves only by a transition
\* from the version it held (the row lock of pollForRotation).
TransitionsChain ==
    [][seen # NoVersion /\ seen' # seen => processed' = <<seen, seen'>>]_vars

\* A rotation is recorded as completed only when every entry its last query
\* could see is under the new version, or was rewritten by a rotation to
\* another one since (rotateKey's short batch and its catch).
CompletionIsEarned ==
    [][\A j \in Jobs : status[j] # "completed" /\ status'[j] = "completed" =>
          \E w \in Workers : /\ wstep[w] = "closing" /\ work[w] = j
                             /\ \A e \in owed[w] : label[e] = Target(w)]_vars

\* The versions an entry in the table claims and is wrapped with.
Keys == [e \in Entries |-> IF e \in stored
                           THEN [claims |-> label[e], wrapped |-> wrap[e]]
                           ELSE [claims |-> NoVersion, wrapped |-> NoVersion]]

Ledger == INSTANCE KeyLedger WITH
    key <- Keys,
    requested <- {j \in Jobs : job[j] # "none"},
    begun <- {j \in Jobs : status[j] # "none"}

\* Polls, jobs, workers and store(), with the steps between their statements,
\* implement KeyLedger: an entry's two versions exist and change together, by a
\* rotation that was queued and opened for its tenant and for no other's, and
\* the checkpoint moves along transitions queued for every tenant
\* (pollForRotation, orchestrateRotation, rotateKey, store).
ImplementsLedger == Ledger!Spec

\* Two rotations of one tenant, to different versions, at once.
Contended(t) ==
    \E v, w \in Workers : /\ wstep[v] # "idle" /\ work[v][1] = t
                          /\ wstep[w] # "idle" /\ work[w][1] = t
                          /\ Target(v) # Target(w)

\* Whatever fails, dies or loses its lock, where a worker is up the queue of
\* rotation jobs drains again and again, unless two rotations of a tenant take
\* its entries back from each other for ever (the query of rotateKey drains;
\* attempts and stalls are bounded).
QueueDrains ==
    plan.workers # {} =>
        []<>(\/ \A j \in Jobs : job[j] \notin {"waiting", "active"}
             \/ \E t \in Tenants : Contended(t))
==============================================================================
