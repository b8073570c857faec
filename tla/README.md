# The protocols of node-monorepo-boilerplate in TLA+

The repository is a TypeScript monorepo: a NestJS API (`apps/api`), its web,
admin and mobile clients, and some thirty packages. Most of the API is a request
handler over PostgreSQL. What is more than that are the protocols that span
several processes or several stores without a common transaction, and these are
what this project models:

* the **event backbone**: a command writes its rows and an outbox row in one
  transaction, pollers move outbox rows to Kafka through one shared producer,
  consumers handle them with retries and a dead-letter topic, and administrators
  replay or delete what failed;
* **tracked e-mails** and the provider's webhooks about them;
* **registration** and the installation of the first owner, across Redis, Google
  Identity Platform and the database;
* the **rotation of the key** that wraps the encrypted store's data keys;
* **stored files**: a row, an object in a store, and whatever refers to them.

Contents: [inventory](#1-inventory-of-the-system) ·
[modules](#2-the-modules) · [runs](#3-the-runs) ·
[fairness](#4-fairness) · [proofs](#5-what-is-proved) ·
[findings](#6-findings) · [known divergences](#7-known-divergences) ·
[what is not modelled](#8-what-is-not-modelled) · [plan](#9-plan)

All paths below are relative to the repository; `events/` stands for
`packages/events/src/`, `api/` for `apps/api/src/modules/`.

## 1. Inventory of the system

### Modelled

| Part | State | Operations | What is hard | What makes it correct |
|---|---|---|---|---|
| **Transactional outbox**: `events/outbox/outbox.repository.ts`, `outbox-poller.service.ts`, schema in `packages/db-outbox` | the `outbox` table: status, `locked_by`, `retry_count`, `next_retry_at`, `dead_lettered_at`; per poller: the batch in hand | insert, claimPending, claimRetryable, publish, markAsPublished, markAsFailed, cleanup | several poller processes over one table, `FOR UPDATE SKIP LOCKED`; decisions on a copy of the row; statements that fail, were executed but answered with an error, or are followed by a crash; batches dropped half-way | no event is held twice; published only after Kafka took it; `maxRetries` means what it says; nothing disappears silently; everything gets somewhere |
| **Dead-letter service**: `events/dead-letter/dead-letter.service.ts` | `dead_lettered_at` of the same rows | sendToDeadLetter, replayFromDeadLetter, deleteDeadLetteredEvent, retention | check and reset in two statements, beside the pollers | dead-lettered rows are out of the pollers' reach and come back only by a reset |
| **Event replay**: `events/replay/event-replay.service.ts` | `activeReplays` in one process's memory, a semaphore per batch, replay columns of the rows | startReplay, the background batch, cancelReplay, settling, the 5-minute deletion, metadata retention | every event of a batch is a concurrent task; cancellation at any await; two sessions over one row; shutdown | slots are neither lost nor created; a cancellation stops soon; COMPLETED is complete; the columns claim only what was sent |
| **Kafka client**: `events/client.ts` | one producer, its connection flag and listeners, circuit breaker, half-open and reconnect timers, closing flag | getProducer, disconnect event, reconnection, closeProducer | concurrent callers meet inside a connection attempt; disconnect events come late; timers outlive what set them | the breaker opens and closes on its threshold; at most one timer; a lost connection the client has been told of is not handed out and is pursued; closed means closed; calls end |
| **Kafka consumer**: `events/handler.ts` | the position and committed offset of a partition, `x-retry-count` in the messages | the eachMessage callback: parse, handle, republish, dead-letter | redelivery, restart from an older offset, sends that fail or are stored all the same | nothing behind the committed offset is lost; the dead-letter topic is earned; the retry limit holds; everything is settled |
| **Tracked e-mails and webhooks**: `api/email-tracking`, `api/email-webhooks` | rows of `email_messages` (status), `email_provider_messages` (newest webhook), `email_webhook_events` (processing status); per execution its place and what it has read | sendTrackedEmail, ingest (dedupe, claim of a duplicate), reprocess, processWithDatabase, markFailed | webhooks out of order, repeated, overlapping, even before the provider's row exists; statuses read without a lock; an exception or a death inside a claim or a transaction | the row shows the newest webhook; a status has a cause; it moves forward; every event settles or was abandoned |
| **First owner, registration and the Redis lock**: `api/bootstrap`, `api/auth/services/auth.service.ts`, `api/auth/repositories/auth.repository.ts`, `packages/redis/src/cache.ts` | lock keys with an expiry, the advisory lock; tenants and accounts of the identity provider; organizations, users, owners, outbox | install, registerWithEmailPassword (founding or joining), acquireLock, releaseLock, the rollbacks by hand | three stores without a common transaction; the lock expires under its holder; a call that throws has taken effect; the undoing of a step fails too | at most one owner; no member without account; an account left behind has a reason; a late release frees nobody else's lock; every request is answered |
| **Key rotation**: `api/encrypted-store`, `cancelRotation` of `api/users/services/address-key-rotation.service.ts` | the checkpoint row, the queue's jobs with attempts, stalls and locks, `key_rotation_state`, the entries' `keyVersion` and wrapping | pollForRotation, orchestrateRotation, the manual command, rotateKey, store, cancelRotation | the version is read before the row lock; jobs queued before the commit; store() racing with versions and rotations; workers die or lose their lock and the job runs twice | no entry claims a version it has not; no tenant without its job; completion covers what was seen; the queue drains |
| **Stored files and references to them**: `api/storage`, avatars in `api/auth`, attachments in `api/issues` and `api/content` | the file's row (status, row locks), its object, the references; the job's advisory lock, batch and item | createUploadReservation, uploadFileContent, completeUpload, deleteFile, attach, replace, detach, clean-up, purge, reconciliation | no transaction covers the store; an upload, its compensation, a presigned PUT and the job meet on one file; a statement that fails frees the row before the compensation; references are counted beside those that write them | a purged file leaves no object; of a ready one only such an upload takes it; an upload has one outcome; no deletion overlooks a reference; pending and deleted files are settled |

How they interact: commands insert outbox rows (input of `Outbox`); the poller
and the replay service publish through the event bus, which uses the one
producer of `KafkaClient` and validates the event first; the message reaches
`MessageHandler`. The bus's answers (accepted, rejected before sending, failed
with the message stored or not) are nondeterministic inputs of `Outbox`,
`EventReplay` and `MessageHandler`; the breaker that makes the bus fail for a
while is modelled on its own. The replay service and the outbox share rows, but
the replay service reads published rows only and writes two columns the pollers
never read; `EventReplay` therefore keeps a table of its own with those columns.

The other four meet the backbone at one point only: the rows they insert in the
outbox with their own (registration: `outbox`; the others' payloads carry no
decision and are left out). They do not share tables with each other.

### Not modelled, with a protocol of their own

| Part | State and operations | What is hard | What would make it correct |
|---|---|---|---|
| **Address key rotation** `api/users/services/address-key-rotation.service.ts` | a `key_rotation_state` row with status, cursor and counts; rotate, resume, batches, streaming, verification (its `cancelRotation` is in `KeyRotation`) | crypto outside, update inside a transaction with `SKIP LOCKED`; two workers, one cursor; its final update overwrites a cancellation (line 506) | every entry is re-encrypted exactly once or reported; a cancellation stays |
| **Sessions and refresh tokens** `api/auth/services/auth-session-store.service.ts`, `refresh-token.handler.ts` | session and token keys with expiry, an index per user, a blacklist | several Redis writes without a transaction beside a PostgreSQL transaction; two refreshes of one token | a refresh token is used once; a revoked session grants nothing |
| **Invitations** `api/tenants/handlers/commands/*` | an invitation row with status and expiry | accept against revoke and resend | an invitation is used once, never after its revocation |
| **Event bus** `events/event-bus.ts` | the enabled flag | partial failure of publishBatch | the result names what was sent |
| **Routing, versioning** `events/routing`, `events/versioning` | registries filled at start-up | pattern order, chains of transformers | against a reference definition |
| **Job worker** `packages/queues/src/worker.ts` | running flag, jobs in flight | stop while jobs run | |

### Left out

Secret stores, encryption, OPA, the schema and utility packages, the remaining
CRUD modules of the API, the clients, build and deployment: `PROJECT.json` lists
each with its reason. In short: pure I/O, data without a protocol, or one
transaction per command whose hard part is the outbox.

## 2. The modules

| Module | Models | Implements |
|---|---|---|
| `Outbox` | repository, pollers, dead-letter service, administrators, retention | `EventDelivery`: accept, deliver, close, park, revive, forget |
| `EventReplay` | replay sessions of one process | `ReplayRecord`: pick, take off, send, mark, land, conclude |
| `KafkaClient` | the producer manager | |
| `MessageHandler` | the consumer of one partition | `EventConsumption`: accept, process, fail, refuse, park, forgo |
| `EmailTracking` | the sender of e-mails and the webhook handlers | `EmailRecord`: create, provide, finish, store, claim, set aside, apply |
| `Registration` | installation, registration and the Redis lock | `Accounts`: open and close tenants and accounts, found, turn to, register, install the owner |
| `KeyRotation` | poll, orchestrator, job, rotateKey, store | `KeyLedger`: version, store, request, begin, rewrap, settle, advance |
| `StoredFiles` | files, the store, references, the maintenance job | `FileLifecycle`: reserve, write, erase, break, tidy, complete, fail, exchange, delete, purge |

Each module on the left has a module of the same name with `Proofs` behind it, which
holds its theorems, and one with `MC` before it, which instantiates it for TLC. The
abstract specifications on the right have no locks, transactions, processes,
callbacks or deaths, and take several statements of the code for one step: what
they promise has to be seen through all of these. They are instantiated in the
module that implements them, with a refinement mapping where a variable of theirs is
not one of the module's own:

| Abstract variable | Is, in the detailed module |
|---|---|
| `EventDelivery!phase` | what the row's status, `dead_lettered_at` and the delivery add up to |
| `ReplayRecord!fate` | `Fate`: an event is picked until it has passed the check for cancellation, in the air until its slot is given back; `sent` is `republished` |
| `EventConsumption!waiting` | the events with a message at or behind the committed offset that are neither handled nor dead-lettered |
| `EmailRecord!finished` | the e-mails whose `sendTrackedEmail` has returned, thrown or died |
| `KeyLedger!key`, `requested`, `begun` | label and wrapping of each entry; the jobs that were ever queued; those with a row in `key_rotation_state` |
| `Accounts` | variables of the same names |
| `FileLifecycle!loose` | `Loose`: the files of which an upload goes on without its transaction; the others are variables of the same names |

Definitions beside an operation that are commented as *mutants* are the ways that
operation could be wrong that the project uses to see that each property
can fail; `PROJECT.json` pairs them. Nothing in a specification refers to them.

### Outbox

*State.* `row` is the table, by event; an absent row has status `none`, a deleted
one `deleted`. Events are numbered in the order of `created_at`, which is what
`claimPending` orders by. `next_retry_at` is kept as what a query can tell of it:
unset, in the future (backoff or a year away), or due. `pc`, `todo` and `cur`
are each poller's place in `processPendingEvents`: the copies of rows it has
claimed and not begun, and the event in hand. A copy keeps the retry count it was
read with, because `processEvent` decides by it. `replaying` is what an
administrator has read and not yet reset. `delivered` is Kafka's side.
`attempts` is a history variable; `faults` and `replays` count what the bounds
limit.

*Steps.* One SQL statement is one step: the repository opens no transaction around
two of them, and row locks end with the statement. `Executed(after, reply)`
says what a statement may do: take effect and answer, fail, or (fault kind
`lost`) take effect and answer with an error. `ClaimPending` and
`ClaimRetryable` are the two statements of a poll; an error in the second runs
the catch of `processPendingEvents`, which forgets what the first one claimed
(`Abandon`). `PickEvent`, `Publish`, `MarkPublished`, `MarkFailed` and `Park`
are `processEvent` with its catch, which also covers `sendToDeadLetter`. `Crash`
is the death of a poller's process and its shutdown: `onModuleDestroy` clears
the timers and does not wait. `Start` is the Kafka check at boot.
`FindDeadLettered` and `ResetForRetry` are the two statements of a replay.

*Abstractions.* The pending rows that a batch holds are handled in any order
(`UPDATE ... RETURNING` promises none). Rows that are due are claimed in any
order among themselves (`next_retry_at` is not kept as a number). The message to
the dead-letter topic is left out: it is sent after the row is marked and its
errors are swallowed. `Park` leaves out the early return of `sendToDeadLetter` for a
row without a tenant (`dead-letter.service.ts:226`): `tenant_id` is NOT NULL.
`Elapse` stops at `MaxRetryCount`. `GivenUp` is both ends of an exhausted event: the
dead-letter service marks it, or, in a poller built without one, its next retry is put a
year away. `DeadLetterWired` says which.

### EventReplay

A step is what runs between two awaits of one Node process. `processEventsBatch`
maps over the batch synchronously, so every event calls `acquire()` once, in
order: the wait queue of the semaphore is the set of `waiting` events, served
from its least element, and this is why the model needs no sequence. `Begin` is
the whole synchronous pass; `Publish`, `PublishSucceeds`, ..., `MarkFails` are
one event's way through its awaits; `Finish` releases the slot to the next waiter
or to the counter on each of the four exits. `Settle` is what follows
`Promise.allSettled`; `Forget` the five-minute timer. Calls in flight when the
process dies may still take effect (`ArrivesLate`). The filters of the options
are abstracted to "any subset of the published rows"; retention may delete a row
at any point. `Load` with an empty answer, and `LoadFails`, end a session without
a batch.

### KafkaClient

All variables are the private fields of `KafkaClientManager`, and the steps what
runs between two awaits. `orphans` counts half-open timers that were replaced
in `circuitBreakerHalfOpenTimeout` and are still pending. `linked` is Kafka's side
of a producer: whether it has a connection. Kafka drops one in `LinkLost`; the
disconnect event is then on its way (`signals`) and runs in `Disconnected`, perhaps late:
after a caller has been given the dead producer, after a reconnection has succeeded, or
while the manager is closing, which ignores it. A loss for which kafkajs emits no event
at all goes unnoticed, as in the code. A call keeps the producer it is
connecting (`target`), while the flags it sets afterwards are the manager's
present ones: the code's stale reads are steps here. `Reconnectors` are the
callbacks of the reconnect timer, which call `getProducer()` like everybody
else. `failureCount` saturates at `MaxCount`, at or past the threshold, where
no comparison can tell.

### MessageHandler

`log`, `position` and `committed` are Kafka's and kafkajs's, modelled from how
the callback relies on them: a callback that resolves moves on, one that rejects
has its message fetched again, a restart resumes from the last commit. The
callback's steps follow `registerHandler`'s `eachMessage`. A send reported as
failed may have been stored. `failed` and `lostSends` are history variables the
properties need. Headers other than `x-retry-count`, spans and logs are left
out.

### EmailTracking

Both sides write the same rows. `sender` is an execution of `sendTrackedEmail`, a
statement a step: the e-mail's row, the provider's answer or exception, the
provider row, and then `updateStatusWithDatabase`, which is two statements, a
read (`ReadToMark`) and a write by what was read (`WriteMark`). `run` are the
executions of the ingest and reprocess handlers that overlap. A delivery inserts
its event by the dedupe key, or claims the existing row (`Claim`, the conditional
UPDATE, up to three times, with `Recheck` between). The processing transaction is
`Resolve`, `Touch`, `ReadStatus`, `Commit`: `Touch` updates the provider row and
keeps it locked, so another transaction waits there and looks again at what was
committed; an exception at any of its steps (`Fail`) rolls back and marks the
event failed in a transaction of its own, or that fails too. `Crash` ends an
execution anywhere. `receipts` and `abandoned` are history variables.

*Abstractions.* One provider row per e-mail, to which every identifier of its
events leads; each event carries its time; transactions at READ COMMITTED; the
acknowledgement of a commit is not lost. Signature checks and the overview's
queries are left out.

### Registration

Each call to Redis, the provider or the database is a step of `LockStep`,
`InstallStep` or `RegisterStep`; what a catch undoes are steps too, which may
fail (`undeleted` is what the log then says). A call that throws may have taken
effect, its answer being lost: a lock that nobody holds knowingly, a tenant
(`ProvisionTenantFails`) or an account (`ProvisionUserUnheard`) whose identifier the
request never learns, a deletion that is logged as failed. `unheard` records such
accounts. The installation's transaction may throw at each of its statements, the wait
for the advisory lock included (`AbortInstall`). Tenants, accounts, organizations
and users are named by the request that made them, so that what belongs together
is one name; `place` and `member` are the tenant and the organization a request
goes into, its own or one it has found. `failed` are requests that throw through
`withLock`'s finally. A lock may expire at any moment while it is held
(`LockExpires`); the advisory lock ends with its transaction. `Forms` is the set
of what the requests may ask for together.

*Abstractions.* The provider is one with Firebase; READ COMMITTED; the caller of a
commit learns its outcome. Invitations, OAuth accounts and the provider without
Firebase are left out.

### KeyRotation

`primary` is the key service's version, which only moves forward. A poll reads it
(`PollReadVersion`), then in a transaction locks the checkpoint and compares
(`PollCompare`), queues one job per tenant (`QueueTenant`) and commits
(`PollCommit`): the queue is not part of the transaction, and an error or a death
anywhere (`PollAbort`) keeps the jobs and not the checkpoint. A job is a tenant's rotation
`<<old, new>>`, its id deterministic as in the code, so that queueing it again is
a no-op whatever became of it. Workers, attempts, stalls and locks are BullMQ's,
modelled from the options in the code. `RotateKey` is `rotateKey` statement by
statement: open or reset the state row, read a batch of what is not under the new
version, rewrap and write it, close on a short batch, audit. `store()` is three
steps: read the version, wrap, insert. `Plans` holds the bounds of a behaviour
(which instances are up, how many versions, rotations by hand, cancellations and faults),
chosen by `Init`, so that one run covers several narrow instances. `owed` is a
history variable: what a worker's query could see and no other rotation has
rewritten since.

*Abstractions.* The versions of users, identities and invitations and their
inline-field job, the progress counters and the job's dead-letter queue, which
nothing reads; retrieve, update and delete of entries. Completed jobs stay in the
model's queue; the code removes them after a thousand or a week
(`packages/queues/src/config/defaults.ts:82`), and a job queued again after that finds
its row in `key_rotation_state` completed and does nothing.

### StoredFiles

`row`, `shared` and `busy` are the row locks that decide who waits: FOR UPDATE of
the file, the KEY SHARE lock that an insert with a foreign key takes, and the rows
of users and entries. A request is one of: reserve; upload through the API (lock,
`Put`, `MarkUploaded`, with `Undo` as the compensation of what fails in between: see below);
complete an upload made with a presigned URL (`CompleteHead` looks at the object,
`CompleteMark` locks and marks); attach, replace or detach with the clean-up
of the file let go of; delete. `ClientPut` is the client's own PUT while its URL is
valid. The job takes the advisory lock, purges (`DeleteObject`, then `PurgeMark`)
and reconciles (`HeadObject`, then `ReconcileMark`), and may lose the connection that
holds the lock while it goes on. `age` is what a query can tell of a
reservation: URL valid, expired, a day old. `Plans` as above; `bereft` is a history
variable.

An exception of the code after `putObject` leads to `Undo` with the row still locked.
A statement that fails does not (`MarkFails`): PostgreSQL has aborted the transaction and
freed the row before `deleteUploadedObjectQuietly` runs
(`storage-files.service.ts:349`). Nor does a connection that breaks while the store is
still answering (`LoseConnection`, then `StrayPut` and `StrayUndo`). Such an upload
goes on without a lock (`StraySteps`), beside whoever has taken the row since; `Loose`
are its files. `Crash` is the end of the process, or of a request that has nothing but
statements left.

*Abstractions.* The size of a batch (`LIMIT`) and dry runs; type and length checks
but for "the object has the reserved size"; downloads, which change only
`last_accessed_at`; a day passes after the URL has expired (24 hours against 900
seconds) and retention is counted from the reservation's day; retention outlasts every
request, so that a batch of the purge has no file of which an upload still goes on
(`JobStart`); an issue admits a file
through `admits`, which stands for the purpose and the refusal of a file that another issue has;
the deletion of an issue, which lets go of several files at once, is left out.
Workers run in processes of their own.

## 3. The runs

| Run | Instance | Question | Distinct states |
|---|---|---|---|
| `outbox_safety` | 3 events (event 2 rejected by the bus), 2 pollers, 1 administrator, `MaxRetries` 2, batches of 2, 2 faults of any kind but `lost`, 2 resets | exclusive claims, the retry budget, and the refinement of `EventDelivery` | 450,000 |
| `outbox_liveness` | as above without administrators, one Kafka error, and no dead-letter service, as `events.module.ts` builds the pollers | accepted events are published; rejected ones are tried up to the limit and left for a year | 37,000 |
| `outbox_crash` | 2 events, 2 pollers, one crash | *violated*: everything is settled | |
| `replay` | 3 events, 1 session, 2 slots, `StopOnError`, 1 crash | the session's slots, cancellation, completion, and the refinement of `ReplayRecord` | 95,000 |
| `client` | 2 callers, 1 reconnector, threshold 2, 2 attempts per call, 2 reconnections, 1 close, 1 late event per producer | the breaker, the pursuit of a lost connection, what a closed manager plans, the end of calls | 237,000 |
| `client_stuck_open` | 2 callers, threshold 2, 1 attempt | *violated*: an open circuit is tried again | |
| `handler` | 4 events: accepted, never accepted, not JSON, empty; `MaxRetries` 1, 2 faults, 1 crash | nothing lost, retries bounded, everything settled unless poison blocks it, and the refinement of `EventConsumption` | 379,000 |
| `email` | 1 e-mail; a delivery and a later complaint; 2 overlapping executions, 3 deliveries, 1 reprocess, 1 exception, 1 death | receipts, statuses, claims, that every event settles, and the refinement of `EmailRecord` | 293,000 |
| `registration` | 3 requests in 5 combinations of install, found and join; 2 failing calls, 1 expiry, 1 death | one owner, accounts of the rejected, releases, answers, and the refinement of `Accounts` | 131,000 |
| `registration_leak` | 3 requests, 5 combinations | *violated*: a failed registration leaves nothing behind | |
| `key_rotation` | 2 tenants, 2 entries, batches of 1, 2 attempts, 1 stall, 4 plans | labels, queued transitions, the chain of the checkpoint, completion, the queue drains, and the refinement of `KeyLedger` | 228,000 |
| `stored_files` | 2 files, 2 requests at once, 2 workers, 6 plans | objects of purged and ready files, deletion against references, settling and purging, and the refinement of `FileLifecycle` | 169,000 |

The type invariants and several properties that the theorems establish for every
instance (`PublishedIsDelivered`, `NoSilentLoss`, `PublishedIsFinal`,
`DeadLetterIsTerminal`, `ResultIsFinal`, `MarksAreEarned`, `ClosedBelowThreshold`,
`TimerOnlyWhenOpen`, `DeadLetterIsEarned`, `StatusHasCause`, `AppliedNotTakenUp`,
`RegisteredCanLogIn`, `UploadSettledOnce`) are not repeated in the runs; each can
be named in the cfg of the module's instance.

Why the bounds are enough to be worth something:

* *Outbox.* Three events in batches of two make `LIMIT` bite: one row is always
  left for the other poller, or for the next batch. Two pollers are the least
  that can disagree, and by symmetry more add only copies. `MaxRetries = 2` has a
  first, a last and an exhausted attempt. Two faults cover every pair such as "the
  statement fails, then the process dies"; two resets let one event be
  dead-lettered, revived and dead-lettered again. `MaxRetryCount = 3` lets a row
  fail past the limit once (the failures of `sendToDeadLetter` count too). In the
  liveness run it is 4, so that the year of an event that was given up passes once and it
  comes back. One administrator: two of them are the divergence about two replays of one
  event, and `OneReplayer` excludes them from the theorems too.
* *Lost replies* (a statement executed but answered with an error) are in the
  model and in no run: one of them is enough to break
  `DeadLetterIsTerminal` (see the divergences) and with it exclusive claims and
  the refinement. What holds in spite of them, `TypeOK` and
  `PublishedIsDelivered`, is proved for every set of faults.
* *Replay.* Three events and two slots: one waits, and every exit of the other two
  can wake it. One session: two sessions share nothing but the rows, and two of
  them over two events take too long for a run; the theorems cover any number of
  sessions, events, slots and crashes.
* *Client.* Two callers are the least that meet in one attempt; the reconnector is
  the third. The second producer instance exists only after a close. With one event on its
  way per producer, it can arrive before and after each step of a call, a reconnection
  or the close.
* *Handler.* Every class of message once, so that a poison value sits before and
  behind the others (the log's order is any); two faults, so that a retry and
  the dead-letter send of one message can both fail; one restart.
* *Email.* Two events of one e-mail of which the newer may come first; two
  executions are the least that overlap, and with three deliveries and a reprocess
  each event can be repeated beside itself, or after a failure or a death.
* *Registration.* The five combinations pair every kind with every other on the
  resource they compete for: the owner, the e-mail, the slug. Two faults let a step
  and its undoing both fail.
* *Key rotation.* Two entries in batches of one make a full batch and a short one;
  one entry exists before, the other may be stored meanwhile. Three versions let a
  slow poll be overtaken twice. Two attempts and one stall let a job be retried,
  recovered and given up.
* *Stored files.* Each plan is a hazard: two avatars replaced while requests
  overlap; one upload finished in both ways while the job settles it, with two
  failures and a death or a broken connection; attachments of an issue and of an entry;
  two workers of which one loses the lock; two files in a batch.

Deadlock is checked in the outbox, client and stored-files runs. It is switched off
where the system really may stop: a topic consumed to its end, a process whose
sessions have all ended, deliveries, commands and requests that are used up.

## 4. Fairness

* `Outbox`: weak fairness of `Start(w)` (a process is started), `PollerStep(w)`
  (the interval timer fires and statements and sends return: both clients have
  timeouts) and `Elapse(e)` (time passes). None for faults, administrators,
  producers of events, retention or `Restart`. `Spec`, without fairness, is what
  the safety runs and the proofs use.
* `EventReplay`: weak fairness of `Progress(r)`: the event loop runs what is ready
  and calls in flight are answered. `CancelReplay`, `Cleanup`, `Crash` have
  none.
* `KafkaClient`: weak fairness of the timers, of the answer to a connection
  attempt or disconnection (success or failure, never a particular one), of the
  end of a pause. `GetProducer`, `LinkLost`, `Disconnected`, `Close` have none: an
  event may come late or never.
* `MessageHandler`: weak fairness of `Callback \/ Redeliver` (Kafka delivers, the
  handler returns, the producer answers) and of `Commit`. Which answer comes is
  free; transient failures are bounded by `MaxFaults`, which is "failures stop in
  the end". `Publish` and `Crash` have none.
* `EmailTracking`: weak fairness of `HandlerStep(h)`: an execution of a webhook
  handler goes on, its statements return. The sender, deliveries, commands and
  deaths have none.
* `Registration`: weak fairness of `Step(r)`: the calls of a request return, with
  success or failure (all three clients have timeouts, and the wait for the Redis
  lock is bounded by the code). Expiry and `Crash` have none.
* `KeyRotation`: weak fairness of `Work(w)` (a worker that is up takes jobs and its
  statements return) and of `Recover` of some job (BullMQ looks for stalled jobs
  periodically). Polls, store(), versions, cancellations and faults have none.
* `StoredFiles`: weak fairness of `Elapse(f)` (time passes), `RequestStep(p)` (calls
  return) and `JobStep(j)` (the job is scheduled again and again). Clients, faults
  and deaths have none.

## 5. What is proved

TLAPS checks every proof to its last leaf, for every value of the constants that
the `ASSUME` of the module allows: any number of events, pollers, administrators,
sessions, callers; any threshold, retry limit, batch size; any bounds on faults.
Every safety invariant and action property that a passing run checks is proved,
and so are the seven refinements. A refinement is proved in the same three steps
each time: an inductive invariant that joins the earlier one with what the mapping
needs; the initial states map to initial states; and, by a lemma for each group
of actions, every step maps to a step of the abstract specification or to a stutter.

**Outbox** (`OutboxProofs`)

| Theorem | States | Assumes |
|---|---|---|
| `TypeCorrect` | `TypeOK` | |
| `PublishedDelivered` | `PublishedIsDelivered` | |
| `ClaimsAreExclusive` | `ExclusiveClaim` | `NoLostReplies`, `OneReplayer` |
| `NothingLostSilently` | `NoSilentLoss` | the same |
| `PublishedStays` | `PublishedIsFinal` | the same |
| `DeadLettersStay` | `DeadLetterIsTerminal` | the same |
| `RetriesWithinBudget` | `RetryBudget` | the same |
| `OutboxImplementsDelivery` | `ImplementsDelivery` | the same |

`NoLostReplies` says that no executed statement is answered with an error,
`OneReplayer` that there is at most one administrator; neither can be dropped, see
the divergences about lost replies and about two replays of one event. The argument: `ExclusiveClaim` is not inductive, because nothing in
it says why a claimed row is not claimed again. `ClaimInv` adds that what a poller
holds has a row in `processing` locked in its name (`OwnRows`), that it is held
once (`DistinctCopies`), that dead-lettered rows are `failed` without a retry time
(`ParkedRows`), which no query selects, and that what an administrator has found is
still dead-lettered or gone (`ReplayTargets`, where `OneReplayer` is used). With
it, `RowSteps` classifies what one step may do to one row in seven cases, and the
action properties and the refinement are case splits over it. `RetryBudget`
needs `BudgetInv`: the count in a copy is that of its row, and the publishes so far
are `Spent(retry_count)`, with an offset for each place in `processEvent`.

**EventReplay** (`EventReplayProofs`, no assumption besides the module's):
`TypeCorrect`, `SlotsAreConserved`, `ReplayMarksEarned`, `CompletedSessions`,
`ResultsAreFinal`, `CancellationStopsSoon`, `ReplayImplementsRecord`. `SessionInv` says, by how far a
session has come, which steps its events may be in (`Shape`), and that free and
held slots make `MaxParallel` with nobody waiting beside a free one (`Slots`). `ResultInv`
adds that only sent events are marked and counted; `CancelInv` bounds the
messages out or in flight of a cancelled session. That a non-empty set of waiters
has a first one is proved from the well-foundedness of strict inclusion over
finite sets, without an induction over data. The refinement needs `RecordInv`, which
adds how a session's status goes with its background task (`Phase`). The promise
that at most `MaxParallel` events are in the air comes from `Slots`: those that fly
hold a slot, and so does the one that takes off.

**KafkaClient** (`KafkaClientProofs`): `TypeCorrect`,
`ClosedCircuitBelowThreshold` and `ClosedManagerPlansNothing` hold always;
`TimersOnlyWhenOpen`, `OpeningIsEarned` and `LostConnectionsArePursued` until the first
`closeProducer()`, which is in the properties themselves. `TimerInv` adds that
while the circuit is half open the failures that opened it are still on the
count; `LinkInv` that every attempt is made on the present producer, that a producer
marked connected is listened to and is linked, or else its event is on the way, and that
one not marked connected any more is `Pursued`: a reconnection is planned, under way, or
given up after `MaxReconnects` in a row. From these `LossIsPursued` follows, however late
the event was and whatever was connected or given up in between. After a close it
fails, see the divergence about `closeProducer`.

**MessageHandler** (`MessageHandlerProofs`): `TypeCorrect`, `NoMessageLost`,
`DeadLettersEarned`, `DuplicatesBounded` (which states `RetriesBounded`),
`HandlerImplementsConsumption`, with a dead-letter topic or without one. `LostInv` is
`NothingLost` at `position` as well as at `committed`, so that a restart finds it
true. `RetryInv` ties a message's count to the failures of its event. The bound on
duplicates counts messages in a log that grows without limit; it is proved without
an induction over the log from `SourceInv`: each republished message has a source,
the message it was republished from and the number of the disturbance (a failed send,
a failed attempt or a restart) after which it was, and no two have the same source.
The copies with count *k + 1* thus inject into the copies with count *k* times
one more than the disturbances so far. `ConsumeInv` adds to these, for the refinement, that what is
settled was accepted and that only a handler with a topic parks.

**EmailTracking** (`EmailTrackingProofs`): `TypeCorrect`, `NewestReceipt`,
`WaitingEventsHeld`, `StatusesCaused`, `StatusesForward`, `AppliedLeftAlone`,
`TrackingImplementsRecord`, for any e-mails, events and executions. `ReceiptIsNewest` needs `TrackInv`: who has
touched a provider row holds its lock and nobody else does (`LockInv`), so that
what `Touch` compared with is what the commit replaces; and a row that does not
exist has no receipts (`RowInv`). `StatusesForward` needs `WriteInv`: a sender
writes only what follows the status it has read. The refinement needs `OnRecord`: an
execution has an event that is stored, and a sender that reports acceptance has
written its provider row. It shows that the four statements of a processing
transaction, with other executions between them, are one step `Apply`.

**Registration** (`RegistrationProofs`): `TypeCorrect`, `OneOwner`,
`RegisteredUsersHaveAccounts`, `RejectionLeavesNoAccount`, `LocksFreedByHolders`,
`RegistrationImplementsAccounts`, for any requests and forms and any number of faults, expiries and deaths. The invariant `IInv` has a
part for each reason: the advisory lock is held exactly while a transaction is
open and nobody is an owner then (`Exclusive`), which is why the Redis lock may
expire; where a request's account and row go (`Placed`), what it has at each step
(`Equipped`, `NoAccountYet`), and what it has undone (`Undone`). `RejectionLeavesNoAccount`
says that an account of a rejected request has one of two causes, a logged failure to
delete it or a creation that was never answered, and that it is in no tenant of the
request's own unless deleting the tenant failed too: there the rollback of the tenant
makes up for what the code does not know. The refinement adds
`Belonging`: the organization that a request's user will join exists by the time it
does. `Accounts` lets nobody close the account of a registered user, or the tenant it
is in; that no rollback by hand ever does is what the refinement shows.

**KeyRotation** (`KeyRotationProofs`): `TypeCorrect`, `LabelsNeverAhead`,
`TransitionsQueued`, `CheckpointChains`, `CompletionsEarned`,
`RotationImplementsLedger`. `IInv` adds what the
steps between leave true: `LabelsBehind` while an entry is being stored,
`Announced` and `Serial` while a poll is queueing, `LocksActive` and `Working` for
jobs and workers, and `Owing`: what a worker has seen is rewritten, in its batch,
or left to a further one, because the batch was full. That a batch that is not full
leaves nothing behind rests on the cardinality of subsets of the finite set of
entries. `TypeCorrect` contains the bound on stalls: `maxStalledCount` holds however
stalls and lost locks follow one another. The refinement needs `LedgerInv`: no version is read, claimed or rotated to
before it exists (`KnownVersions`), what a worker runs was queued and, past its
opening, has a state row (`JobsBegun`), and its batch is of its tenant (`OwnBatch`).

**StoredFiles** (`StoredFilesProofs`): `TypeCorrect`, `PurgesComplete`,
`ReadyIsStored`, `UploadsSettleOnce`, `DeletionsAreUnattached`,
`FilesImplementLifecycle`, for any files, holders, requests, workers and plans. `FilesInv` joins who holds which lock at which
step (`UploadHolds`, `AttachShares`, `RowExcludes`, `DropHolds`) with what the store
must hold at it (`MarkingStored`, `CompletingStored`, `ReconcilingStored`) and what
the job may rely on (`BatchReserved`, `BatchIsGone`, `ItemIsGone`, `PurgedIsGone`): a file is
in a batch of deletions only when its URL has expired and no upload is under way,
so that nothing can write its object again between `DeleteObject` and `PurgeMark`.
`StatusSteps` lists the ways a step may change a status, from which the action
properties follow by cases. The refinement needs `LifeInv`: only files that were
completed are referred to, an upload fails only a day after its reservation, a user refers to one avatar at most, and whoever replaces it
holds the user's row; and `TightInv`: no upload is loose of a file that is being purged
or was. `ReadyIsStored` and the refinement give a ready file's object to nothing but an
upload that is loose, or a compensation beside a completion that has seen the object
(`bereft`). The refinement shows that a replacement and the deletion of the file let go
of are one step of the file's life, and that nothing is written to the object of a file
that is purged, or failed without a loose upload.

Only model-checked: liveness (`EventuallyPublished`, `EventuallyGivenUp`,
`BatchEnds`, `CallsEnd`, `SettledUnlessBlocked`, `EventsSettle`, `RequestsEnd`,
`QueueDrains`, `PendingSettles`, `DeletedIsPurged`), because liveness under fairness
and `ENABLED` are out of the prover's reach. The abstract specifications state
safety only, so that the refinements are proved whole. No module that is proved about,
or used by one that is, declares a `RECURSIVE` operator.

## 6. Findings

Each is a run with one property that states what the repository says; TLC finds
it violated by what the code does. `PROJECT.json` quotes both.

1. `outbox_crash`: a row whose poller dies between the claim and the mark stays in
   `processing`, which no query selects; `locked_at` is never read.
2. `client_stuck_open`: a late success clears the half-open timer of an open
   circuit, which then stays open for ever.
3. `registration_leak`: a founder whose slug is taken is rejected after its Identity
   Platform tenant was made, and nothing deletes it; one whose account or user row
   fails leaves its organization behind (`auth.service.ts:1290`), though the comment
   at line 929 says "ENTIRE transaction rolls back (including GCP resources)".

## 7. Known divergences

Where the code and what it, its tests or its documents say differ, without a run
of their own. The models follow the code. Six are stated as properties that do
not hold, next to the others of their module; to see one violated, name it in the
cfg of the module's instance: `CancelledIsFinal` (`EventReplay`), `OneReplayAtATime`
(`EmailTracking`), `OneAccountPerEmail` and `OwnerCanLogIn` (`Registration`),
`AttachedIsKept` and `ReadyKeepsObject` (`StoredFiles`).

### Event backbone

* **No dead-letter service in the poller.** `EventsModule` builds its pollers without it
  (`events.module.ts:167`, `395`, `568`), so nothing is dead-lettered: `DeadLetterWired =
  FALSE` in `Outbox` and in `outbox_liveness`. The fallback of `processEvent` calls its
  retry time a year away one that "won't retry"; after that year `claimRetryable`
  selects the event again, only to put it off for another year.
* **Two replays of one event.** `replayFromDeadLetter` reads and resets in two
  statements (`dead-letter.service.ts:365`): two administrators put one event in two
  pollers' hands. This is why the theorems assume `OneReplayer`.
* **A cancellation of a PENDING session** is overwritten with IN_PROGRESS when the
  background task starts (`event-replay.service.ts:369`), though line 391 says
  "preserve cancelled/completed/failed state": `CancelledIsFinal`.
* **A poison value stops the partition**: the catch block parses it again and throws
  (`handler.ts:206`). `SettledUnlessBlocked` excuses what is behind it.
* **No dead-letter topic**, which is how handlers are registered: exhausted events
  are dropped (`handler.ts:241`). `NothingLost` counts them as cleared after their last
  retry, and `EventConsumption` lets go of them (`Forgo`) only then.
* **Lost replies.** The catch of `processEvent` (`outbox-poller.service.ts:467`)
  also covers `sendToDeadLetter`. If `markAsDeadLettered` was executed but its
  reply lost, `markAsFailed` (line 481) makes the dead-lettered row retryable, though
  `outbox.repository.ts:515` clears `next_retry_at` so that it "cannot" be picked
  again. In `Outbox` this is `Park` with fault `lost` followed by `MarkFailed`.
* **Ordering.** `outbox-poller.service.ts:363` says "sequentially to maintain
  ordering"; the loop continues after an event has failed, so later events of the
  same aggregate overtake it.
* **Kafka down at boot** disables the poller for the life of the process
  (`outbox-poller.service.ts:183`), though the warning before it says publishing
  is "delayed until Kafka is available".
* **stopOnError stops nothing.** All events of a batch pass the check of
  `event-replay.service.ts:582` in one synchronous pass, before the first can
  fail; `config/interfaces.ts:163` says "Stop replay on first error" and line 688
  "now properly enforced". In `EventReplay`, `Begin` evaluates the check where
  the code does, and `HasError` is false there.
* **processedCount** is set to the size of the batch (line 401) also when a
  cancellation has skipped most of it, though line 47 calls it the number of
  events processed.
* **Sessions that end without a batch** (empty answer, failing load) are never
  deleted from `activeReplays`: only the path through line 419 schedules it.
* **HALF_OPEN** admits every caller; `packages/events/README.md:610` says "allows
  limited requests".
* **closeProducer and its timers.** A half-open timer set while
  `disconnect()` is awaited (`client.ts:528`) survives the reset and half-opens the
  closed circuit; a `connect()` in flight over a close leaves a connected
  producer that no variable refers to, and its caller gets null. This is why
  `TimerOnlyWhenOpen`, `OpenIsEarned` and `LossIsPursued` are stated until the
  first close: a disconnect event that arrives while the manager is closing is ignored
  (line 347), and when `disconnect()` then rejects, or a call under way connects the producer that
  was closed, the flag is set for a producer without a connection, which is handed out.
* **Listeners accumulate**: every successful connect of the same producer adds
  its listeners again (`client.ts:320`); only the first has an effect.
* **Republished messages lose their place**: `handler.ts:213` appends a failed
  message behind its successors; `apps/api/docs/events/publishing-events.md:541`
  promises ordering per key.
* **Retry delay.** The consumer documentation describes delays and backoff between
  retries; `handler.ts` republishes at once and never reads `retryDelay`.
  `handler.deadLetterTopic` (`config/interfaces.ts:103`) is resolved and never read.
* **A disabled bus** (`event-bus.ts:217`) returns as if it had sent. The models take
  the bus to be enabled.
* **The dead-letter topic**: the message is sent after the row is committed and
  its failure is swallowed (`dead-letter.service.ts:272`).

### E-mails

* **Stale statuses.** `updateStatusWithDatabase` and the webhook's `ReadStatus` read
  without a lock and write later: a sender writes `accepted` over `delivered`, a
  webhook `delivered` over `complained` (`email-message.repository.ts:65`).
  `StatusMovesForward` excuses exactly these.
* **An event stuck in `received`** after a death between claim and processing: no
  query selects it again (`WaitingIsHeld` and `EventsSettle` excuse `abandoned`).
* **Two replays of one event at once.** A replay that loses the claim reads the
  event again and goes on with it when it is `received`, which is what the winner has
  set; the handler's integration test
  (`__tests__/reprocess-email-webhook-event.handler.integration.test.ts:93`) says
  "rejects a concurrent replay once another replay has claimed the event" (true only
  of one that starts later): `OneReplayAtATime`.

### Registration

* **Two accounts for one e-mail.** No index makes `users.email_hash` unique, and the
  lock covers the organization only (`auth.service.ts:1272`), so two registrations both
  find no user: `OneAccountPerEmail`.
* **An owner without an account.** When `setUserCustomClaims` fails after the commit,
  the catch deletes the owner's account and tenant (`auth.service.ts:1128`) while the
  rows close the installation for ever; the comment in `setUserCustomClaims` says
  "operation should succeed even if claims fail": `OwnerCanLogIn`.
* The claims of a new registrant are set inside the transaction, though line 1481
  says "AFTER successful database transaction".
* **Accounts and tenants nobody deletes.** When the answer of `createUser` is lost
  (`auth.service.ts:1321`, the call at 1672-1711), the catch at 1327-1337 has no uid
  to delete: it rolls back the tenant if the request has made one, and in an existing
  tenant the account stays, refuses the e-mail there and belongs to no user
  (`unheard` in `RejectedLeavesNoAccount`). A tenant whose `createTenant` was not answered
  stays too (`ProvisionTenantFails`).

### Key rotation

* "concurrency: 1 // Only one rotation per tenant at a time"
  (`encrypted-store-key-rotation.job.ts:160`) holds per process: two processes
  rotate one tenant at once, and in opposite directions they take the entries back
  from each other for ever (`Contended` in `QueueDrains`).
* **A slow poll** that has read an older version moves the checkpoint back and queues
  a rotation to it (`kms-rotation-poll.service.ts:62`); the rotation forward is then
  a duplicate of a job that has ended and is not queued. `TransitionsChain`
  holds of such steps.
* **An exhausted or stalled job** can never be queued again: its id is deterministic
  and failed jobs are kept.
* A failing audit insert after completion turns the completed row to FAILED; a
  cancellation is overwritten by COMPLETED; an entry stored late, under the old
  version, after the completion, stays there. The address rotation's final update
  overwrites a cancellation too (`address-key-rotation.service.ts:506`).

### Stored files

* **References to deleted files.** All ways to attach a file read it without a lock
  and write later (`update-my-avatar.handler.ts:61`, `issues.service.ts:1418`,
  `content.service.ts:440`), so that a reference to a deleted file can be written,
  though the deletion refuses with "file cannot be deleted while it is still attached to domain
  records" (`storage-files.service.ts`, near line 488): `AttachedIsKept`.
* **A file that was never uploaded cannot be deleted**: `pending_delete` without
  `uploaded_at` violates `files_deleted_at_requires_upload_state_chk`, so that an
  object of a wrong size stays in the store for ever.
* **A ready file without an object.** The compensation of an upload deletes the object
  while `completeUpload` or the reconciliation, which has seen it, waits for the row. And
  when a statement of the upload fails (`storage-files.service.ts:313-352`) or its
  connection breaks, the row is free before the compensation runs, so that another request
  completes the file and then loses its object: `ReadyKeepsObject`. `ReadyHasObject`
  excuses both (`bereft`), and nothing else.
* Two concurrent `createIssueAttachment` of one file make two rows.

## 8. What is not modelled

Inside the modelled parts, besides the abstractions each module names above:
`createConsumer`, `ensureInternalTopics`, the health
check and the disabled breaker of the client; `register()` and `unregister()` of
the consumer (start-up, no state of the callback); several partitions of a topic
(each is an instance of `MessageHandler`; topics are created with one); the
administrators' queries and statistics, which read only; the length of the
backoff (only that it lies in the future).

External code is modelled from its use: PostgreSQL (a statement is atomic; a row
lock ends with its transaction, which is one statement unless the code opens one;
READ COMMITTED), Redis (a command is atomic, a key may expire), Identity Platform
(an e-mail is unique in its tenant), BullMQ (locks, attempts, stalls), the object
store (a put or a delete takes effect or fails), Kafka and kafkajs (a send may be stored and still fail; at
least once delivery from the committed offset), Node's event loop (what runs
between two awaits is atomic).

Parts left for later or for good: see the inventory and `PROJECT.json`.

## 9. Plan

Done, in the order of how much rests on each: `EventDelivery`, `Outbox` with its
proofs and refinement; `EventReplay`, `KafkaClient`, `MessageHandler`; then
`EmailTracking`, `Registration` (with the Redis lock), `KeyRotation` and
`StoredFiles`, each with its theorems; then the abstract specifications of the
replay, the consumer, the e-mails, the accounts, the keys and the files, each
with its refinement proved.

Left, the most important first:

1. `AuthSessions`: create, rotate, revoke, index, blacklist as single Redis
   commands; two refreshes of one token; crashes between commands. Instance: 2
   requests, 2 tokens. Theorem: a rotated token is never accepted again.
2. `Invitations`: accept against revoke and resend, as an extension of `Registration`.
3. The rest of the address rotation: cursor, resume, `SKIP LOCKED`, verification.
4. `EventBus` (publishBatch, the disabled bus) as the component between `Outbox` and
   `KafkaClient`; `JobWorker`.
5. Operators: topic routing and the transformer chain of the versioning service
   against reference definitions over bounded inputs.
6. An abstract circuit breaker with `KafkaClient` shown to implement it, and
   `Outbox` and `MessageHandler` composed over one topic.
