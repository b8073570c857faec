---------------------------- MODULE StoredFiles ----------------------------
(***************************************************************************)
(* Stored files: the row of a file in the database, its object in the store  *)
(* and the avatars, issues and content entries that refer to it.  Clients    *)
(* reserve a file, upload its content through the API (uploadFileContent)    *)
(* or with a presigned URL followed by completeUpload, attach it, detach it  *)
(* and delete it (StorageFilesService, DetachedFileCleanupService); the      *)
(* maintenance job purges deleted files and settles uploads nobody has       *)
(* finished.  No transaction covers the store: an upload holds its row       *)
(* locked while it writes the object and deletes it again if what follows    *)
(* fails, and the purge deletes the object before it marks the row.  A       *)
(* statement that fails, or a connection that breaks, ends the transaction   *)
(* and its locks, and the upload goes on without them.                       *)
(*                                                                          *)
(* A transaction runs at READ COMMITTED.  row[f] is the one that holds file  *)
(* f FOR UPDATE, shared[f] are those whose new reference holds it FOR KEY    *)
(* SHARE; what a transaction has written becomes visible when it commits.    *)
(* The columns deleted_at, uploaded_at and purged_at say no more than the    *)
(* status does.                                                              *)
(***************************************************************************)
EXTENDS Naturals

CONSTANTS
    Files,
    Users, Issues, Entries,  \* what may refer to a file
    Requests,     \* processes of the API that serve clients
    Jobs,         \* workers that run purge-deleted-files
    None,
    Plans         \* bounds: what may run and happen in a behaviour

Holders == Users \cup Issues \cup Entries

\* A plan: the files, those with a presigned URL and not the transport
\* api_proxy, what the purpose and the owner of each let refer to it; the
\* processes that are up, and how many requests they serve, how many calls and
\* transactions fail, and how many processes die or lose a connection.
Plan == [files : SUBSET Files, presigned : SUBSET Files,
         admits : [Files -> SUBSET Holders],
         callers : SUBSET Requests, jobs : SUBSET Jobs,
         requests : Nat, faults : Nat, crashes : Nat]

ASSUME StoredFilesAssumption ==
    /\ Requests \cap Jobs = {}
    /\ None \notin Requests \cup Jobs \cup Files \cup Holders
    /\ Plans \subseteq Plan

VARIABLES
    status,    \* the rows
    object,    \* the store: nothing, an object of the reserved size, another
    age,       \* of a reservation: the URL is valid, has expired; a day
    refs,      \* avatars and attachments, <<holder, file>>
    row, shared, busy,  \* locks: rows of files, shared by new references;
                        \* rows of holders
    pc, req,   \* each request's next step, and what it is about
    jobLock,   \* the advisory lock of the job
    jpc, batch, item,  \* each worker's loop, the files left of it, the file
                       \* in hand with what headObject or deleteObject told
    bereft,    \* history: files whose object an upload deleted while another
               \* transaction was about to make them ready, or, when it had
               \* lost its locks, after one did
    plan,      \* the bounds of this behaviour
    requests, faults, crashes

rows == <<status, refs>>
locks == <<row, shared, busy>>
calls == <<pc, req, requests>>
work == <<jobLock, jpc, batch, item>>
bounds == <<plan, crashes>>
vars == <<rows, object, age, locks, calls, work, bereft, faults, bounds>>

Statuses == {"none", "pending_upload", "ready", "pending_delete", "deleted", "upload_failed"}
Steps == {"idle", "putting", "marking", "undoing", "straying", "erasing", "completing",
          "attaching", "attached", "keeping", "dropping"}
\* Where an upload is that goes on without its transaction.
StraySteps == {"straying", "erasing"}

\* What a request is about: the file, the holder, and the file that the holder
\* lets go of.
About(f, h, old) == [file |-> f, holder |-> h, old |-> old]
NoRequest == About(None, None, None)
Request == [file : Files \cup {None}, holder : Holders \cup {None}, old : Files \cup {None}]
NoItem == [file |-> None, seen |-> "none"]

Init ==
    /\ status = [f \in Files |-> "none"]
    /\ object = [f \in Files |-> "none"]
    /\ age = [f \in Files |-> "valid"]
    /\ refs = {}
    /\ row = [f \in Files |-> None]
    /\ shared = [f \in Files |-> {}]
    /\ busy = [h \in Holders |-> None]
    /\ pc = [p \in Requests |-> "idle"]
    /\ req = [p \in Requests |-> NoRequest]
    /\ jobLock = None
    /\ jpc = [j \in Jobs |-> "idle"]
    /\ batch = [j \in Jobs |-> {}]
    /\ item = [j \in Jobs |-> NoItem]
    /\ bereft = {}
    /\ plan \in Plans
    /\ requests = 0 /\ faults = 0 /\ crashes = 0

Fault == faults < plan.faults /\ faults' = faults + 1

\* FOR UPDATE waits for every lock of the row, an UPDATE not for the shared ones.
Lockable(p, f) == row[f] = None /\ shared[f] \subseteq {p}
Writable(f) == row[f] = None

\* Request p begins at step s, about r.
Begin(p, s, r) ==
    /\ pc[p] = "idle" /\ p \in plan.callers /\ requests < plan.requests
    /\ requests' = requests + 1
    /\ pc' = [pc EXCEPT ![p] = s]
    /\ req' = [req EXCEPT ![p] = r]

Goto(p, s) == pc' = [pc EXCEPT ![p] = s] /\ UNCHANGED <<req, requests>>

\* The transaction of p ends, and the request with it.
End(p) ==
    /\ row' = [f \in Files |-> IF row[f] = p THEN None ELSE row[f]]
    /\ shared' = [f \in Files |-> shared[f] \ {p}]
    /\ busy' = [h \in Holders |-> IF busy[h] = p THEN None ELSE busy[h]]
    /\ pc' = [pc EXCEPT ![p] = "idle"]
    /\ req' = [req EXCEPT ![p] = NoRequest]
    /\ UNCHANGED requests

\* p goes on at step s; its transaction has ended.
Stray(p, s) ==
    /\ Goto(p, s)
    /\ row' = [f \in Files |-> IF row[f] = p THEN None ELSE row[f]]
    /\ UNCHANGED <<shared, busy>>

SetStatus(f, s) == status' = [status EXCEPT ![f] = s]
SetObject(f, o) == object' = [object EXCEPT ![f] = o]

-----------------------------------------------------------------------------
(* Uploads. *)

\* createUploadReservation: one transaction.
Reserve(f) ==
    /\ f \in plan.files /\ status[f] = "none"
    /\ SetStatus(f, "pending_upload")
    /\ UNCHANGED <<refs, object, age, locks, calls, work, bereft, faults, bounds>>

\* A client writes the object with its presigned URL, of the size it
\* reserved or of another.
ClientPut(f) ==
    /\ f \in plan.presigned /\ status[f] # "none" /\ age[f] = "valid"
    /\ \E o \in {"right", "wrong"} : SetObject(f, o)
    /\ UNCHANGED <<rows, age, locks, calls, work, bereft, faults, bounds>>

\* Time passes: the URL expires long before the two retention times are over.
Elapse(f) ==
    /\ status[f] # "none" /\ age[f] # "day"
    /\ age' = [age EXCEPT ![f] = IF @ = "valid" THEN "expired" ELSE "day"]
    /\ UNCHANGED <<rows, object, locks, calls, work, bereft, faults, bounds>>

\* Mutant: the check without the lock.
UploadBeginUnlocked(p, f) ==
    /\ status[f] = "pending_upload"
    /\ Begin(p, "putting", About(f, None, None))
    /\ UNCHANGED <<rows, object, age, locks, work, bereft, faults, bounds>>

\* uploadFileContent up to the store: the row is locked, its status checked.
UploadBegin(p, f) ==
    /\ Lockable(p, f) /\ status[f] = "pending_upload"
    /\ Begin(p, "putting", About(f, None, None))
    /\ row' = [row EXCEPT ![f] = p]
    /\ UNCHANGED <<rows, object, age, shared, busy, work, bereft, faults, bounds>>

\* putObject stores what the client sends: as much as reserved, or less, which
\* is noticed; or it throws, and may have stored the object all the same.
Put(p) ==
    /\ pc[p] = "putting"
    /\ \/ SetObject(req[p].file, "right") /\ Goto(p, "marking") /\ UNCHANGED faults
       \/ SetObject(req[p].file, "wrong") /\ Goto(p, "undoing") /\ UNCHANGED faults
       \/ /\ Fault
          /\ \E o \in {"right", object[req[p].file]} : SetObject(req[p].file, o)
          /\ Goto(p, "undoing")
    /\ UNCHANGED <<rows, age, locks, work, bereft, bounds>>

\* The row becomes ready when the transaction commits.  An exception of the
\* code before that leads to the undoing, one from the commit itself does not.
MarkUploaded(p) ==
    /\ pc[p] = "marking"
    /\ \/ SetStatus(req[p].file, "ready") /\ End(p) /\ UNCHANGED faults
       \/ Fault /\ Goto(p, "undoing") /\ UNCHANGED <<status, locks>>
       \/ Fault /\ End(p) /\ UNCHANGED status
    /\ UNCHANGED <<refs, object, age, work, bereft, bounds>>

\* A request or a worker has seen f's object and is about to make f ready.
Finishing(f) ==
    \/ \E q \in Requests : pc[q] \in {"marking", "completing"} /\ req[q].file = f
    \/ \E j \in Jobs : jpc[j] = "reconciling" /\ item[j] = [file |-> f, seen |-> "right"]

\* deleteUploadedObjectQuietly, then the transaction rolls back.
Undo(p) ==
    LET f == req[p].file IN
    /\ pc[p] = "undoing"
    /\ \/ /\ SetObject(f, "none") /\ UNCHANGED faults
          /\ bereft' = IF Finishing(f) THEN bereft \cup {f} ELSE bereft
       \/ Fault /\ UNCHANGED <<object, bereft>>
    /\ End(p)
    /\ UNCHANGED <<rows, age, work, bounds>>

\* A statement of the marking fails: PostgreSQL has aborted the transaction and
\* freed the row before the code undoes the upload.
MarkFails(p) ==
    /\ pc[p] = "marking"
    /\ Fault /\ Stray(p, "erasing")
    /\ UNCHANGED <<rows, object, age, work, bereft, bounds>>

\* The connection of an upload breaks, whose calls to the store go on.
LoseConnection(p) ==
    /\ crashes < plan.crashes /\ crashes' = crashes + 1
    /\ \/ pc[p] = "putting" /\ Stray(p, "straying")
       \/ pc[p] = "undoing" /\ Stray(p, "erasing")
    /\ UNCHANGED <<rows, object, age, work, bereft, plan, faults>>

\* putObject without the lock; marking the row then fails.
StrayPut(p) ==
    /\ pc[p] = "straying"
    /\ \/ \E o \in {"right", "wrong"} : SetObject(req[p].file, o) /\ UNCHANGED faults
       \/ Fault /\ UNCHANGED object
    /\ Goto(p, "erasing")
    /\ UNCHANGED <<rows, age, locks, work, bereft, bounds>>

\* deleteUploadedObjectQuietly without the lock.
StrayUndo(p) ==
    LET f == req[p].file IN
    /\ pc[p] = "erasing"
    /\ \/ /\ SetObject(f, "none") /\ UNCHANGED faults
          /\ bereft' = IF Finishing(f) \/ status[f] = "ready" THEN bereft \cup {f} ELSE bereft
       \/ Fault /\ UNCHANGED <<object, bereft>>
    /\ End(p)
    /\ UNCHANGED <<rows, age, work, bounds>>

\* The files of which an upload goes on without its transaction.
Loose == {f \in Files : \E p \in Requests : pc[p] \in StraySteps /\ req[p].file = f}

\* completeUpload: the status and the object are read without a lock.
CompleteHead(p, f) ==
    /\ status[f] = "pending_upload" /\ object[f] = "right"
    /\ Begin(p, "completing", About(f, None, None))
    /\ UNCHANGED <<rows, object, age, locks, work, bereft, faults, bounds>>

\* Mutant: the update does not ask for a pending file.
CompleteMarkUnasked(p) ==
    LET f == req[p].file IN
    /\ pc[p] = "completing" /\ Writable(f)
    /\ SetStatus(f, "ready")
    /\ End(p)
    /\ UNCHANGED <<refs, object, age, work, bereft, faults, bounds>>

\* markUploadReadyWithDatabase and the audit event, in one transaction: it
\* finds the row still pending, or throws.
CompleteMark(p) ==
    LET f == req[p].file IN
    /\ pc[p] = "completing" /\ Writable(f)
    /\ \/ status[f] = "pending_upload" /\ SetStatus(f, "ready") /\ UNCHANGED faults
       \/ status[f] # "pending_upload" /\ UNCHANGED <<status, faults>>
       \/ Fault /\ UNCHANGED status
    /\ End(p)
    /\ UNCHANGED <<refs, object, age, work, bereft, bounds>>

-----------------------------------------------------------------------------
(* References and deletion. *)

\* countActiveReferencesWithDatabase, but for one reference.
Attached(f, but) == \E h \in Holders \ {but} : <<h, f>> \in refs

\* A file is read without a lock before a reference to it is written; an entry
\* is locked before, a user after.
AttachRead(p, h, f) ==
    /\ h \in plan.admits[f] /\ status[f] = "ready"
    /\ h \in Entries => busy[h] = None
    /\ Begin(p, "attaching", About(f, h, None))
    /\ busy' = [busy EXCEPT ![h] = IF h \in Entries THEN p ELSE @]
    /\ UNCHANGED <<rows, object, age, row, shared, work, bereft, faults, bounds>>

\* The reference is written: its foreign key shares the file's row, whatever
\* has become of it.  A user lets go of the avatar it had.
AttachWrite(p) ==
    LET f == req[p].file
        h == req[p].holder
    IN
    /\ pc[p] = "attaching" /\ Writable(f)
    /\ h \in Users => busy[h] = None
    /\ \/ /\ <<h, f>> \in refs
          /\ End(p)
       \/ /\ <<h, f>> \notin refs
          /\ shared' = [shared EXCEPT ![f] = @ \cup {p}]
          /\ busy' = [busy EXCEPT ![h] = IF h \in Users THEN p ELSE @]
          /\ pc' = [pc EXCEPT ![p] = "attached"]
          /\ \E old \in Files \cup {None} :
                /\ IF h \in Users /\ \E g \in Files : <<h, g>> \in refs
                     THEN <<h, old>> \in refs
                     ELSE old = None
                /\ req' = [req EXCEPT ![p] = About(f, h, old)]
          /\ UNCHANGED <<row, requests>>
    /\ UNCHANGED <<rows, object, age, work, bereft, faults, bounds>>

\* A user gives up the avatar, or an attachment of an issue is removed.  No
\* operation removes one of an entry.
Detach(p, h, f) ==
    /\ <<h, f>> \in refs /\ h \notin Entries
    /\ h \in Users => busy[h] = None
    /\ Begin(p, "attached", About(None, h, f))
    /\ busy' = [busy EXCEPT ![h] = IF h \in Users THEN p ELSE @]
    /\ UNCHANGED <<rows, object, age, row, shared, work, bereft, faults, bounds>>

\* softDeleteDetachedFileWithDatabase: the file let go of is locked, and
\* deleted if it is not yet and nothing else refers to it.
Cleanup(p) ==
    LET f == req[p].old IN
    /\ pc[p] = "attached" /\ f # None /\ Lockable(p, f)
    /\ row' = [row EXCEPT ![f] = p]
    /\ IF status[f] = "ready" /\ ~Attached(f, req[p].holder)
         THEN Goto(p, "dropping")
         ELSE Goto(p, "keeping")
    /\ UNCHANGED <<rows, object, age, shared, busy, work, bereft, faults, bounds>>

\* Mutant: the references are counted without the lock.
DeleteUnlocked(p, f) ==
    /\ status[f] = "ready" /\ ~Attached(f, None)
    /\ Begin(p, "dropping", About(None, None, f))
    /\ UNCHANGED <<rows, object, age, locks, work, bereft, faults, bounds>>

\* deleteFile: nothing may refer to the file.  One that was never uploaded
\* fails the check constraint of the table, and stays.
DeleteFile(p, f) ==
    /\ Lockable(p, f)
    /\ status[f] = "ready" /\ ~Attached(f, None)
    /\ Begin(p, "dropping", About(None, None, f))
    /\ row' = [row EXCEPT ![f] = p]
    /\ UNCHANGED <<rows, object, age, shared, busy, work, bereft, faults, bounds>>

\* The transaction of a request that attaches, detaches or deletes commits.
Commit(p) ==
    LET r == req[p] IN
    /\ \/ pc[p] = "attached" /\ r.old = None
       \/ pc[p] \in {"keeping", "dropping"}
    /\ refs' = (refs \ {<<r.holder, r.old>>})
                 \cup (IF r.file = None THEN {} ELSE {<<r.holder, r.file>>})
    /\ status' = IF pc[p] = "dropping" THEN [status EXCEPT ![r.old] = "pending_delete"]
                                       ELSE status
    /\ End(p)
    /\ UNCHANGED <<object, age, work, bereft, faults, bounds>>

Rollback(p) ==
    /\ pc[p] \in {"attached", "keeping", "dropping"}
    /\ Fault
    /\ End(p)
    /\ UNCHANGED <<rows, object, age, work, bereft, bounds>>

\* The process dies; or the connection of a request breaks that has nothing
\* left to do but its statements.
Crash(p) ==
    /\ pc[p] # "idle"
    /\ crashes < plan.crashes /\ crashes' = crashes + 1
    /\ End(p)
    /\ UNCHANGED <<rows, object, age, work, bereft, plan, faults>>

-----------------------------------------------------------------------------
(* The job purge-deleted-files. *)

SetItem(j, i) == item' = [item EXCEPT ![j] = i]
\* j is done with file f of its batch.
Done(j, f) == batch' = [batch EXCEPT ![j] = @ \ {f}] /\ SetItem(j, NoItem)

Due(s) == {f \in Files : status[f] = s /\ age[f] = "day"}

\* A worker that gets the lock reads the files to purge: their retention
\* outlasts every request.
JobStart(j) ==
    /\ jpc[j] = "idle" /\ j \in plan.jobs /\ jobLock = None
    /\ jobLock' = j
    /\ jpc' = [jpc EXCEPT ![j] = "purging"]
    /\ batch' = [batch EXCEPT ![j] = Due("pending_delete") \ Loose]
    /\ UNCHANGED <<rows, object, age, locks, calls, item, bereft, faults, bounds>>

\* The object goes first.
DeleteObject(j, f) ==
    /\ jpc[j] = "purging" /\ item[j] = NoItem /\ f \in batch[j]
    /\ \/ SetObject(f, "none") /\ SetItem(j, [file |-> f, seen |-> "none"]) /\ UNCHANGED <<batch, faults>>
       \/ Fault /\ Done(j, f) /\ UNCHANGED object
    /\ UNCHANGED <<rows, age, locks, calls, jobLock, jpc, bereft, bounds>>

\* markPurgedWithDatabase and the audit event, in one transaction.
PurgeMark(j) ==
    LET f == item[j].file IN
    /\ jpc[j] = "purging" /\ f # None /\ Writable(f)
    /\ \/ status[f] = "pending_delete" /\ SetStatus(f, "deleted") /\ UNCHANGED faults
       \/ status[f] # "pending_delete" /\ UNCHANGED <<status, faults>>
       \/ Fault /\ UNCHANGED status
    /\ Done(j, f)
    /\ UNCHANGED <<refs, object, age, locks, calls, jobLock, jpc, bereft, bounds>>

\* The purge is over; the uploads nobody finished are read.
ReconcileStart(j) ==
    /\ jpc[j] = "purging" /\ batch[j] = {}
    /\ jpc' = [jpc EXCEPT ![j] = "reconciling"]
    /\ batch' = [batch EXCEPT ![j] = Due("pending_upload")]
    /\ UNCHANGED <<rows, object, age, locks, calls, jobLock, item, bereft, faults, bounds>>

\* Mutant: a missing object counts as an error of the store.
HeadOfObject(j, f) ==
    /\ jpc[j] = "reconciling" /\ item[j] = NoItem /\ f \in batch[j]
    /\ IF object[f] = "none"
         THEN Done(j, f)
         ELSE SetItem(j, [file |-> f, seen |-> object[f]]) /\ UNCHANGED batch
    /\ UNCHANGED <<rows, object, age, locks, calls, jobLock, jpc, bereft, faults, bounds>>

HeadObject(j, f) ==
    /\ jpc[j] = "reconciling" /\ item[j] = NoItem /\ f \in batch[j]
    /\ \/ SetItem(j, [file |-> f, seen |-> object[f]]) /\ UNCHANGED <<batch, faults>>
       \/ Fault /\ Done(j, f)
    /\ UNCHANGED <<rows, object, age, locks, calls, jobLock, jpc, bereft, bounds>>

\* markUploadReadyWithDatabase or failPendingUpload, each in a transaction.
ReconcileMark(j) ==
    LET f == item[j].file IN
    /\ jpc[j] = "reconciling" /\ f # None /\ Writable(f)
    /\ \/ /\ status[f] = "pending_upload"
          /\ SetStatus(f, IF item[j].seen = "right" THEN "ready" ELSE "upload_failed")
          /\ UNCHANGED faults
       \/ status[f] # "pending_upload" /\ UNCHANGED <<status, faults>>
       \/ Fault /\ UNCHANGED status
    /\ Done(j, f)
    /\ UNCHANGED <<refs, object, age, locks, calls, jobLock, jpc, bereft, bounds>>

\* Mutant: the advisory lock is not given back.
JobEndKeeping(j) ==
    /\ jpc[j] = "reconciling" /\ batch[j] = {}
    /\ jpc' = [jpc EXCEPT ![j] = "idle"]
    /\ UNCHANGED <<rows, object, age, locks, calls, jobLock, batch, item, bereft, faults, bounds>>

JobEnd(j) ==
    /\ jpc[j] = "reconciling" /\ batch[j] = {}
    /\ jpc' = [jpc EXCEPT ![j] = "idle"]
    /\ jobLock' = IF jobLock = j THEN None ELSE jobLock
    /\ UNCHANGED <<rows, object, age, locks, calls, batch, item, bereft, faults, bounds>>

\* The worker dies, which frees the lock; or the connection that holds the
\* lock breaks, and the worker goes on.
JobCrash(j) ==
    /\ jpc[j] # "idle"
    /\ crashes < plan.crashes /\ crashes' = crashes + 1
    /\ jobLock' = IF jobLock = j THEN None ELSE jobLock
    /\ \/ /\ jpc' = [jpc EXCEPT ![j] = "idle"]
          /\ batch' = [batch EXCEPT ![j] = {}]
          /\ SetItem(j, NoItem)
       \/ UNCHANGED <<jpc, batch, item>>
    /\ UNCHANGED <<rows, object, age, locks, calls, bereft, plan, faults>>

-----------------------------------------------------------------------------
RequestStep(p) ==
    \/ Put(p) \/ MarkUploaded(p) \/ Undo(p) \/ CompleteMark(p)
    \/ StrayPut(p) \/ StrayUndo(p)
    \/ AttachWrite(p) \/ Cleanup(p) \/ Commit(p)

JobStep(j) ==
    \/ JobStart(j) \/ ReconcileStart(j) \/ JobEnd(j)
    \/ PurgeMark(j) \/ ReconcileMark(j)
    \/ \E f \in Files : DeleteObject(j, f) \/ HeadObject(j, f)

Next ==
    \/ \E f \in Files : Reserve(f) \/ ClientPut(f) \/ Elapse(f)
    \/ \E p \in Requests :
          \/ RequestStep(p) \/ Rollback(p) \/ Crash(p) \/ MarkFails(p) \/ LoseConnection(p)
          \/ \E f \in Files :
                \/ UploadBegin(p, f) \/ CompleteHead(p, f) \/ DeleteFile(p, f)
                \/ \E h \in Holders : AttachRead(p, h, f) \/ Detach(p, h, f)
    \/ \E j \in Jobs : JobStep(j) \/ JobCrash(j)

Spec == Init /\ [][Next]_vars

\* A reservation's day passes, a request's calls return and the job's schedule
\* goes on.  Clients, faults and deaths are not fair.
Fairness ==
    /\ \A f \in Files : WF_vars(Elapse(f))
    /\ \A p \in Requests : WF_vars(RequestStep(p))
    /\ \A j \in Jobs : WF_vars(JobStep(j))

FairSpec == Spec /\ Fairness

-----------------------------------------------------------------------------
TypeOK ==
    /\ status \in [Files -> Statuses]
    /\ object \in [Files -> {"none", "right", "wrong"}]
    /\ age \in [Files -> {"valid", "expired", "day"}]
    /\ refs \subseteq Holders \X Files
    /\ row \in [Files -> Requests \cup {None}]
    /\ shared \in [Files -> SUBSET Requests]
    /\ busy \in [Holders -> Requests \cup {None}]
    /\ pc \in [Requests -> Steps]
    /\ req \in [Requests -> Request]
    /\ jobLock \in Jobs \cup {None}
    /\ jpc \in [Jobs -> {"idle", "purging", "reconciling"}]
    /\ batch \in [Jobs -> SUBSET Files]
    /\ item \in [Jobs -> [file : Files \cup {None}, seen : {"none", "right", "wrong"}]]
    /\ bereft \subseteq Files
    /\ plan \in Plans
    /\ requests \in 0..plan.requests
    /\ faults \in 0..plan.faults
    /\ crashes \in 0..plan.crashes

\* A purged file has left nothing in the store, and nothing writes it again:
\* no upload is under way once the file could be deleted (the lock of
\* uploadFileContent), or has ended by the time it is purged, and the URL has
\* expired.
PurgedLeavesNoObject == \A f \in Files : status[f] = "deleted" => object[f] = "none"

\* A file that can be downloaded has an object, but for one whose object an
\* upload took from under a transaction that had seen it, or took back after
\* its own transaction was lost: no other of the steps that delete objects, and
\* no upload that holds its lock (storage-files.service.ts:220-353, 556).
ReadyHasObject == \A f \in Files : status[f] = "ready" /\ object[f] = "none" => f \in bereft

\* No deletion, direct or by letting go of a file, overlooks a reference that
\* another transaction has committed.
DeletedIsUnattached ==
    [][\A f \in Files : status[f] # "pending_delete" /\ status'[f] = "pending_delete"
          => \A h \in Holders : <<h, f>> \notin refs']_vars

\* An upload comes to one end: completed, recovered or failed, whichever of the
\* client's two ways and the job is first.
UploadSettledOnce ==
    [][\A f \in Files : status[f] \notin {"none", "pending_upload"}
          => status'[f] \in {status[f], "pending_delete", "deleted"}]_vars

\* Whatever overlaps, each step is one of FileLifecycle for one file or one
\* holder, or changes nothing it speaks of: only an upload that is loose, having
\* lost its transaction (storage-files.service.ts:344-352), takes the object of
\* a ready file or writes one of a failed upload; what refers to a file refers
\* to one that was ready (update-my-avatar.handler.ts:60), a user has one
\* avatar, and nothing is written after a purge.
Lifecycle == INSTANCE FileLifecycle WITH loose <- Loose
ImplementsLifecycle == Lifecycle!Spec

\* An upload nobody finishes is recovered or failed by the job.
PendingSettles ==
    plan.jobs # {} => \A f \in Files : status[f] = "pending_upload" ~> status[f] # "pending_upload"

\* A deleted file is purged.
DeletedIsPurged ==
    plan.jobs # {} => \A f \in Files : status[f] = "pending_delete" ~> status[f] = "deleted"

\* Not so: nothing stops a transaction that has read a file as ready from
\* writing its reference after the file was deleted.
AttachedIsKept == \A a \in refs : status[a[2]] = "ready"

\* Nor this: an upload whose marking fails deletes the object after its lock is
\* gone, when another may have made the file ready.
ReadyKeepsObject ==
    [][\A f \in Files : status[f] = "ready" /\ object[f] # "none" => object'[f] # "none"
          \/ status'[f] # "ready"]_vars
=============================================================================
