---------------------------- MODULE Registration ----------------------------
(***************************************************************************)
(* How accounts come to be: the installation of the first system owner      *)
(* (BootstrapService.install) and AuthService.registerWithEmailPassword,     *)
(* which founds an organization or joins an existing one.  Each request      *)
(* writes to three stores that share no transaction: Redis (the lock, which  *)
(* may expire under its holder), Google Identity Platform (a tenant per      *)
(* organization and an account per user) and the database; what went before  *)
(* is undone by hand when a later step fails, and the undoing may fail too.  *)
(*                                                                          *)
(* A tenant, an organization, an account and a user row are named by the     *)
(* request that created them.  The provider is one with Firebase; a          *)
(* transaction runs at READ COMMITTED, and the caller of a commit learns     *)
(* its outcome.                                                              *)
(***************************************************************************)
EXTENDS Naturals

CONSTANTS
    Requests,     \* requests to install or to register, each on its own
    Emails,
    Slugs,        \* of the organizations they would found
    Forms,        \* what the requests may ask for
    Home,         \* an organization that exists, and its tenant
    Project,      \* where accounts live that belong to no tenant
    Install,      \* the key of the installation lock
    NoOne,
    MaxFaults,    \* bound: calls to a store that fail
    MaxExpiries,  \* bound: locks that expire
    MaxCrashes    \* bound: requests whose process dies

Keys == {Install} \cup Emails
Places == Requests \cup {Home, Project}

\* organizationSlug and the e-mail of the request's form; found: register
\* without a tenant, join: register with the tenant of Home.
Form == [kind : {"install", "found", "join"}, email : Emails, slug : Slugs]

ASSUME RegistrationAssumption ==
    /\ Forms \subseteq [Requests -> Form]
    /\ NoOne \notin Requests
    /\ Home # Project /\ Home \notin Requests /\ Project \notin Requests
    /\ Install \notin Emails
    /\ MaxFaults \in Nat /\ MaxExpiries \in Nat /\ MaxCrashes \in Nat

VARIABLES
    form,      \* what each request asks for
    pc,        \* its next step
    failed,    \* requests that are throwing while they release their lock
    lock,      \* Redis: the holder of each lock
    advisory,  \* PostgreSQL: the holder of the installation's advisory lock
    tenants,   \* Identity Platform: tenants created and not deleted
    accounts,  \* Identity Platform: accounts created and not deleted
    place,     \* the tenant in which a request creates its account
    orgs,      \* organizations
    users,     \* users
    member,    \* the organization a request's user belongs to
    owners,    \* users with the system_owner role
    outbox,    \* the events inserted with the rows
    undeleted, \* the log: tenants and accounts a rollback failed to delete
    unheard,   \* requests whose account was created, the answer being lost
    faults, expiries, crashes

identity == <<tenants, accounts>>
database == <<orgs, users, owners, outbox>>
aim == <<form, place, member>>
leftovers == <<undeleted, unheard>>
bounds == <<faults, expiries, crashes>>
vars == <<aim, pc, failed, lock, advisory, identity, database, leftovers,
          bounds>>

InTx == {"checking", "writing"}
Ended == {"done", "rejected", "crashed"}
Steps == InTx \cup Ended \cup
         {"locking", "owner", "exists", "again", "tenant", "found", "account",
          "begin", "user", "claims", "drop_account", "drop_tenant", "release"}

EventTypes == {"attempted", "already_initialized", "completed",
               "owner_assigned", "registered"}

TypeOK ==
    /\ form \in Forms
    /\ pc \in [Requests -> Steps]
    /\ failed \subseteq Requests
    /\ lock \in [Keys -> Requests \cup {NoOne}]
    /\ advisory \in Requests \cup {NoOne}
    /\ tenants \subseteq Requests
    /\ accounts \subseteq Requests
    /\ place \in [Requests -> Places]
    /\ orgs \subseteq Requests
    /\ users \subseteq Requests
    /\ member \in [Requests -> Requests \cup {Home}]
    /\ owners \subseteq users
    /\ outbox \subseteq EventTypes \X Requests
    /\ undeleted \subseteq {"account", "tenant"} \X Requests
    /\ unheard \subseteq Requests
    /\ faults \in 0..MaxFaults
    /\ expiries \in 0..MaxExpiries
    /\ crashes \in 0..MaxCrashes

Kind(r) == form[r].kind
Email(r) == form[r].email

\* The lock of a request: the installation's, or the one of its e-mail.
Key(r) == IF Kind(r) = "install" THEN Install ELSE Email(r)

\* Users that findByEmail(undefined, email) may return.
Known(email) == {u \in users : Email(u) = email}

\* Unless it joins an organization, a request founds its own.
Founds(r) == member[r] = r

Init ==
    /\ form \in Forms
    /\ pc = [r \in Requests |->
               IF form[r].kind = "install" THEN "locking" ELSE "exists"]
    /\ failed = {}
    /\ lock = [k \in Keys |-> NoOne]
    /\ advisory = NoOne
    /\ tenants = {} /\ accounts = {}
    /\ place = [r \in Requests |-> IF form[r].kind = "join" THEN Home ELSE r]
    /\ orgs = {} /\ users = {} /\ owners = {} /\ outbox = {}
    /\ member = [r \in Requests |-> IF form[r].kind = "join" THEN Home ELSE r]
    /\ undeleted = {} /\ unheard = {}
    /\ faults = 0 /\ expiries = 0 /\ crashes = 0

Go(r, from, to) == pc[r] = from /\ pc' = [pc EXCEPT ![r] = to]

\* The call throws: an error is answered, or the answer is lost and the call
\* may have taken effect.
Fault == /\ faults < MaxFaults
         /\ faults' = faults + 1
         /\ UNCHANGED <<expiries, crashes>>

\* The request throws while it holds its lock: it goes on to release it.
ThrowLocked(r) == failed' = failed \cup {r}

(***************************************************************************)
(* The distributed lock (packages/redis/src/cache.ts).                      *)
(***************************************************************************)

\* acquireLock: SET NX answers OK.
AcquireLock(r) ==
    /\ lock[Key(r)] = NoOne
    /\ lock' = [lock EXCEPT ![Key(r)] = r]
    /\ Go(r, "locking", IF Kind(r) = "install" THEN "owner" ELSE "again")
    /\ UNCHANGED <<aim, failed, advisory, identity, database, leftovers,
                   bounds>>

\* acquireLock: the lock was held at every attempt of 30 seconds.
LockTimesOut(r) ==
    /\ lock[Key(r)] # NoOne
    /\ Go(r, "locking", "rejected")
    /\ UNCHANGED <<aim, failed, lock, advisory, identity, database,
                   leftovers, bounds>>

\* acquireLock: Redis does not answer, and may have set the key.
AcquireFails(r) ==
    /\ Go(r, "locking", "rejected")
    /\ Fault
    /\ \/ UNCHANGED lock
       \/ lock[Key(r)] = NoOne /\ lock' = [lock EXCEPT ![Key(r)] = r]
    /\ UNCHANGED <<aim, failed, advisory, identity, database, leftovers>>

\* Where a request goes when its lock is released, or was lost: install
\* swallows the error of releaseLock, withLock lets it out of its finally.
Released(r, freed) ==
    IF r \in failed THEN "rejected"
    ELSE IF Kind(r) = "install" THEN "done"
    ELSE IF freed THEN "account" ELSE "rejected"

\* Mutant of ReleaseLock: the key is deleted without comparing its value.
ReleaseAny(r) ==
    /\ Go(r, "release", Released(r, TRUE))
    /\ lock' = [lock EXCEPT ![Key(r)] = NoOne]
    /\ UNCHANGED <<aim, failed, advisory, identity, database, leftovers,
                   bounds>>

\* releaseLock: the script compares the value and deletes the key.
ReleaseLock(r) ==
    /\ Go(r, "release", Released(r, lock[Key(r)] = r))
    /\ lock' = IF lock[Key(r)] = r THEN [lock EXCEPT ![Key(r)] = NoOne]
               ELSE lock
    /\ UNCHANGED <<aim, failed, advisory, identity, database, leftovers,
                   bounds>>

\* releaseLock: Redis does not answer; the key is deleted or stays until it
\* expires.
ReleaseFails(r) ==
    /\ Go(r, "release", Released(r, FALSE))
    /\ Fault
    /\ \/ UNCHANGED lock
       \/ lock[Key(r)] = r /\ lock' = [lock EXCEPT ![Key(r)] = NoOne]
    /\ UNCHANGED <<aim, failed, advisory, identity, database, leftovers>>

\* The expiry of 60 seconds passes, whatever the holder is doing.
LockExpires(k) ==
    /\ lock[k] # NoOne
    /\ expiries < MaxExpiries
    /\ lock' = [lock EXCEPT ![k] = NoOne]
    /\ expiries' = expiries + 1
    /\ UNCHANGED <<aim, pc, failed, advisory, identity, database, leftovers,
                   faults, crashes>>

(***************************************************************************)
(* The installation under its lock.                                         *)
(***************************************************************************)

\* installWithinLock: hasActiveSystemOwner, then the audit of its answer.
CheckOwner(r) ==
    /\ IF owners # {}
       THEN /\ Go(r, "owner", "release")
            /\ ThrowLocked(r)
            /\ outbox' = outbox \cup {<<"already_initialized", r>>}
       ELSE /\ Go(r, "owner", "exists")
            /\ outbox' = outbox \cup {<<"attempted", r>>}
            /\ UNCHANGED failed
    /\ UNCHANGED <<aim, lock, advisory, identity, orgs, users, owners,
                   leftovers, bounds>>

CheckOwnerFails(r) ==
    /\ Go(r, "owner", "release")
    /\ ThrowLocked(r)
    /\ Fault
    /\ UNCHANGED <<aim, lock, advisory, identity, database, leftovers>>

\* The transaction begins and waits for pg_advisory_xact_lock.
BeginInstall(r) ==
    /\ advisory = NoOne
    /\ advisory' = r
    /\ Go(r, "begin", "checking")
    /\ UNCHANGED <<aim, failed, lock, identity, database, leftovers, bounds>>

\* Mutant of CheckInstall: the owner is not looked for again.
CheckInstallOnce(r) ==
    /\ IF Known(Email(r)) # {}
       THEN Go(r, "checking", "drop_account") /\ advisory' = NoOne
       ELSE Go(r, "checking", "writing") /\ UNCHANGED advisory
    /\ UNCHANGED <<aim, failed, lock, identity, database, leftovers, bounds>>

\* The checks inside the transaction; a throw rolls it back.
CheckInstall(r) ==
    /\ IF Known(Email(r)) # {} \/ owners # {}
       THEN Go(r, "checking", "drop_account") /\ advisory' = NoOne
       ELSE Go(r, "checking", "writing") /\ UNCHANGED advisory
    /\ UNCHANGED <<aim, failed, lock, identity, database, leftovers, bounds>>

\* organizations_slug_unique refuses the slug of another organization.
SlugTaken(r) == \E q \in orgs : form[q].slug = form[r].slug

\* The organization, the user, its identity and roles and both events become
\* visible, and the advisory lock is released.
CommitInstall(r) ==
    /\ ~SlugTaken(r)
    /\ Go(r, "writing", "claims")
    /\ advisory' = NoOne
    /\ orgs' = orgs \cup {r}
    /\ users' = users \cup {r}
    /\ owners' = owners \cup {r}
    /\ outbox' = outbox \cup {<<"owner_assigned", r>>, <<"completed", r>>}
    /\ UNCHANGED <<aim, failed, lock, identity, leftovers, bounds>>

\* The transaction throws: for a taken slug without a fault.
Aborts(r) ==
    /\ \/ pc[r] \in InTx \cup {"begin"} /\ Fault
       \/ pc[r] = "writing" /\ SlugTaken(r) /\ UNCHANGED bounds
    /\ pc' = [pc EXCEPT ![r] = "drop_account"]
    /\ UNCHANGED <<aim, failed, lock, identity, database, leftovers>>

\* Mutant of AbortInstall: the advisory lock outlives the transaction.
AbortInstallKeeping(r) == Aborts(r) /\ UNCHANGED advisory

\* The advisory lock ends with the transaction.
AbortInstall(r) ==
    /\ Aborts(r)
    /\ advisory' = IF advisory = r THEN NoOne ELSE advisory

\* setUserCustomClaims after the commit, then the caches, whose errors are
\* swallowed.
SetClaims(r) ==
    /\ Go(r, "claims", "release")
    /\ UNCHANGED <<aim, failed, lock, advisory, identity, database,
                   leftovers, bounds>>

\* Its error reaches the catch, which undoes what the committed rows name.
SetClaimsFails(r) ==
    /\ Go(r, "claims", "drop_account")
    /\ Fault
    /\ UNCHANGED <<aim, failed, lock, advisory, identity, database,
                   leftovers>>

(***************************************************************************)
(* The steps installation and registration share, and the registration.     *)
(***************************************************************************)

\* Where a step that throws leads before there is anything to undo.
Thrown(r) == IF Kind(r) = "install" THEN "release" ELSE "rejected"

Throw(r, from) ==
    /\ Go(r, from, Thrown(r))
    /\ IF Kind(r) = "install" THEN ThrowLocked(r) ELSE UNCHANGED failed

\* checkUserExists: findByEmail returns any user of that e-mail, and one of
\* another organization is no obstacle to a request that joins Home.
CheckUserExists(r) ==
    /\ \/ \E u \in Known(Email(r)) :
             /\ Kind(r) = "join" => member[u] = Home
             /\ Throw(r, "exists")
       \/ /\ \/ Known(Email(r)) = {}
             \/ Kind(r) = "join" /\ \E u \in Known(Email(r)) : member[u] # Home
          /\ Go(r, "exists", CASE Kind(r) = "install" -> "tenant"
                               [] Kind(r) = "found" -> "locking"
                               [] Kind(r) = "join" -> "account")
          /\ UNCHANGED failed
    /\ UNCHANGED <<aim, lock, advisory, identity, database, leftovers, bounds>>

\* createOrganizationWithLock looks for the user again: one that exists now
\* sends the request on into that user's organization, without its tenant.
CheckAgain(r) ==
    /\ IF Known(Email(r)) = {}
       THEN Go(r, "again", "tenant") /\ UNCHANGED <<place, member>>
       ELSE \E u \in Known(Email(r)) :
               /\ Go(r, "again", "release")
               /\ place' = [place EXCEPT ![r] = Project]
               /\ member' = [member EXCEPT ![r] = member[u]]
    /\ UNCHANGED <<form, failed, lock, advisory, identity, database,
                   leftovers, bounds>>

ProvisionTenant(r) ==
    /\ Go(r, "tenant", IF Kind(r) = "install" THEN "account" ELSE "found")
    /\ tenants' = tenants \cup {r}
    /\ UNCHANGED <<aim, failed, lock, advisory, accounts, database,
                   leftovers, bounds>>

\* It throws: the tenant was created or not, and nobody deletes it.
ProvisionTenantFails(r) ==
    /\ Go(r, "tenant", "release")
    /\ ThrowLocked(r)
    /\ Fault
    /\ tenants' \in {tenants, tenants \cup {r}}
    /\ UNCHANGED <<aim, lock, advisory, accounts, database, leftovers>>

\* One of the two reads throws, the second with the lock held.
EarlyStepFails(r) ==
    /\ \/ Throw(r, "exists")
       \/ Go(r, "again", "release") /\ ThrowLocked(r)
    /\ Fault
    /\ UNCHANGED <<aim, lock, advisory, identity, database, leftovers>>

\* createOrganizationForUser, in a transaction of its own.
CreateOrganization(r) ==
    /\ ~SlugTaken(r)
    /\ Go(r, "found", "release")
    /\ orgs' = orgs \cup {r}
    /\ UNCHANGED <<aim, failed, lock, advisory, identity, users, owners,
                   outbox, leftovers, bounds>>

\* It throws, and nothing deletes the tenant that was made for it.
CreateOrganizationFails(r) ==
    /\ Go(r, "found", "release")
    /\ ThrowLocked(r)
    /\ IF SlugTaken(r) THEN UNCHANGED bounds ELSE Fault
    /\ UNCHANGED <<aim, lock, advisory, identity, database, leftovers>>

\* The provider keeps e-mails apart within a tenant.
AccountExists(r) == \E q \in accounts : /\ place[q] = place[r]
                                        /\ Email(q) = Email(r)

\* provisionGcpUserSync creates the account.
ProvisionUser(r) ==
    /\ ~AccountExists(r)
    /\ Go(r, "account", IF Kind(r) = "install" THEN "begin" ELSE "user")
    /\ accounts' = accounts \cup {r}
    /\ UNCHANGED <<aim, failed, lock, advisory, tenants, database, leftovers,
                   bounds>>

\* After the account, the tenant the request has made.
AfterAccount(r) == IF Founds(r) THEN "drop_tenant" ELSE "rejected"

\* It throws: only a tenant the request has made is rolled back.
ProvisionUserFails(r) ==
    /\ Go(r, "account", AfterAccount(r))
    /\ IF AccountExists(r) THEN UNCHANGED bounds ELSE Fault
    /\ UNCHANGED <<aim, failed, lock, advisory, identity, database,
                   leftovers>>

\* It throws though the account was created: its uid is not known, so that
\* nothing deletes it but the rollback of the tenant it is in.
ProvisionUserUnheard(r) ==
    /\ ~AccountExists(r)
    /\ Go(r, "account", AfterAccount(r))
    /\ Fault
    /\ accounts' = accounts \cup {r}
    /\ unheard' = unheard \cup {r}
    /\ UNCHANGED <<aim, failed, lock, advisory, tenants, database, undeleted>>

\* createUserInDatabase: the user, its identity, the owner's rows of a new
\* organization and the events become visible together; the claims were set
\* before the commit.
CreateUser(r) ==
    /\ Go(r, "user", "done")
    /\ users' = users \cup {r}
    /\ outbox' = outbox \cup {<<"registered", r>>} \cup
                 (IF Founds(r) THEN {<<"owner_assigned", r>>} ELSE {})
    /\ UNCHANGED <<aim, failed, lock, advisory, identity, orgs, owners,
                   leftovers, bounds>>

\* Mutant of CreateUserFails: the claims are set after the commit.
CreateUserFailsLate(r) ==
    /\ Go(r, "user", "drop_account")
    /\ Fault
    /\ users' = users \cup {r}
    /\ UNCHANGED <<aim, failed, lock, advisory, identity, orgs, owners,
                   outbox, leftovers>>

\* A statement, the claims or the commit throws: the transaction rolls back.
CreateUserFails(r) ==
    /\ Go(r, "user", "drop_account")
    /\ Fault
    /\ UNCHANGED <<aim, failed, lock, advisory, identity, database,
                   leftovers>>

(***************************************************************************)
(* Undoing.                                                                 *)
(***************************************************************************)

\* Mutant of RollbackUser: only a founder's account is deleted.
RollbackFounder(r) ==
    /\ Go(r, "drop_account", AfterAccount(r))
    /\ accounts' = IF Founds(r) THEN accounts \ {r} ELSE accounts
    /\ UNCHANGED <<aim, failed, lock, advisory, tenants, database, leftovers,
                   bounds>>

\* rollbackGcpUser: deleted, or logged as a failure, deleted or not.
RollbackUser(r) ==
    /\ Go(r, "drop_account", AfterAccount(r))
    /\ \/ /\ accounts' = accounts \ {r}
          /\ UNCHANGED <<leftovers, bounds>>
       \/ /\ undeleted' = undeleted \cup {<<"account", r>>}
          /\ Fault
          /\ accounts' \in {accounts, accounts \ {r}}
          /\ UNCHANGED unheard
    /\ UNCHANGED <<aim, failed, lock, advisory, tenants, database>>

\* deleteTenant: the accounts in it go with the tenant.
DeleteTenant(r) == /\ tenants' = tenants \ {r}
                   /\ accounts' = {a \in accounts : place[a] # r}

\* rollbackGcpTenant: likewise.
RollbackTenant(r) ==
    /\ Go(r, "drop_tenant", Thrown(r))
    /\ IF Kind(r) = "install" THEN ThrowLocked(r) ELSE UNCHANGED failed
    /\ \/ DeleteTenant(r) /\ UNCHANGED <<leftovers, bounds>>
       \/ /\ undeleted' = undeleted \cup {<<"tenant", r>>}
          /\ Fault
          /\ DeleteTenant(r) \/ UNCHANGED identity
          /\ UNCHANGED unheard
    /\ UNCHANGED <<aim, lock, advisory, database>>

\* The process dies: an open transaction is rolled back, the rest stays.
Crash(r) ==
    /\ pc[r] \notin Ended
    /\ crashes < MaxCrashes
    /\ crashes' = crashes + 1
    /\ pc' = [pc EXCEPT ![r] = "crashed"]
    /\ advisory' = IF advisory = r THEN NoOne ELSE advisory
    /\ UNCHANGED <<aim, failed, lock, identity, database, leftovers, faults,
                   expiries>>

LockStep(r) == \/ AcquireLock(r) \/ LockTimesOut(r) \/ AcquireFails(r)
               \/ ReleaseLock(r) \/ ReleaseFails(r)

InstallStep(r) ==
    \/ CheckOwner(r) \/ CheckOwnerFails(r) \/ BeginInstall(r)
    \/ CheckInstall(r) \/ CommitInstall(r) \/ AbortInstall(r)
    \/ SetClaims(r) \/ SetClaimsFails(r)

RegisterStep(r) ==
    \/ CheckUserExists(r) \/ CheckAgain(r) \/ EarlyStepFails(r)
    \/ ProvisionTenant(r) \/ ProvisionTenantFails(r)
    \/ CreateOrganization(r) \/ CreateOrganizationFails(r)
    \/ ProvisionUser(r) \/ ProvisionUserFails(r) \/ ProvisionUserUnheard(r)
    \/ CreateUser(r) \/ CreateUserFails(r)

Step(r) == \/ LockStep(r) \/ InstallStep(r) \/ RegisterStep(r)
           \/ RollbackUser(r) \/ RollbackTenant(r)

Next ==
    \/ \E r \in Requests : Step(r) \/ Crash(r)
    \/ \E k \in Keys : LockExpires(k)

\* A request that has begun goes on: its awaits resolve or time out.
Fairness == \A r \in Requests : WF_vars(Step(r))

Spec == Init /\ [][Next]_vars /\ Fairness

(***************************************************************************)
(* Properties.                                                              *)
(***************************************************************************)

\* However long an installation takes and whatever lock it has lost, the
\* installations make at most one system owner (the advisory lock and the
\* checks under it in bootstrapInstallFirstSystemOwner).
AtMostOneOwner == \A q, r \in owners : q = r

\* A user that registered has its account, in a tenant that exists: no failure
\* or rollback of any request leaves the row without it (the order of the
\* steps and the catch of createUserInDatabase).
RegisteredCanLogIn ==
    \A u \in users \ owners :
        u \in accounts /\ (place[u] \in Requests => place[u] \in tenants)

\* A rejected request leaves an account behind, which refuses a later
\* registration of the e-mail in the same tenant, only if the deletion of it
\* failed and was logged or the answer to its creation was lost; and in a tenant
\* of its own only if the deletion of the tenant failed as well
\* (provisionUserInGcp and the two catches).
RejectedLeavesNoAccount ==
    \A r \in Requests :
        pc[r] = "rejected" /\ r \in accounts =>
            /\ <<"account", r>> \in undeleted \/ r \in unheard
            /\ place[r] = r => <<"tenant", r>> \in undeleted

\* A request takes a lock away from another one only after it has expired: a
\* late release never frees the next holder's lock (BUG-001 in releaseLock).
OnlyHolderReleases ==
    [][\A k \in Keys : lock[k] # NoOne /\ lock'[k] # lock[k] =>
          \/ expiries' # expiries
          \/ pc[lock[k]] = "release" /\ pc'[lock[k]] # "release"]_vars

\* However requests, rollbacks, expiries and deaths interleave, tenants, accounts,
\* organizations and users change only as in Accounts: e-mails are apart within
\* a tenant and slugs altogether, a user joins an organization that exists and
\* keeps its account, and there is one owner (both registrations, their catches
\* and their compensations).
Store == INSTANCE Accounts
ImplementsAccounts == Store!Spec

\* Every request is answered, whatever fails, expires or dies around it: the
\* advisory lock is never left behind and the lock's wait is bounded.
RequestsEnd == \A r \in Requests : <>(pc[r] \in Ended)

\* What the comment on registerWithEmailPassword says: "If ANY step fails,
\* ENTIRE transaction rolls back (including GCP resources)"; deletions that
\* failed are excused.
FailureLeavesNothing ==
    \A r \in Requests :
        Kind(r) = "found" /\ pc[r] = "rejected" =>
            /\ r \notin orgs
            /\ r \in tenants => <<"tenant", r>> \in undeleted

\* What checkUserExists says: an e-mail that has an account is refused.
OneAccountPerEmail ==
    \A q, r \in users :
        Email(q) = Email(r) /\ Kind(q) # "join" /\ Kind(r) # "join" => q = r

\* What setUserCustomClaims says: the operation succeeds even if it fails.
OwnerCanLogIn == owners \subseteq accounts
=============================================================================
