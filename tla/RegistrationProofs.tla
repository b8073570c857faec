------------------------- MODULE RegistrationProofs -------------------------
(***************************************************************************)
(* Theorems about Registration, for any requests, forms and numbers of      *)
(* faults, expiries and crashes.                                            *)
(***************************************************************************)
EXTENDS Registration, TLAPS

(***************************************************************************)
(* The inductive invariant, part by part.                                   *)
(***************************************************************************)

\* The advisory lock is held by the request whose transaction is open, so the
\* answer of the check under it lasts until the commit.
Exclusive ==
    \A r \in Requests :
        /\ pc[r] \in InTx <=> advisory = r
        /\ pc[r] = "writing" => owners = {}

\* The steps of each kind of request.
KindsApart ==
    \A r \in Requests :
        /\ pc[r] \in InTx \cup {"owner", "begin", "claims"} =>
              Kind(r) = "install"
        /\ pc[r] \in {"found", "user"} => Kind(r) # "install"
        /\ pc[r] = "locking" => Kind(r) # "join"
        /\ pc[r] = "again" => Kind(r) = "found"
        /\ Kind(r) = "join" => member[r] = Home
        /\ r \in owners => Kind(r) = "install"

\* Where a request's account and user go: to its own tenant and organization,
\* or to those of others, whose founder is a user by then.
Placed ==
    \A r \in Requests :
        /\ place[r] \in {r, Home, Project}
        /\ place[r] = r <=> member[r] = r
        /\ member[r] \in {r, Home} \cup users

\* How far a request is that has a user: an installation may still fail.
Settled ==
    \A r \in users :
        IF Kind(r) = "install"
        THEN /\ r \in owners
             /\ pc[r] \in Ended \cup {"claims", "drop_account", "drop_tenant",
                                      "release"}
        ELSE pc[r] = "done"

\* A request has the account and the tenant that its step goes on with.
Held(r) == place[r] = r => r \in tenants

Equipped ==
    \A r \in Requests :
        /\ pc[r] \in InTx \cup {"begin", "claims", "user"} =>
              r \in accounts /\ Held(r)
        /\ pc[r] = "account" => Held(r)
        /\ pc[r] = "found" => r \in tenants
        /\ pc[r] = "release" /\ Kind(r) # "install" /\ r \notin failed =>
              Held(r)

\* It has no account before it has come to create one.
NoAccountYet ==
    \A r \in Requests :
        \/ pc[r] \in {"locking", "owner", "exists", "again", "tenant",
                      "found", "account"}
        \/ pc[r] = "release" /\ Kind(r) # "install"
        => r \notin accounts

\* Once it has undone its account it has none, or the log or a lost answer
\* says why, and the log the rest if the account is in its own tenant.
Undone ==
    \A r \in Requests :
        /\ \/ pc[r] \in {"drop_tenant", "rejected"}
           \/ pc[r] = "release" /\ r \in failed
        /\ r \in accounts
        => /\ <<"account", r>> \in undeleted \/ r \in unheard
           /\ pc[r] # "drop_tenant" /\ place[r] = r =>
                 <<"tenant", r>> \in undeleted

\* A request that throws is about to end.
Throwing == \A r \in failed : pc[r] \in {"release", "rejected", "crashed"}

IInv == /\ TypeOK /\ Exclusive /\ KindsApart /\ Placed /\ Settled
        /\ Equipped /\ NoAccountYet /\ Undone /\ Throwing

\* The fields of a form.
LEMMA FormFields ==
    ASSUME TypeOK, NEW r \in Requests
    PROVE /\ Kind(r) \in {"install", "found", "join"}
          /\ Email(r) \in Emails /\ Key(r) \in Keys
BY RegistrationAssumption DEF TypeOK, Form, Kind, Email, Key, Keys

\* Every step keeps the state in its domains.
LEMMA TypePreserved ==
    ASSUME TypeOK, [Next]_vars PROVE TypeOK'
<1>0. TypeOK
  OBVIOUS
<1>1. ASSUME NEW r \in Requests, AcquireLock(r) PROVE TypeOK'
  BY <1>0, <1>1, FormFields, RegistrationAssumption DEF AcquireLock, Go,
     identity, database, aim, leftovers, bounds, Key, Kind, Email, TypeOK,
     Steps, InTx, Ended, EventTypes, Keys, Places, Form
<1>2. ASSUME NEW r \in Requests, LockTimesOut(r) PROVE TypeOK'
  BY <1>0, <1>2, FormFields, RegistrationAssumption DEF LockTimesOut, Go,
     identity, database, aim, leftovers, bounds, Key, Kind, Email, TypeOK,
     Steps, InTx, Ended, EventTypes, Keys, Places, Form
<1>3. ASSUME NEW r \in Requests, AcquireFails(r) PROVE TypeOK'
  <2>1. lock' \in [Keys -> Requests \cup {NoOne}]
    BY <1>0, <1>3, FormFields DEF AcquireFails, TypeOK
  <2> QED
    BY <2>1, <1>0, <1>3, RegistrationAssumption DEF AcquireFails, Go,
       identity, database, aim, leftovers, Fault, TypeOK, Steps, Ended
<1>4. ASSUME NEW r \in Requests, ReleaseLock(r) PROVE TypeOK'
  BY <1>0, <1>4, FormFields, RegistrationAssumption DEF ReleaseLock, Go,
     identity, database, aim, leftovers, bounds, Released, Key, Kind, Email,
     TypeOK, Steps, InTx, Ended, EventTypes, Keys, Places, Form
<1>5. ASSUME NEW r \in Requests, ReleaseFails(r) PROVE TypeOK'
  <2>1. lock' \in [Keys -> Requests \cup {NoOne}]
    BY <1>0, <1>5, FormFields DEF ReleaseFails, TypeOK
  <2>2. pc' \in [Requests -> Steps]
    BY <1>0, <1>5 DEF ReleaseFails, Go, Released, TypeOK, Steps, Ended
  <2> QED
    BY <2>1, <2>2, <1>0, <1>5, RegistrationAssumption DEF ReleaseFails,
       identity, database, aim, leftovers, Fault, TypeOK
<1>6. ASSUME NEW r \in Requests, CheckOwner(r) PROVE TypeOK'
  <2>1. outbox' \subseteq EventTypes \X Requests
    BY <1>0, <1>6 DEF CheckOwner, TypeOK, EventTypes
  <2> QED
    BY <2>1, <1>0, <1>6, FormFields, RegistrationAssumption, ZenonT(30) DEF
       CheckOwner, Go, identity, aim, leftovers, bounds, ThrowLocked, TypeOK,
       Steps, InTx, Ended, EventTypes, Keys, Places, Form
<1>7. ASSUME NEW r \in Requests, CheckOwnerFails(r) PROVE TypeOK'
  BY <1>0, <1>7, FormFields, RegistrationAssumption DEF CheckOwnerFails, Go,
     identity, database, aim, leftovers, Fault, bounds, ThrowLocked, TypeOK,
     Steps, InTx, Ended, EventTypes, Keys, Places, Form
<1>8. ASSUME NEW r \in Requests, BeginInstall(r) PROVE TypeOK'
  BY <1>0, <1>8, FormFields, RegistrationAssumption DEF BeginInstall, Go,
     identity, database, aim, leftovers, bounds, TypeOK, Steps, InTx, Ended,
     EventTypes, Keys, Places, Form
<1>9. ASSUME NEW r \in Requests, CheckInstall(r) PROVE TypeOK'
  BY <1>0, <1>9, FormFields, RegistrationAssumption DEF CheckInstall, Go,
     identity, database, aim, leftovers, bounds, TypeOK, Steps, InTx, Ended,
     EventTypes, Keys, Places, Form
<1>10. ASSUME NEW r \in Requests, CommitInstall(r) PROVE TypeOK'
  BY <1>0, <1>10, FormFields, RegistrationAssumption DEF CommitInstall, Go,
     identity, aim, leftovers, bounds, TypeOK, Steps, InTx, Ended, EventTypes,
     Keys, Places, Form
<1>11. ASSUME NEW r \in Requests, AbortInstall(r) PROVE TypeOK'
  BY <1>0, <1>11, FormFields, RegistrationAssumption DEF AbortInstall, Aborts,
     identity, database, aim, leftovers, bounds, Fault, TypeOK, Steps, InTx,
     Ended, EventTypes, Keys, Places, Form
<1>12. ASSUME NEW r \in Requests, SetClaims(r) PROVE TypeOK'
  BY <1>0, <1>12, FormFields, RegistrationAssumption DEF SetClaims, Go,
     identity, database, aim, leftovers, bounds, TypeOK, Steps, InTx, Ended,
     EventTypes, Keys, Places, Form
<1>13. ASSUME NEW r \in Requests, SetClaimsFails(r) PROVE TypeOK'
  BY <1>0, <1>13, FormFields, RegistrationAssumption DEF SetClaimsFails, Go,
     identity, database, aim, leftovers, Fault, bounds, TypeOK, Steps, InTx,
     Ended, EventTypes, Keys, Places, Form
<1>14. ASSUME NEW r \in Requests, CheckUserExists(r) PROVE TypeOK'
  BY <1>0, <1>14, FormFields, RegistrationAssumption DEF CheckUserExists, Go,
     identity, database, aim, leftovers, bounds, Throw, Thrown, ThrowLocked,
     Kind, Email, Known, TypeOK, Steps, InTx, Ended, EventTypes, Keys, Places,
     Form
<1>15. ASSUME NEW r \in Requests, CheckAgain(r) PROVE TypeOK'
  <2>1. /\ place' \in [Requests -> Places]
        /\ member' \in [Requests -> Requests \cup {Home}]
    BY <1>0, <1>15 DEF CheckAgain, Known, Places, TypeOK
  <2>2. pc' \in [Requests -> Steps]
    BY <1>0, <1>15 DEF CheckAgain, Go, TypeOK, Steps
  <2> QED
    BY <2>1, <2>2, <1>0, <1>15 DEF CheckAgain, identity, database, leftovers,
       bounds, TypeOK
<1>16. ASSUME NEW r \in Requests, ProvisionTenant(r) PROVE TypeOK'
  BY <1>0, <1>16, FormFields, RegistrationAssumption DEF ProvisionTenant, Go,
     database, aim, leftovers, bounds, Kind, TypeOK, Steps, InTx, Ended,
     EventTypes, Keys, Places, Form
<1>17. ASSUME NEW r \in Requests, EarlyStepFails(r) PROVE TypeOK'
  BY <1>0, <1>17, FormFields, RegistrationAssumption DEF EarlyStepFails, Go,
     identity, database, aim, leftovers, Fault, bounds, Throw, Thrown,
     ThrowLocked, Kind, TypeOK, Steps, InTx, Ended, EventTypes, Keys, Places,
     Form
<1>18. ASSUME NEW r \in Requests, CreateOrganization(r) PROVE TypeOK'
  BY <1>0, <1>18, FormFields, RegistrationAssumption DEF CreateOrganization,
     Go, identity, aim, leftovers, bounds, TypeOK, Steps, InTx, Ended,
     EventTypes, Keys, Places, Form
<1>19. ASSUME NEW r \in Requests, CreateOrganizationFails(r) PROVE TypeOK'
  BY <1>0, <1>19, FormFields, RegistrationAssumption DEF
     CreateOrganizationFails, Go, identity, database, aim, leftovers, bounds,
     Fault, ThrowLocked, TypeOK, Steps, InTx, Ended, EventTypes, Keys, Places,
     Form
<1>20. ASSUME NEW r \in Requests, ProvisionUser(r) PROVE TypeOK'
  BY <1>0, <1>20, FormFields, RegistrationAssumption DEF ProvisionUser, Go,
     database, aim, leftovers, bounds, Kind, AccountExists, TypeOK, Steps,
     InTx, Ended, EventTypes, Keys, Places, Form
<1>21. ASSUME NEW r \in Requests, ProvisionUserFails(r) PROVE TypeOK'
  BY <1>0, <1>21, FormFields, RegistrationAssumption DEF ProvisionUserFails,
     Go, identity, database, aim, leftovers, bounds, Fault, AfterAccount,
     Founds, TypeOK, Steps, InTx, Ended, EventTypes, Keys, Places, Form
<1>22. ASSUME NEW r \in Requests, CreateUser(r) PROVE TypeOK'
  BY <1>0, <1>22, FormFields, RegistrationAssumption DEF CreateUser, Go,
     identity, aim, leftovers, bounds, Founds, TypeOK, Steps, InTx, Ended,
     EventTypes, Keys, Places, Form
<1>23. ASSUME NEW r \in Requests, CreateUserFails(r) PROVE TypeOK'
  BY <1>0, <1>23, FormFields, RegistrationAssumption DEF CreateUserFails, Go,
     identity, database, aim, leftovers, Fault, bounds, TypeOK, Steps, InTx,
     Ended, EventTypes, Keys, Places, Form
<1>24. ASSUME NEW r \in Requests, RollbackUser(r) PROVE TypeOK'
  BY <1>0, <1>24, FormFields, RegistrationAssumption DEF RollbackUser, Go,
     database, aim, leftovers, bounds, Fault, AfterAccount, Founds, TypeOK,
     Steps, InTx, Ended, EventTypes, Keys, Places, Form
<1>25. ASSUME NEW r \in Requests, RollbackTenant(r) PROVE TypeOK'
  BY <1>0, <1>25, FormFields, RegistrationAssumption DEF RollbackTenant, Go,
     identity, database, aim, leftovers, bounds, Fault, DeleteTenant, Thrown,
     ThrowLocked, Kind, TypeOK, Steps, InTx, Ended, EventTypes, Keys, Places,
     Form
<1>26. ASSUME NEW r \in Requests, Crash(r) PROVE TypeOK'
  BY <1>0, <1>26, FormFields, RegistrationAssumption DEF Crash, Go, identity,
     database, aim, leftovers, TypeOK, Steps, InTx, Ended, EventTypes, Keys,
     Places, Form
<1>27. ASSUME NEW k \in Keys, LockExpires(k) PROVE TypeOK'
  BY <1>0, <1>27, RegistrationAssumption DEF LockExpires, aim, identity,
     database, leftovers, TypeOK, Steps, InTx, Ended, EventTypes, Keys,
     Places, Form
<1>28. ASSUME NEW r \in Requests, ProvisionTenantFails(r) PROVE TypeOK'
  BY <1>0, <1>28, FormFields, RegistrationAssumption DEF ProvisionTenantFails,
     Fault, ThrowLocked, Go, database, aim, leftovers, bounds, Kind, TypeOK,
     Steps, InTx, Ended, EventTypes, Keys, Places, Form
<1>29. ASSUME NEW r \in Requests, ProvisionUserUnheard(r) PROVE TypeOK'
  BY <1>0, <1>29, FormFields, RegistrationAssumption DEF ProvisionUserUnheard,
     Fault, AfterAccount, Founds, Go, database, aim, leftovers, bounds, Kind,
     AccountExists, TypeOK, Steps, InTx, Ended, EventTypes, Keys, Places, Form
<1>30. CASE UNCHANGED vars
  BY <1>0, <1>30 DEF vars, aim, identity, database, leftovers, bounds, TypeOK,
     Steps, InTx, Ended, EventTypes, Keys, Places, Form
<1> QED
  BY <1>1, <1>2, <1>3, <1>4, <1>5, <1>6, <1>7, <1>8, <1>9, <1>10, <1>11,
     <1>12, <1>13, <1>14, <1>15, <1>16, <1>17, <1>18, <1>19, <1>20, <1>21,
     <1>22, <1>23, <1>24, <1>25, <1>26, <1>27, <1>28, <1>29,
     <1>30
  DEF Next, Step, LockStep, InstallStep, RegisterStep

\* The advisory lock serialises the transactions.
LEMMA ExclusivePreserved ==
    ASSUME IInv, [Next]_vars PROVE Exclusive'
<1>0. TypeOK /\ Exclusive /\ KindsApart
  BY DEF IInv
<1>1. ASSUME NEW r \in Requests, AcquireLock(r) PROVE Exclusive'
  BY <1>0, <1>1, FormFields, RegistrationAssumption DEF AcquireLock, Go,
     identity, database, aim, bounds, Key, Kind, Email, TypeOK, Exclusive,
     InTx, Ended
<1>2. ASSUME NEW r \in Requests, LockTimesOut(r) PROVE Exclusive'
  BY <1>0, <1>2, FormFields, RegistrationAssumption DEF LockTimesOut, Go,
     identity, database, aim, bounds, Key, Kind, Email, TypeOK, Exclusive,
     InTx, Ended
<1>3. ASSUME NEW r \in Requests, AcquireFails(r) PROVE Exclusive'
  BY <1>0, <1>3, FormFields, RegistrationAssumption DEF AcquireFails, Go,
     identity, database, aim, Fault, bounds, Key, Email, Kind, TypeOK,
     Exclusive, InTx, Ended
<1>4. ASSUME NEW r \in Requests, ReleaseLock(r) PROVE Exclusive'
  BY <1>0, <1>4, FormFields, RegistrationAssumption DEF ReleaseLock, Go,
     identity, database, aim, bounds, Released, Key, Kind, Email, TypeOK,
     Exclusive, InTx, Ended
<1>5. ASSUME NEW r \in Requests, ReleaseFails(r) PROVE Exclusive'
  BY <1>0, <1>5, FormFields, RegistrationAssumption DEF ReleaseFails, Go,
     identity, database, aim, Fault, bounds, Released, Kind, Key, Email,
     TypeOK, Exclusive, InTx, Ended
<1>6. ASSUME NEW r \in Requests, CheckOwner(r) PROVE Exclusive'
  BY <1>0, <1>6, FormFields, RegistrationAssumption DEF CheckOwner, Go,
     identity, aim, bounds, ThrowLocked, TypeOK, Exclusive, InTx, Ended
<1>7. ASSUME NEW r \in Requests, CheckOwnerFails(r) PROVE Exclusive'
  BY <1>0, <1>7, FormFields, RegistrationAssumption DEF CheckOwnerFails, Go,
     identity, database, aim, Fault, bounds, ThrowLocked, TypeOK, Exclusive,
     InTx, Ended
<1>8. ASSUME NEW r \in Requests, BeginInstall(r) PROVE Exclusive'
  BY <1>0, <1>8, FormFields, RegistrationAssumption DEF BeginInstall, Go,
     identity, database, aim, bounds, TypeOK, Exclusive, InTx, Ended
<1>9. ASSUME NEW r \in Requests, CheckInstall(r) PROVE Exclusive'
  BY <1>0, <1>9, FormFields, RegistrationAssumption DEF CheckInstall, Go,
     identity, database, aim, bounds, TypeOK, Exclusive, InTx, Ended
<1>10. ASSUME NEW r \in Requests, CommitInstall(r) PROVE Exclusive'
  BY <1>0, <1>10, FormFields, RegistrationAssumption DEF CommitInstall, Go,
     identity, aim, bounds, TypeOK, Exclusive, InTx, Ended
<1>11. ASSUME NEW r \in Requests, AbortInstall(r) PROVE Exclusive'
  BY <1>0, <1>11, FormFields, RegistrationAssumption DEF AbortInstall, Aborts,
     identity, database, aim, bounds, Fault, TypeOK, Exclusive, InTx, Ended
<1>12. ASSUME NEW r \in Requests, SetClaims(r) PROVE Exclusive'
  BY <1>0, <1>12, FormFields, RegistrationAssumption DEF SetClaims, Go,
     identity, database, aim, bounds, TypeOK, Exclusive, InTx, Ended
<1>13. ASSUME NEW r \in Requests, SetClaimsFails(r) PROVE Exclusive'
  BY <1>0, <1>13, FormFields, RegistrationAssumption DEF SetClaimsFails, Go,
     identity, database, aim, Fault, bounds, TypeOK, Exclusive, InTx, Ended
<1>14. ASSUME NEW r \in Requests, CheckUserExists(r) PROVE Exclusive'
  BY <1>0, <1>14, FormFields, RegistrationAssumption DEF CheckUserExists, Go,
     identity, database, aim, bounds, Throw, Thrown, ThrowLocked, Kind, Email,
     Known, TypeOK, Exclusive, InTx, Ended
<1>15. ASSUME NEW r \in Requests, CheckAgain(r) PROVE Exclusive'
  BY <1>0, <1>15, FormFields, RegistrationAssumption DEF CheckAgain, Go,
     identity, database, bounds, Kind, Email, Known, TypeOK, Exclusive, InTx,
     Ended
<1>16. ASSUME NEW r \in Requests, ProvisionTenant(r) PROVE Exclusive'
  BY <1>0, <1>16, FormFields, RegistrationAssumption DEF ProvisionTenant, Go,
     database, aim, bounds, Kind, TypeOK, Exclusive, InTx, Ended
<1>17. ASSUME NEW r \in Requests, EarlyStepFails(r) PROVE Exclusive'
  BY <1>0, <1>17, FormFields, RegistrationAssumption DEF EarlyStepFails, Go,
     identity, database, aim, Fault, bounds, Throw, Thrown, ThrowLocked, Kind,
     TypeOK, Exclusive, InTx, Ended
<1>18. ASSUME NEW r \in Requests, CreateOrganization(r) PROVE Exclusive'
  BY <1>0, <1>18, FormFields, RegistrationAssumption DEF CreateOrganization,
     Go, identity, aim, bounds, TypeOK, Exclusive, InTx, Ended
<1>19. ASSUME NEW r \in Requests, CreateOrganizationFails(r) PROVE Exclusive'
  BY <1>0, <1>19, FormFields, RegistrationAssumption DEF
     CreateOrganizationFails, Go, identity, database, aim, bounds, Fault,
     ThrowLocked, TypeOK, Exclusive, InTx, Ended
<1>20. ASSUME NEW r \in Requests, ProvisionUser(r) PROVE Exclusive'
  BY <1>0, <1>20, FormFields, RegistrationAssumption DEF ProvisionUser, Go,
     database, aim, bounds, Kind, AccountExists, TypeOK, Exclusive, InTx,
     Ended
<1>21. ASSUME NEW r \in Requests, ProvisionUserFails(r) PROVE Exclusive'
  BY <1>0, <1>21, FormFields, RegistrationAssumption DEF ProvisionUserFails,
     Go, identity, database, aim, bounds, Fault, AfterAccount, Founds, TypeOK,
     Exclusive, InTx, Ended
<1>22. ASSUME NEW r \in Requests, CreateUser(r) PROVE Exclusive'
  BY <1>0, <1>22, FormFields, RegistrationAssumption DEF CreateUser, Go,
     identity, aim, bounds, Founds, TypeOK, Exclusive, InTx, Ended
<1>23. ASSUME NEW r \in Requests, CreateUserFails(r) PROVE Exclusive'
  BY <1>0, <1>23, FormFields, RegistrationAssumption DEF CreateUserFails, Go,
     identity, database, aim, Fault, bounds, TypeOK, Exclusive, InTx, Ended
<1>24. ASSUME NEW r \in Requests, RollbackUser(r) PROVE Exclusive'
  BY <1>0, <1>24, FormFields, RegistrationAssumption DEF RollbackUser, Go,
     database, aim, bounds, Fault, AfterAccount, Founds, TypeOK, Exclusive,
     InTx, Ended
<1>25. ASSUME NEW r \in Requests, RollbackTenant(r) PROVE Exclusive'
  BY <1>0, <1>25, FormFields, RegistrationAssumption DEF RollbackTenant, Go,
     identity, database, aim, bounds, Fault, DeleteTenant, Thrown,
     ThrowLocked, Kind, TypeOK, Exclusive, InTx, Ended
<1>26. ASSUME NEW r \in Requests, Crash(r) PROVE Exclusive'
  BY <1>0, <1>26, FormFields, RegistrationAssumption DEF Crash, Go, identity,
     database, aim, TypeOK, Exclusive, InTx, Ended
<1>27. ASSUME NEW k \in Keys, LockExpires(k) PROVE Exclusive'
  BY <1>0, <1>27, RegistrationAssumption DEF LockExpires, aim, identity,
     database, TypeOK, Exclusive, InTx, Ended
<1>28. ASSUME NEW r \in Requests, ProvisionTenantFails(r) PROVE Exclusive'
  BY <1>0, <1>28, FormFields, RegistrationAssumption DEF ProvisionTenantFails,
     Fault, ThrowLocked, Go, database, aim, bounds, Kind, TypeOK, Exclusive,
     InTx, Ended
<1>29. ASSUME NEW r \in Requests, ProvisionUserUnheard(r) PROVE Exclusive'
  BY <1>0, <1>29, FormFields, RegistrationAssumption DEF ProvisionUserUnheard,
     Fault, AfterAccount, Founds, Go, database, aim, bounds, Kind,
     AccountExists, TypeOK, Exclusive, InTx, Ended
<1>30. CASE UNCHANGED vars
  BY <1>0, <1>30 DEF vars, aim, identity, database, bounds, TypeOK, Exclusive,
     InTx, Ended
<1> QED
  BY <1>1, <1>2, <1>3, <1>4, <1>5, <1>6, <1>7, <1>8, <1>9, <1>10, <1>11,
     <1>12, <1>13, <1>14, <1>15, <1>16, <1>17, <1>18, <1>19, <1>20, <1>21,
     <1>22, <1>23, <1>24, <1>25, <1>26, <1>27, <1>28, <1>29,
     <1>30
  DEF Next, Step, LockStep, InstallStep, RegisterStep

\* A request takes the steps of its kind only.
LEMMA KindsPreserved ==
    ASSUME IInv, [Next]_vars PROVE KindsApart'
<1>0. TypeOK /\ KindsApart
  BY DEF IInv
<1>1. ASSUME NEW r \in Requests, AcquireLock(r) PROVE KindsApart'
  BY <1>0, <1>1, FormFields, RegistrationAssumption DEF AcquireLock, Go,
     identity, database, aim, bounds, Key, Kind, Email, TypeOK, KindsApart,
     InTx
<1>2. ASSUME NEW r \in Requests, LockTimesOut(r) PROVE KindsApart'
  BY <1>0, <1>2, FormFields, RegistrationAssumption DEF LockTimesOut, Go,
     identity, database, aim, bounds, Key, Kind, Email, TypeOK, KindsApart,
     InTx
<1>3. ASSUME NEW r \in Requests, AcquireFails(r) PROVE KindsApart'
  BY <1>0, <1>3, FormFields, RegistrationAssumption DEF AcquireFails, Go,
     identity, database, aim, Fault, bounds, Key, Email, TypeOK, KindsApart,
     InTx, Kind
<1>4. ASSUME NEW r \in Requests, ReleaseLock(r) PROVE KindsApart'
  BY <1>0, <1>4, FormFields, RegistrationAssumption DEF ReleaseLock, Go,
     identity, database, aim, bounds, Released, Key, Kind, Email, TypeOK,
     KindsApart, InTx
<1>5. ASSUME NEW r \in Requests, ReleaseFails(r) PROVE KindsApart'
  BY <1>0, <1>5, FormFields, RegistrationAssumption DEF ReleaseFails, Go,
     identity, database, aim, Fault, bounds, Released, Kind, Key, Email,
     TypeOK, KindsApart, InTx
<1>6. ASSUME NEW r \in Requests, CheckOwner(r) PROVE KindsApart'
  BY <1>0, <1>6, FormFields, RegistrationAssumption DEF CheckOwner, Go,
     identity, aim, bounds, ThrowLocked, TypeOK, KindsApart, InTx, Kind
<1>7. ASSUME NEW r \in Requests, CheckOwnerFails(r) PROVE KindsApart'
  BY <1>0, <1>7, FormFields, RegistrationAssumption DEF CheckOwnerFails, Go,
     identity, database, aim, Fault, bounds, ThrowLocked, TypeOK, KindsApart,
     InTx, Kind
<1>8. ASSUME NEW r \in Requests, BeginInstall(r) PROVE KindsApart'
  BY <1>0, <1>8, FormFields, RegistrationAssumption DEF BeginInstall, Go,
     identity, database, aim, bounds, TypeOK, KindsApart, InTx, Kind
<1>9. ASSUME NEW r \in Requests, CheckInstall(r) PROVE KindsApart'
  BY <1>0, <1>9, FormFields, RegistrationAssumption DEF CheckInstall, Go,
     identity, database, aim, bounds, TypeOK, KindsApart, InTx, Kind
<1>10. ASSUME NEW r \in Requests, CommitInstall(r) PROVE KindsApart'
  BY <1>0, <1>10, FormFields, RegistrationAssumption DEF CommitInstall, Go,
     identity, aim, bounds, TypeOK, KindsApart, InTx, Kind
<1>11. ASSUME NEW r \in Requests, AbortInstall(r) PROVE KindsApart'
  BY <1>0, <1>11, FormFields, RegistrationAssumption DEF AbortInstall, Aborts,
     identity, database, aim, bounds, Fault, TypeOK, KindsApart, InTx, Kind
<1>12. ASSUME NEW r \in Requests, SetClaims(r) PROVE KindsApart'
  BY <1>0, <1>12, FormFields, RegistrationAssumption DEF SetClaims, Go,
     identity, database, aim, bounds, TypeOK, KindsApart, InTx, Kind
<1>13. ASSUME NEW r \in Requests, SetClaimsFails(r) PROVE KindsApart'
  BY <1>0, <1>13, FormFields, RegistrationAssumption DEF SetClaimsFails, Go,
     identity, database, aim, Fault, bounds, TypeOK, KindsApart, InTx, Kind
<1>14. ASSUME NEW r \in Requests, CheckUserExists(r) PROVE KindsApart'
  BY <1>0, <1>14, FormFields, RegistrationAssumption DEF CheckUserExists, Go,
     identity, database, aim, bounds, Throw, Thrown, ThrowLocked, Kind, Email,
     Known, TypeOK, KindsApart, InTx
<1>15. ASSUME NEW r \in Requests, CheckAgain(r) PROVE KindsApart'
  BY <1>0, <1>15, FormFields, RegistrationAssumption DEF CheckAgain, Go,
     identity, database, bounds, Kind, Email, Known, TypeOK, KindsApart, InTx
<1>16. ASSUME NEW r \in Requests, ProvisionTenant(r) PROVE KindsApart'
  BY <1>0, <1>16, FormFields, RegistrationAssumption DEF ProvisionTenant, Go,
     database, aim, bounds, Kind, TypeOK, KindsApart, InTx
<1>17. ASSUME NEW r \in Requests, EarlyStepFails(r) PROVE KindsApart'
  BY <1>0, <1>17, FormFields, RegistrationAssumption DEF EarlyStepFails, Go,
     identity, database, aim, Fault, bounds, Throw, Thrown, ThrowLocked, Kind,
     TypeOK, KindsApart, InTx
<1>18. ASSUME NEW r \in Requests, CreateOrganization(r) PROVE KindsApart'
  BY <1>0, <1>18, FormFields, RegistrationAssumption DEF CreateOrganization,
     Go, identity, aim, bounds, TypeOK, KindsApart, InTx, Kind
<1>19. ASSUME NEW r \in Requests, CreateOrganizationFails(r) PROVE KindsApart'
  BY <1>0, <1>19, FormFields, RegistrationAssumption DEF
     CreateOrganizationFails, Go, identity, database, aim, bounds, Fault,
     ThrowLocked, TypeOK, KindsApart, InTx, Kind
<1>20. ASSUME NEW r \in Requests, ProvisionUser(r) PROVE KindsApart'
  BY <1>0, <1>20, FormFields, RegistrationAssumption DEF ProvisionUser, Go,
     database, aim, bounds, Kind, AccountExists, TypeOK, KindsApart, InTx
<1>21. ASSUME NEW r \in Requests, ProvisionUserFails(r) PROVE KindsApart'
  BY <1>0, <1>21, FormFields, RegistrationAssumption DEF ProvisionUserFails,
     Go, identity, database, aim, bounds, Fault, AfterAccount, Founds, TypeOK,
     KindsApart, InTx, Kind
<1>22. ASSUME NEW r \in Requests, CreateUser(r) PROVE KindsApart'
  BY <1>0, <1>22, FormFields, RegistrationAssumption DEF CreateUser, Go,
     identity, aim, bounds, Founds, TypeOK, KindsApart, InTx, Kind
<1>23. ASSUME NEW r \in Requests, CreateUserFails(r) PROVE KindsApart'
  BY <1>0, <1>23, FormFields, RegistrationAssumption DEF CreateUserFails, Go,
     identity, database, aim, Fault, bounds, TypeOK, KindsApart, InTx, Kind
<1>24. ASSUME NEW r \in Requests, RollbackUser(r) PROVE KindsApart'
  BY <1>0, <1>24, FormFields, RegistrationAssumption DEF RollbackUser, Go,
     database, aim, bounds, Fault, AfterAccount, Founds, TypeOK, KindsApart,
     InTx, Kind
<1>25. ASSUME NEW r \in Requests, RollbackTenant(r) PROVE KindsApart'
  BY <1>0, <1>25, FormFields, RegistrationAssumption DEF RollbackTenant, Go,
     identity, database, aim, bounds, Fault, DeleteTenant, Thrown,
     ThrowLocked, Kind, TypeOK, KindsApart, InTx
<1>26. ASSUME NEW r \in Requests, Crash(r) PROVE KindsApart'
  BY <1>0, <1>26, FormFields, RegistrationAssumption DEF Crash, Go, identity,
     database, aim, TypeOK, KindsApart, InTx, Kind
<1>27. ASSUME NEW k \in Keys, LockExpires(k) PROVE KindsApart'
  BY <1>0, <1>27, RegistrationAssumption DEF LockExpires, aim, identity,
     database, TypeOK, KindsApart, InTx, Kind
<1>28. ASSUME NEW r \in Requests, ProvisionTenantFails(r) PROVE KindsApart'
  BY <1>0, <1>28, FormFields, RegistrationAssumption DEF ProvisionTenantFails,
     Fault, ThrowLocked, Go, database, aim, bounds, Kind, TypeOK, KindsApart,
     InTx
<1>29. ASSUME NEW r \in Requests, ProvisionUserUnheard(r) PROVE KindsApart'
  BY <1>0, <1>29, FormFields, RegistrationAssumption DEF ProvisionUserUnheard,
     Fault, AfterAccount, Founds, Go, database, aim, bounds, Kind,
     AccountExists, TypeOK, KindsApart, InTx
<1>30. CASE UNCHANGED vars
  BY <1>0, <1>30 DEF vars, aim, identity, database, bounds, TypeOK,
     KindsApart, InTx, Kind
<1> QED
  BY <1>1, <1>2, <1>3, <1>4, <1>5, <1>6, <1>7, <1>8, <1>9, <1>10, <1>11,
     <1>12, <1>13, <1>14, <1>15, <1>16, <1>17, <1>18, <1>19, <1>20, <1>21,
     <1>22, <1>23, <1>24, <1>25, <1>26, <1>27, <1>28, <1>29,
     <1>30
  DEF Next, Step, LockStep, InstallStep, RegisterStep

\* Only looking again for the user redirects a request.
LEMMA PlacedPreserved ==
    ASSUME IInv, [Next]_vars PROVE Placed'
<1>0. TypeOK /\ KindsApart /\ Placed /\ Settled
  BY DEF IInv
<1>1. ASSUME NEW r \in Requests, AcquireLock(r) PROVE Placed'
  BY <1>0, <1>1, FormFields, RegistrationAssumption DEF AcquireLock, Go,
     identity, database, aim, bounds, Key, Kind, Email, TypeOK, KindsApart,
     Placed, Settled, Known
<1>2. ASSUME NEW r \in Requests, LockTimesOut(r) PROVE Placed'
  BY <1>0, <1>2, FormFields, RegistrationAssumption DEF LockTimesOut, Go,
     identity, database, aim, bounds, Key, Kind, Email, TypeOK, KindsApart,
     Placed, Settled, Known
<1>3. ASSUME NEW r \in Requests, AcquireFails(r) PROVE Placed'
  BY <1>0, <1>3, FormFields, RegistrationAssumption DEF AcquireFails, Go,
     identity, database, aim, Fault, bounds, Key, Email, TypeOK, KindsApart,
     Placed, Settled, Kind, Email, Known
<1>4. ASSUME NEW r \in Requests, ReleaseLock(r) PROVE Placed'
  BY <1>0, <1>4, FormFields, RegistrationAssumption DEF ReleaseLock, Go,
     identity, database, aim, bounds, Released, Key, Kind, Email, TypeOK,
     KindsApart, Placed, Settled, Known
<1>5. ASSUME NEW r \in Requests, ReleaseFails(r) PROVE Placed'
  BY <1>0, <1>5, FormFields, RegistrationAssumption DEF ReleaseFails, Go,
     identity, database, aim, Fault, bounds, Released, Kind, Key, Email,
     TypeOK, KindsApart, Placed, Settled, Known
<1>6. ASSUME NEW r \in Requests, CheckOwner(r) PROVE Placed'
  BY <1>0, <1>6, FormFields, RegistrationAssumption DEF CheckOwner, Go,
     identity, aim, bounds, ThrowLocked, TypeOK, KindsApart, Placed, Settled,
     Kind, Email, Known
<1>7. ASSUME NEW r \in Requests, CheckOwnerFails(r) PROVE Placed'
  BY <1>0, <1>7, FormFields, RegistrationAssumption DEF CheckOwnerFails, Go,
     identity, database, aim, Fault, bounds, ThrowLocked, TypeOK, KindsApart,
     Placed, Settled, Kind, Email, Known
<1>8. ASSUME NEW r \in Requests, BeginInstall(r) PROVE Placed'
  BY <1>0, <1>8, FormFields, RegistrationAssumption DEF BeginInstall, Go,
     identity, database, aim, bounds, TypeOK, KindsApart, Placed, Settled,
     Kind, Email, Known
<1>9. ASSUME NEW r \in Requests, CheckInstall(r) PROVE Placed'
  BY <1>0, <1>9, FormFields, RegistrationAssumption DEF CheckInstall, Go,
     identity, database, aim, bounds, TypeOK, KindsApart, Placed, Settled,
     Kind, Email, Known
<1>10. ASSUME NEW r \in Requests, CommitInstall(r) PROVE Placed'
  BY <1>0, <1>10, FormFields, RegistrationAssumption DEF CommitInstall, Go,
     identity, aim, bounds, TypeOK, KindsApart, Placed, Settled, Kind, Email,
     Known
<1>11. ASSUME NEW r \in Requests, AbortInstall(r) PROVE Placed'
  BY <1>0, <1>11, FormFields, RegistrationAssumption DEF AbortInstall, Aborts,
     identity, database, aim, bounds, Fault, TypeOK, KindsApart, Placed,
     Settled, Kind, Email, Known
<1>12. ASSUME NEW r \in Requests, SetClaims(r) PROVE Placed'
  BY <1>0, <1>12, FormFields, RegistrationAssumption DEF SetClaims, Go,
     identity, database, aim, bounds, TypeOK, KindsApart, Placed, Settled,
     Kind, Email, Known
<1>13. ASSUME NEW r \in Requests, SetClaimsFails(r) PROVE Placed'
  BY <1>0, <1>13, FormFields, RegistrationAssumption DEF SetClaimsFails, Go,
     identity, database, aim, Fault, bounds, TypeOK, KindsApart, Placed,
     Settled, Kind, Email, Known
<1>14. ASSUME NEW r \in Requests, CheckUserExists(r) PROVE Placed'
  BY <1>0, <1>14, FormFields, RegistrationAssumption DEF CheckUserExists, Go,
     identity, database, aim, bounds, Throw, Thrown, ThrowLocked, Kind, Email,
     Known, TypeOK, KindsApart, Placed, Settled
<1>15. ASSUME NEW r \in Requests, CheckAgain(r) PROVE Placed'
  BY <1>0, <1>15, FormFields, RegistrationAssumption DEF CheckAgain, Go,
     identity, database, bounds, Kind, Email, Known, TypeOK, KindsApart,
     Placed, Settled
<1>16. ASSUME NEW r \in Requests, ProvisionTenant(r) PROVE Placed'
  BY <1>0, <1>16, FormFields, RegistrationAssumption DEF ProvisionTenant, Go,
     database, aim, bounds, Kind, TypeOK, KindsApart, Placed, Settled, Email,
     Known
<1>17. ASSUME NEW r \in Requests, EarlyStepFails(r) PROVE Placed'
  BY <1>0, <1>17, FormFields, RegistrationAssumption DEF EarlyStepFails, Go,
     identity, database, aim, Fault, bounds, Throw, Thrown, ThrowLocked, Kind,
     TypeOK, KindsApart, Placed, Settled, Email, Known
<1>18. ASSUME NEW r \in Requests, CreateOrganization(r) PROVE Placed'
  BY <1>0, <1>18, FormFields, RegistrationAssumption DEF CreateOrganization,
     Go, identity, aim, bounds, TypeOK, KindsApart, Placed, Settled, Kind,
     Email, Known
<1>19. ASSUME NEW r \in Requests, CreateOrganizationFails(r) PROVE Placed'
  BY <1>0, <1>19, FormFields, RegistrationAssumption DEF
     CreateOrganizationFails, Go, identity, database, aim, bounds, Fault,
     ThrowLocked, TypeOK, KindsApart, Placed, Settled, Kind, Email, Known
<1>20. ASSUME NEW r \in Requests, ProvisionUser(r) PROVE Placed'
  BY <1>0, <1>20, FormFields, RegistrationAssumption DEF ProvisionUser, Go,
     database, aim, bounds, Kind, AccountExists, TypeOK, KindsApart, Placed,
     Settled, Email, Known
<1>21. ASSUME NEW r \in Requests, ProvisionUserFails(r) PROVE Placed'
  BY <1>0, <1>21, FormFields, RegistrationAssumption DEF ProvisionUserFails,
     Go, identity, database, aim, bounds, Fault, AfterAccount, Founds, TypeOK,
     KindsApart, Placed, Settled, Kind, Email, Known
<1>22. ASSUME NEW r \in Requests, CreateUser(r) PROVE Placed'
  BY <1>0, <1>22, FormFields, RegistrationAssumption DEF CreateUser, Go,
     identity, aim, bounds, Founds, TypeOK, KindsApart, Placed, Settled, Kind,
     Email, Known
<1>23. ASSUME NEW r \in Requests, CreateUserFails(r) PROVE Placed'
  BY <1>0, <1>23, FormFields, RegistrationAssumption DEF CreateUserFails, Go,
     identity, database, aim, Fault, bounds, TypeOK, KindsApart, Placed,
     Settled, Kind, Email, Known
<1>24. ASSUME NEW r \in Requests, RollbackUser(r) PROVE Placed'
  BY <1>0, <1>24, FormFields, RegistrationAssumption DEF RollbackUser, Go,
     database, aim, bounds, Fault, AfterAccount, Founds, TypeOK, KindsApart,
     Placed, Settled, Kind, Email, Known
<1>25. ASSUME NEW r \in Requests, RollbackTenant(r) PROVE Placed'
  BY <1>0, <1>25, FormFields, RegistrationAssumption DEF RollbackTenant, Go,
     identity, database, aim, bounds, Fault, DeleteTenant, Thrown,
     ThrowLocked, Kind, TypeOK, KindsApart, Placed, Settled, Email, Known
<1>26. ASSUME NEW r \in Requests, Crash(r) PROVE Placed'
  BY <1>0, <1>26, FormFields, RegistrationAssumption DEF Crash, Go, identity,
     database, aim, TypeOK, KindsApart, Placed, Settled, Kind, Email, Known
<1>27. ASSUME NEW k \in Keys, LockExpires(k) PROVE Placed'
  BY <1>0, <1>27, RegistrationAssumption DEF LockExpires, aim, identity,
     database, TypeOK, KindsApart, Placed, Settled, Kind, Email, Known
<1>28. ASSUME NEW r \in Requests, ProvisionTenantFails(r) PROVE Placed'
  BY <1>0, <1>28, FormFields, RegistrationAssumption DEF ProvisionTenantFails,
     Fault, ThrowLocked, Go, database, aim, bounds, Kind, TypeOK, KindsApart,
     Placed, Settled, Email, Known
<1>29. ASSUME NEW r \in Requests, ProvisionUserUnheard(r) PROVE Placed'
  BY <1>0, <1>29, FormFields, RegistrationAssumption DEF ProvisionUserUnheard,
     Fault, AfterAccount, Founds, Go, database, aim, bounds, Kind,
     AccountExists, TypeOK, KindsApart, Placed, Settled, Email, Known
<1>30. CASE UNCHANGED vars
  BY <1>0, <1>30 DEF vars, aim, identity, database, bounds, TypeOK,
     KindsApart, Placed, Settled, Kind, Email, Known
<1> QED
  BY <1>1, <1>2, <1>3, <1>4, <1>5, <1>6, <1>7, <1>8, <1>9, <1>10, <1>11,
     <1>12, <1>13, <1>14, <1>15, <1>16, <1>17, <1>18, <1>19, <1>20, <1>21,
     <1>22, <1>23, <1>24, <1>25, <1>26, <1>27, <1>28, <1>29,
     <1>30
  DEF Next, Step, LockStep, InstallStep, RegisterStep

\* A user row belongs to a request that is done, or an installation.
LEMMA SettledPreserved ==
    ASSUME IInv, [Next]_vars PROVE Settled'
<1>0. TypeOK /\ KindsApart /\ Settled
  BY DEF IInv
<1>1. ASSUME NEW r \in Requests, AcquireLock(r) PROVE Settled'
  BY <1>0, <1>1, FormFields, RegistrationAssumption DEF AcquireLock, Go,
     identity, database, aim, bounds, Key, Kind, Email, TypeOK, KindsApart,
     Settled, Ended, InTx
<1>2. ASSUME NEW r \in Requests, LockTimesOut(r) PROVE Settled'
  BY <1>0, <1>2, FormFields, RegistrationAssumption DEF LockTimesOut, Go,
     identity, database, aim, bounds, Key, Kind, Email, TypeOK, KindsApart,
     Settled, Ended, InTx
<1>3. ASSUME NEW r \in Requests, AcquireFails(r) PROVE Settled'
  BY <1>0, <1>3, FormFields, RegistrationAssumption DEF AcquireFails, Go,
     identity, database, aim, Fault, bounds, Key, Email, TypeOK, KindsApart,
     Settled, Ended, InTx, Kind
<1>4. ASSUME NEW r \in Requests, ReleaseLock(r) PROVE Settled'
  BY <1>0, <1>4, FormFields, RegistrationAssumption DEF ReleaseLock, Go,
     identity, database, aim, bounds, Released, Key, Kind, Email, TypeOK,
     KindsApart, Settled, Ended, InTx
<1>5. ASSUME NEW r \in Requests, ReleaseFails(r) PROVE Settled'
  BY <1>0, <1>5, FormFields, RegistrationAssumption DEF ReleaseFails, Go,
     identity, database, aim, Fault, bounds, Released, Kind, Key, Email,
     TypeOK, KindsApart, Settled, Ended, InTx
<1>6. ASSUME NEW r \in Requests, CheckOwner(r) PROVE Settled'
  BY <1>0, <1>6, FormFields, RegistrationAssumption DEF CheckOwner, Go,
     identity, aim, bounds, ThrowLocked, TypeOK, KindsApart, Settled, Ended,
     InTx, Kind
<1>7. ASSUME NEW r \in Requests, CheckOwnerFails(r) PROVE Settled'
  BY <1>0, <1>7, FormFields, RegistrationAssumption DEF CheckOwnerFails, Go,
     identity, database, aim, Fault, bounds, ThrowLocked, TypeOK, KindsApart,
     Settled, Ended, InTx, Kind
<1>8. ASSUME NEW r \in Requests, BeginInstall(r) PROVE Settled'
  BY <1>0, <1>8, FormFields, RegistrationAssumption DEF BeginInstall, Go,
     identity, database, aim, bounds, TypeOK, KindsApart, Settled, Ended,
     InTx, Kind
<1>9. ASSUME NEW r \in Requests, CheckInstall(r) PROVE Settled'
  BY <1>0, <1>9, FormFields, RegistrationAssumption DEF CheckInstall, Go,
     identity, database, aim, bounds, TypeOK, KindsApart, Settled, Ended,
     InTx, Kind
<1>10. ASSUME NEW r \in Requests, CommitInstall(r) PROVE Settled'
  BY <1>0, <1>10, FormFields, RegistrationAssumption DEF CommitInstall, Go,
     identity, aim, bounds, TypeOK, KindsApart, Settled, Ended, InTx, Kind
<1>11. ASSUME NEW r \in Requests, AbortInstall(r) PROVE Settled'
  BY <1>0, <1>11, FormFields, RegistrationAssumption DEF AbortInstall, Aborts,
     identity, database, aim, bounds, Fault, TypeOK, KindsApart, Settled,
     Ended, InTx, Kind
<1>12. ASSUME NEW r \in Requests, SetClaims(r) PROVE Settled'
  BY <1>0, <1>12, FormFields, RegistrationAssumption DEF SetClaims, Go,
     identity, database, aim, bounds, TypeOK, KindsApart, Settled, Ended,
     InTx, Kind
<1>13. ASSUME NEW r \in Requests, SetClaimsFails(r) PROVE Settled'
  BY <1>0, <1>13, FormFields, RegistrationAssumption DEF SetClaimsFails, Go,
     identity, database, aim, Fault, bounds, TypeOK, KindsApart, Settled,
     Ended, InTx, Kind
<1>14. ASSUME NEW r \in Requests, CheckUserExists(r) PROVE Settled'
  BY <1>0, <1>14, FormFields, RegistrationAssumption DEF CheckUserExists, Go,
     identity, database, aim, bounds, Throw, Thrown, ThrowLocked, Kind, Email,
     Known, TypeOK, KindsApart, Settled, Ended, InTx
<1>15. ASSUME NEW r \in Requests, CheckAgain(r) PROVE Settled'
  BY <1>0, <1>15, FormFields, RegistrationAssumption DEF CheckAgain, Go,
     identity, database, bounds, Kind, Email, Known, TypeOK, KindsApart,
     Settled, Ended, InTx
<1>16. ASSUME NEW r \in Requests, ProvisionTenant(r) PROVE Settled'
  BY <1>0, <1>16, FormFields, RegistrationAssumption DEF ProvisionTenant, Go,
     database, aim, bounds, Kind, TypeOK, KindsApart, Settled, Ended, InTx
<1>17. ASSUME NEW r \in Requests, EarlyStepFails(r) PROVE Settled'
  BY <1>0, <1>17, FormFields, RegistrationAssumption DEF EarlyStepFails, Go,
     identity, database, aim, Fault, bounds, Throw, Thrown, ThrowLocked, Kind,
     TypeOK, KindsApart, Settled, Ended, InTx
<1>18. ASSUME NEW r \in Requests, CreateOrganization(r) PROVE Settled'
  BY <1>0, <1>18, FormFields, RegistrationAssumption DEF CreateOrganization,
     Go, identity, aim, bounds, TypeOK, KindsApart, Settled, Ended, InTx, Kind
<1>19. ASSUME NEW r \in Requests, CreateOrganizationFails(r) PROVE Settled'
  BY <1>0, <1>19, FormFields, RegistrationAssumption DEF
     CreateOrganizationFails, Go, identity, database, aim, bounds, Fault,
     ThrowLocked, TypeOK, KindsApart, Settled, Ended, InTx, Kind
<1>20. ASSUME NEW r \in Requests, ProvisionUser(r) PROVE Settled'
  BY <1>0, <1>20, FormFields, RegistrationAssumption DEF ProvisionUser, Go,
     database, aim, bounds, Kind, AccountExists, TypeOK, KindsApart, Settled,
     Ended, InTx
<1>21. ASSUME NEW r \in Requests, ProvisionUserFails(r) PROVE Settled'
  BY <1>0, <1>21, FormFields, RegistrationAssumption DEF ProvisionUserFails,
     Go, identity, database, aim, bounds, Fault, AfterAccount, Founds, TypeOK,
     KindsApart, Settled, Ended, InTx, Kind
<1>22. ASSUME NEW r \in Requests, CreateUser(r) PROVE Settled'
  BY <1>0, <1>22, FormFields, RegistrationAssumption DEF CreateUser, Go,
     identity, aim, bounds, Founds, TypeOK, KindsApart, Settled, Ended, InTx,
     Kind
<1>23. ASSUME NEW r \in Requests, CreateUserFails(r) PROVE Settled'
  BY <1>0, <1>23, FormFields, RegistrationAssumption DEF CreateUserFails, Go,
     identity, database, aim, Fault, bounds, TypeOK, KindsApart, Settled,
     Ended, InTx, Kind
<1>24. ASSUME NEW r \in Requests, RollbackUser(r) PROVE Settled'
  BY <1>0, <1>24, FormFields, RegistrationAssumption DEF RollbackUser, Go,
     database, aim, bounds, Fault, AfterAccount, Founds, TypeOK, KindsApart,
     Settled, Ended, InTx, Kind
<1>25. ASSUME NEW r \in Requests, RollbackTenant(r) PROVE Settled'
  BY <1>0, <1>25, FormFields, RegistrationAssumption DEF RollbackTenant, Go,
     identity, database, aim, bounds, Fault, DeleteTenant, Thrown,
     ThrowLocked, Kind, TypeOK, KindsApart, Settled, Ended, InTx
<1>26. ASSUME NEW r \in Requests, Crash(r) PROVE Settled'
  BY <1>0, <1>26, FormFields, RegistrationAssumption DEF Crash, Go, identity,
     database, aim, TypeOK, KindsApart, Settled, Ended, InTx, Kind
<1>27. ASSUME NEW k \in Keys, LockExpires(k) PROVE Settled'
  BY <1>0, <1>27, RegistrationAssumption DEF LockExpires, aim, identity,
     database, TypeOK, KindsApart, Settled, Ended, InTx, Kind
<1>28. ASSUME NEW r \in Requests, ProvisionTenantFails(r) PROVE Settled'
  BY <1>0, <1>28, FormFields, RegistrationAssumption DEF ProvisionTenantFails,
     Fault, ThrowLocked, Go, database, aim, bounds, Kind, TypeOK, KindsApart,
     Settled, Ended, InTx
<1>29. ASSUME NEW r \in Requests, ProvisionUserUnheard(r) PROVE Settled'
  BY <1>0, <1>29, FormFields, RegistrationAssumption DEF ProvisionUserUnheard,
     Fault, AfterAccount, Founds, Go, database, aim, bounds, Kind,
     AccountExists, TypeOK, KindsApart, Settled, Ended, InTx
<1>30. CASE UNCHANGED vars
  BY <1>0, <1>30 DEF vars, aim, identity, database, bounds, TypeOK,
     KindsApart, Settled, Ended, InTx, Kind
<1> QED
  BY <1>1, <1>2, <1>3, <1>4, <1>5, <1>6, <1>7, <1>8, <1>9, <1>10, <1>11,
     <1>12, <1>13, <1>14, <1>15, <1>16, <1>17, <1>18, <1>19, <1>20, <1>21,
     <1>22, <1>23, <1>24, <1>25, <1>26, <1>27, <1>28, <1>29,
     <1>30
  DEF Next, Step, LockStep, InstallStep, RegisterStep

\* A step leads on with the account and the tenant it needs.
LEMMA EquippedPreserved ==
    ASSUME IInv, [Next]_vars PROVE Equipped'
<1>0. TypeOK /\ KindsApart /\ Placed /\ Equipped
  BY DEF IInv
<1>1. ASSUME NEW r \in Requests, AcquireLock(r) PROVE Equipped'
  BY <1>0, <1>1, FormFields, RegistrationAssumption DEF AcquireLock, Go,
     identity, database, aim, bounds, Key, Kind, Email, TypeOK, KindsApart,
     Placed, Equipped, Held, InTx
<1>2. ASSUME NEW r \in Requests, LockTimesOut(r) PROVE Equipped'
  BY <1>0, <1>2, FormFields, RegistrationAssumption DEF LockTimesOut, Go,
     identity, database, aim, bounds, Key, Kind, Email, TypeOK, KindsApart,
     Placed, Equipped, Held, InTx
<1>3. ASSUME NEW r \in Requests, AcquireFails(r) PROVE Equipped'
  BY <1>0, <1>3, FormFields, RegistrationAssumption DEF AcquireFails, Go,
     identity, database, aim, Fault, bounds, Key, Email, TypeOK, KindsApart,
     Placed, Equipped, Held, InTx, Kind
<1>4. ASSUME NEW r \in Requests, ReleaseLock(r) PROVE Equipped'
  BY <1>0, <1>4, FormFields, RegistrationAssumption DEF ReleaseLock, Go,
     identity, database, aim, bounds, Released, Key, Kind, Email, TypeOK,
     KindsApart, Placed, Equipped, Held, InTx
<1>5. ASSUME NEW r \in Requests, ReleaseFails(r) PROVE Equipped'
  BY <1>0, <1>5, FormFields, RegistrationAssumption DEF ReleaseFails, Go,
     identity, database, aim, Fault, bounds, Released, Kind, Key, Email,
     TypeOK, KindsApart, Placed, Equipped, Held, InTx
<1>6. ASSUME NEW r \in Requests, CheckOwner(r) PROVE Equipped'
  BY <1>0, <1>6, FormFields, RegistrationAssumption DEF CheckOwner, Go,
     identity, aim, bounds, ThrowLocked, TypeOK, KindsApart, Placed, Equipped,
     Held, InTx, Kind
<1>7. ASSUME NEW r \in Requests, CheckOwnerFails(r) PROVE Equipped'
  BY <1>0, <1>7, FormFields, RegistrationAssumption DEF CheckOwnerFails, Go,
     identity, database, aim, Fault, bounds, ThrowLocked, TypeOK, KindsApart,
     Placed, Equipped, Held, InTx, Kind
<1>8. ASSUME NEW r \in Requests, BeginInstall(r) PROVE Equipped'
  BY <1>0, <1>8, FormFields, RegistrationAssumption DEF BeginInstall, Go,
     identity, database, aim, bounds, TypeOK, KindsApart, Placed, Equipped,
     Held, InTx, Kind
<1>9. ASSUME NEW r \in Requests, CheckInstall(r) PROVE Equipped'
  BY <1>0, <1>9, FormFields, RegistrationAssumption DEF CheckInstall, Go,
     identity, database, aim, bounds, TypeOK, KindsApart, Placed, Equipped,
     Held, InTx, Kind
<1>10. ASSUME NEW r \in Requests, CommitInstall(r) PROVE Equipped'
  BY <1>0, <1>10, FormFields, RegistrationAssumption DEF CommitInstall, Go,
     identity, aim, bounds, TypeOK, KindsApart, Placed, Equipped, Held, InTx,
     Kind
<1>11. ASSUME NEW r \in Requests, AbortInstall(r) PROVE Equipped'
  BY <1>0, <1>11, FormFields, RegistrationAssumption DEF AbortInstall, Aborts,
     identity, database, aim, bounds, Fault, TypeOK, KindsApart, Placed,
     Equipped, Held, InTx, Kind
<1>12. ASSUME NEW r \in Requests, SetClaims(r) PROVE Equipped'
  BY <1>0, <1>12, FormFields, RegistrationAssumption DEF SetClaims, Go,
     identity, database, aim, bounds, TypeOK, KindsApart, Placed, Equipped,
     Held, InTx, Kind
<1>13. ASSUME NEW r \in Requests, SetClaimsFails(r) PROVE Equipped'
  BY <1>0, <1>13, FormFields, RegistrationAssumption DEF SetClaimsFails, Go,
     identity, database, aim, Fault, bounds, TypeOK, KindsApart, Placed,
     Equipped, Held, InTx, Kind
<1>14. ASSUME NEW r \in Requests, CheckUserExists(r) PROVE Equipped'
  BY <1>0, <1>14, FormFields, RegistrationAssumption DEF CheckUserExists, Go,
     identity, database, aim, bounds, Throw, Thrown, ThrowLocked, Kind, Email,
     Known, TypeOK, KindsApart, Placed, Equipped, Held, InTx
<1>15. ASSUME NEW r \in Requests, CheckAgain(r) PROVE Equipped'
  BY <1>0, <1>15, FormFields, RegistrationAssumption DEF CheckAgain, Go,
     identity, database, bounds, Kind, Email, Known, TypeOK, KindsApart,
     Placed, Equipped, Held, InTx
<1>16. ASSUME NEW r \in Requests, ProvisionTenant(r) PROVE Equipped'
  BY <1>0, <1>16, FormFields, RegistrationAssumption DEF ProvisionTenant, Go,
     database, aim, bounds, Kind, TypeOK, KindsApart, Placed, Equipped, Held,
     InTx
<1>17. ASSUME NEW r \in Requests, EarlyStepFails(r) PROVE Equipped'
  BY <1>0, <1>17, FormFields, RegistrationAssumption DEF EarlyStepFails, Go,
     identity, database, aim, Fault, bounds, Throw, Thrown, ThrowLocked, Kind,
     TypeOK, KindsApart, Placed, Equipped, Held, InTx
<1>18. ASSUME NEW r \in Requests, CreateOrganization(r) PROVE Equipped'
  BY <1>0, <1>18, FormFields, RegistrationAssumption DEF CreateOrganization,
     Go, identity, aim, bounds, TypeOK, KindsApart, Placed, Equipped, Held,
     InTx, Kind
<1>19. ASSUME NEW r \in Requests, CreateOrganizationFails(r) PROVE Equipped'
  BY <1>0, <1>19, FormFields, RegistrationAssumption DEF
     CreateOrganizationFails, Go, identity, database, aim, bounds, Fault,
     ThrowLocked, TypeOK, KindsApart, Placed, Equipped, Held, InTx, Kind
<1>20. ASSUME NEW r \in Requests, ProvisionUser(r) PROVE Equipped'
  BY <1>0, <1>20, FormFields, RegistrationAssumption DEF ProvisionUser, Go,
     database, aim, bounds, Kind, AccountExists, TypeOK, KindsApart, Placed,
     Equipped, Held, InTx
<1>21. ASSUME NEW r \in Requests, ProvisionUserFails(r) PROVE Equipped'
  BY <1>0, <1>21, FormFields, RegistrationAssumption DEF ProvisionUserFails,
     Go, identity, database, aim, bounds, Fault, AfterAccount, Founds, TypeOK,
     KindsApart, Placed, Equipped, Held, InTx, Kind
<1>22. ASSUME NEW r \in Requests, CreateUser(r) PROVE Equipped'
  BY <1>0, <1>22, FormFields, RegistrationAssumption DEF CreateUser, Go,
     identity, aim, bounds, Founds, TypeOK, KindsApart, Placed, Equipped,
     Held, InTx, Kind
<1>23. ASSUME NEW r \in Requests, CreateUserFails(r) PROVE Equipped'
  BY <1>0, <1>23, FormFields, RegistrationAssumption DEF CreateUserFails, Go,
     identity, database, aim, Fault, bounds, TypeOK, KindsApart, Placed,
     Equipped, Held, InTx, Kind
<1>24. ASSUME NEW r \in Requests, RollbackUser(r) PROVE Equipped'
  BY <1>0, <1>24, FormFields, RegistrationAssumption DEF RollbackUser, Go,
     database, aim, bounds, Fault, AfterAccount, Founds, TypeOK, KindsApart,
     Placed, Equipped, Held, InTx, Kind
<1>25. ASSUME NEW r \in Requests, RollbackTenant(r) PROVE Equipped'
  BY <1>0, <1>25, FormFields, RegistrationAssumption DEF RollbackTenant, Go,
     identity, database, aim, bounds, Fault, DeleteTenant, Thrown,
     ThrowLocked, Kind, TypeOK, KindsApart, Placed, Equipped, Held, InTx
<1>26. ASSUME NEW r \in Requests, Crash(r) PROVE Equipped'
  BY <1>0, <1>26, FormFields, RegistrationAssumption DEF Crash, Go, identity,
     database, aim, TypeOK, KindsApart, Placed, Equipped, Held, InTx, Kind
<1>27. ASSUME NEW k \in Keys, LockExpires(k) PROVE Equipped'
  BY <1>0, <1>27, RegistrationAssumption DEF LockExpires, aim, identity,
     database, TypeOK, KindsApart, Placed, Equipped, Held, InTx, Kind
<1>28. ASSUME NEW r \in Requests, ProvisionTenantFails(r) PROVE Equipped'
  BY <1>0, <1>28, FormFields, RegistrationAssumption DEF ProvisionTenantFails,
     Fault, ThrowLocked, Go, database, aim, bounds, Kind, TypeOK, KindsApart,
     Placed, Equipped, Held, InTx
<1>29. ASSUME NEW r \in Requests, ProvisionUserUnheard(r) PROVE Equipped'
  BY <1>0, <1>29, FormFields, RegistrationAssumption DEF ProvisionUserUnheard,
     Fault, AfterAccount, Founds, Go, database, aim, bounds, Kind,
     AccountExists, TypeOK, KindsApart, Placed, Equipped, Held, InTx
<1>30. CASE UNCHANGED vars
  BY <1>0, <1>30 DEF vars, aim, identity, database, bounds, TypeOK,
     KindsApart, Placed, Equipped, Held, InTx, Kind
<1> QED
  BY <1>1, <1>2, <1>3, <1>4, <1>5, <1>6, <1>7, <1>8, <1>9, <1>10, <1>11,
     <1>12, <1>13, <1>14, <1>15, <1>16, <1>17, <1>18, <1>19, <1>20, <1>21,
     <1>22, <1>23, <1>24, <1>25, <1>26, <1>27, <1>28, <1>29,
     <1>30
  DEF Next, Step, LockStep, InstallStep, RegisterStep

\* Accounts are created by their step only.
LEMMA NoAccountPreserved ==
    ASSUME IInv, [Next]_vars PROVE NoAccountYet'
<1>0. TypeOK /\ KindsApart /\ NoAccountYet
  BY DEF IInv
<1>1. ASSUME NEW r \in Requests, AcquireLock(r) PROVE NoAccountYet'
  BY <1>0, <1>1, FormFields, RegistrationAssumption DEF AcquireLock, Go,
     identity, database, aim, bounds, Key, Kind, Email, TypeOK, KindsApart,
     NoAccountYet
<1>2. ASSUME NEW r \in Requests, LockTimesOut(r) PROVE NoAccountYet'
  BY <1>0, <1>2, FormFields, RegistrationAssumption DEF LockTimesOut, Go,
     identity, database, aim, bounds, Key, Kind, Email, TypeOK, KindsApart,
     NoAccountYet
<1>3. ASSUME NEW r \in Requests, AcquireFails(r) PROVE NoAccountYet'
  BY <1>0, <1>3, FormFields, RegistrationAssumption DEF AcquireFails, Go,
     identity, database, aim, Fault, bounds, Key, Email, TypeOK, KindsApart,
     NoAccountYet, Kind
<1>4. ASSUME NEW r \in Requests, ReleaseLock(r) PROVE NoAccountYet'
  BY <1>0, <1>4, FormFields, RegistrationAssumption DEF ReleaseLock, Go,
     identity, database, aim, bounds, Released, Key, Kind, Email, TypeOK,
     KindsApart, NoAccountYet
<1>5. ASSUME NEW r \in Requests, ReleaseFails(r) PROVE NoAccountYet'
  BY <1>0, <1>5, FormFields, RegistrationAssumption DEF ReleaseFails, Go,
     identity, database, aim, Fault, bounds, Released, Kind, Key, Email,
     TypeOK, KindsApart, NoAccountYet
<1>6. ASSUME NEW r \in Requests, CheckOwner(r) PROVE NoAccountYet'
  BY <1>0, <1>6, FormFields, RegistrationAssumption DEF CheckOwner, Go,
     identity, aim, bounds, ThrowLocked, TypeOK, KindsApart, NoAccountYet,
     Kind
<1>7. ASSUME NEW r \in Requests, CheckOwnerFails(r) PROVE NoAccountYet'
  BY <1>0, <1>7, FormFields, RegistrationAssumption DEF CheckOwnerFails, Go,
     identity, database, aim, Fault, bounds, ThrowLocked, TypeOK, KindsApart,
     NoAccountYet, Kind
<1>8. ASSUME NEW r \in Requests, BeginInstall(r) PROVE NoAccountYet'
  BY <1>0, <1>8, FormFields, RegistrationAssumption DEF BeginInstall, Go,
     identity, database, aim, bounds, TypeOK, KindsApart, NoAccountYet, Kind
<1>9. ASSUME NEW r \in Requests, CheckInstall(r) PROVE NoAccountYet'
  BY <1>0, <1>9, FormFields, RegistrationAssumption DEF CheckInstall, Go,
     identity, database, aim, bounds, TypeOK, KindsApart, NoAccountYet, Kind
<1>10. ASSUME NEW r \in Requests, CommitInstall(r) PROVE NoAccountYet'
  BY <1>0, <1>10, FormFields, RegistrationAssumption DEF CommitInstall, Go,
     identity, aim, bounds, TypeOK, KindsApart, NoAccountYet, Kind
<1>11. ASSUME NEW r \in Requests, AbortInstall(r) PROVE NoAccountYet'
  BY <1>0, <1>11, FormFields, RegistrationAssumption DEF AbortInstall, Aborts,
     identity, database, aim, bounds, Fault, TypeOK, KindsApart, NoAccountYet,
     Kind
<1>12. ASSUME NEW r \in Requests, SetClaims(r) PROVE NoAccountYet'
  BY <1>0, <1>12, FormFields, RegistrationAssumption DEF SetClaims, Go,
     identity, database, aim, bounds, TypeOK, KindsApart, NoAccountYet, Kind
<1>13. ASSUME NEW r \in Requests, SetClaimsFails(r) PROVE NoAccountYet'
  BY <1>0, <1>13, FormFields, RegistrationAssumption DEF SetClaimsFails, Go,
     identity, database, aim, Fault, bounds, TypeOK, KindsApart, NoAccountYet,
     Kind
<1>14. ASSUME NEW r \in Requests, CheckUserExists(r) PROVE NoAccountYet'
  BY <1>0, <1>14, FormFields, RegistrationAssumption DEF CheckUserExists, Go,
     identity, database, aim, bounds, Throw, Thrown, ThrowLocked, Kind, Email,
     Known, TypeOK, KindsApart, NoAccountYet
<1>15. ASSUME NEW r \in Requests, CheckAgain(r) PROVE NoAccountYet'
  BY <1>0, <1>15, FormFields, RegistrationAssumption DEF CheckAgain, Go,
     identity, database, bounds, Kind, Email, Known, TypeOK, KindsApart,
     NoAccountYet
<1>16. ASSUME NEW r \in Requests, ProvisionTenant(r) PROVE NoAccountYet'
  BY <1>0, <1>16, FormFields, RegistrationAssumption DEF ProvisionTenant, Go,
     database, aim, bounds, Kind, TypeOK, KindsApart, NoAccountYet
<1>17. ASSUME NEW r \in Requests, EarlyStepFails(r) PROVE NoAccountYet'
  BY <1>0, <1>17, FormFields, RegistrationAssumption DEF EarlyStepFails, Go,
     identity, database, aim, Fault, bounds, Throw, Thrown, ThrowLocked, Kind,
     TypeOK, KindsApart, NoAccountYet
<1>18. ASSUME NEW r \in Requests, CreateOrganization(r) PROVE NoAccountYet'
  BY <1>0, <1>18, FormFields, RegistrationAssumption DEF CreateOrganization,
     Go, identity, aim, bounds, TypeOK, KindsApart, NoAccountYet, Kind
<1>19. ASSUME NEW r \in Requests, CreateOrganizationFails(r) PROVE NoAccountYet'
  BY <1>0, <1>19, FormFields, RegistrationAssumption DEF
     CreateOrganizationFails, Go, identity, database, aim, bounds, Fault,
     ThrowLocked, TypeOK, KindsApart, NoAccountYet, Kind
<1>20. ASSUME NEW r \in Requests, ProvisionUser(r) PROVE NoAccountYet'
  BY <1>0, <1>20, FormFields, RegistrationAssumption DEF ProvisionUser, Go,
     database, aim, bounds, Kind, AccountExists, TypeOK, KindsApart,
     NoAccountYet
<1>21. ASSUME NEW r \in Requests, ProvisionUserFails(r) PROVE NoAccountYet'
  BY <1>0, <1>21, FormFields, RegistrationAssumption DEF ProvisionUserFails,
     Go, identity, database, aim, bounds, Fault, AfterAccount, Founds, TypeOK,
     KindsApart, NoAccountYet, Kind
<1>22. ASSUME NEW r \in Requests, CreateUser(r) PROVE NoAccountYet'
  BY <1>0, <1>22, FormFields, RegistrationAssumption DEF CreateUser, Go,
     identity, aim, bounds, Founds, TypeOK, KindsApart, NoAccountYet, Kind
<1>23. ASSUME NEW r \in Requests, CreateUserFails(r) PROVE NoAccountYet'
  BY <1>0, <1>23, FormFields, RegistrationAssumption DEF CreateUserFails, Go,
     identity, database, aim, Fault, bounds, TypeOK, KindsApart, NoAccountYet,
     Kind
<1>24. ASSUME NEW r \in Requests, RollbackUser(r) PROVE NoAccountYet'
  BY <1>0, <1>24, FormFields, RegistrationAssumption DEF RollbackUser, Go,
     database, aim, bounds, Fault, AfterAccount, Founds, TypeOK, KindsApart,
     NoAccountYet, Kind
<1>25. ASSUME NEW r \in Requests, RollbackTenant(r) PROVE NoAccountYet'
  BY <1>0, <1>25, FormFields, RegistrationAssumption DEF RollbackTenant, Go,
     identity, database, aim, bounds, Fault, DeleteTenant, Thrown,
     ThrowLocked, Kind, TypeOK, KindsApart, NoAccountYet
<1>26. ASSUME NEW r \in Requests, Crash(r) PROVE NoAccountYet'
  BY <1>0, <1>26, FormFields, RegistrationAssumption DEF Crash, Go, identity,
     database, aim, TypeOK, KindsApart, NoAccountYet, Kind
<1>27. ASSUME NEW k \in Keys, LockExpires(k) PROVE NoAccountYet'
  BY <1>0, <1>27, RegistrationAssumption DEF LockExpires, aim, identity,
     database, TypeOK, KindsApart, NoAccountYet, Kind
<1>28. ASSUME NEW r \in Requests, ProvisionTenantFails(r) PROVE NoAccountYet'
  BY <1>0, <1>28, FormFields, RegistrationAssumption DEF ProvisionTenantFails,
     Fault, ThrowLocked, Go, database, aim, bounds, Kind, TypeOK, KindsApart,
     NoAccountYet
<1>29. ASSUME NEW r \in Requests, ProvisionUserUnheard(r) PROVE NoAccountYet'
  BY <1>0, <1>29, FormFields, RegistrationAssumption DEF ProvisionUserUnheard,
     Fault, AfterAccount, Founds, Go, database, aim, bounds, Kind,
     AccountExists, TypeOK, KindsApart, NoAccountYet
<1>30. CASE UNCHANGED vars
  BY <1>0, <1>30 DEF vars, aim, identity, database, bounds, TypeOK,
     KindsApart, NoAccountYet, Kind
<1> QED
  BY <1>1, <1>2, <1>3, <1>4, <1>5, <1>6, <1>7, <1>8, <1>9, <1>10, <1>11,
     <1>12, <1>13, <1>14, <1>15, <1>16, <1>17, <1>18, <1>19, <1>20, <1>21,
     <1>22, <1>23, <1>24, <1>25, <1>26, <1>27, <1>28, <1>29,
     <1>30
  DEF Next, Step, LockStep, InstallStep, RegisterStep

\* No request is rejected with an account of its own.
LEMMA UndonePreserved ==
    ASSUME IInv, [Next]_vars PROVE Undone'
<1>0. TypeOK /\ KindsApart /\ Placed /\ NoAccountYet /\ Undone /\ Throwing
  BY DEF IInv
<1>1. ASSUME NEW r \in Requests, AcquireLock(r) PROVE Undone'
  BY <1>0, <1>1, FormFields, RegistrationAssumption DEF AcquireLock, Go,
     identity, database, aim, leftovers, bounds, Key, Kind, Email, TypeOK,
     KindsApart, Placed, NoAccountYet, Undone, Throwing
<1>2. ASSUME NEW r \in Requests, LockTimesOut(r) PROVE Undone'
  BY <1>0, <1>2, FormFields, RegistrationAssumption DEF LockTimesOut, Go,
     identity, database, aim, leftovers, bounds, Key, Kind, Email, TypeOK,
     KindsApart, Placed, NoAccountYet, Undone, Throwing
<1>3. ASSUME NEW r \in Requests, AcquireFails(r) PROVE Undone'
  BY <1>0, <1>3, FormFields, RegistrationAssumption DEF AcquireFails, Go,
     identity, database, aim, leftovers, Fault, bounds, Key, Email, TypeOK,
     KindsApart, Placed, NoAccountYet, Undone, Throwing, Kind
<1>4. ASSUME NEW r \in Requests, ReleaseLock(r) PROVE Undone'
  BY <1>0, <1>4, FormFields, RegistrationAssumption DEF ReleaseLock, Go,
     identity, database, aim, leftovers, bounds, Released, Key, Kind, Email,
     TypeOK, KindsApart, Placed, NoAccountYet, Undone, Throwing
<1>5. ASSUME NEW r \in Requests, ReleaseFails(r) PROVE Undone'
  BY <1>0, <1>5, FormFields, RegistrationAssumption DEF ReleaseFails, Go,
     identity, database, aim, leftovers, Fault, bounds, Released, Kind, Key,
     Email, TypeOK, KindsApart, Placed, NoAccountYet, Undone, Throwing
<1>6. ASSUME NEW r \in Requests, CheckOwner(r) PROVE Undone'
  BY <1>0, <1>6, FormFields, RegistrationAssumption DEF CheckOwner, Go,
     identity, aim, leftovers, bounds, ThrowLocked, TypeOK, KindsApart, Placed,
     NoAccountYet, Undone, Throwing, Kind
<1>7. ASSUME NEW r \in Requests, CheckOwnerFails(r) PROVE Undone'
  BY <1>0, <1>7, FormFields, RegistrationAssumption DEF CheckOwnerFails, Go,
     identity, database, aim, leftovers, Fault, bounds, ThrowLocked, TypeOK,
     KindsApart, Placed, NoAccountYet, Undone, Throwing, Kind
<1>8. ASSUME NEW r \in Requests, BeginInstall(r) PROVE Undone'
  BY <1>0, <1>8, FormFields, RegistrationAssumption DEF BeginInstall, Go,
     identity, database, aim, leftovers, bounds, TypeOK, KindsApart, Placed,
     NoAccountYet, Undone, Throwing, Kind
<1>9. ASSUME NEW r \in Requests, CheckInstall(r) PROVE Undone'
  BY <1>0, <1>9, FormFields, RegistrationAssumption DEF CheckInstall, Go,
     identity, database, aim, leftovers, bounds, TypeOK, KindsApart, Placed,
     NoAccountYet, Undone, Throwing, Kind
<1>10. ASSUME NEW r \in Requests, CommitInstall(r) PROVE Undone'
  BY <1>0, <1>10, FormFields, RegistrationAssumption DEF CommitInstall, Go,
     identity, aim, leftovers, bounds, TypeOK, KindsApart, Placed,
     NoAccountYet, Undone, Throwing, Kind
<1>11. ASSUME NEW r \in Requests, AbortInstall(r) PROVE Undone'
  BY <1>0, <1>11, FormFields, RegistrationAssumption DEF AbortInstall, Aborts,
     identity, database, aim, leftovers, bounds, Fault, TypeOK, KindsApart,
     Placed, NoAccountYet, Undone, Throwing, Kind
<1>12. ASSUME NEW r \in Requests, SetClaims(r) PROVE Undone'
  BY <1>0, <1>12, FormFields, RegistrationAssumption DEF SetClaims, Go,
     identity, database, aim, leftovers, bounds, TypeOK, KindsApart, Placed,
     NoAccountYet, Undone, Throwing, Kind
<1>13. ASSUME NEW r \in Requests, SetClaimsFails(r) PROVE Undone'
  BY <1>0, <1>13, FormFields, RegistrationAssumption DEF SetClaimsFails, Go,
     identity, database, aim, leftovers, Fault, bounds, TypeOK, KindsApart,
     Placed, NoAccountYet, Undone, Throwing, Kind
<1>14. ASSUME NEW r \in Requests, CheckUserExists(r) PROVE Undone'
  BY <1>0, <1>14, FormFields, RegistrationAssumption DEF CheckUserExists, Go,
     identity, database, aim, leftovers, bounds, Throw, Thrown, ThrowLocked,
     Kind, Email, Known, TypeOK, KindsApart, Placed, NoAccountYet, Undone,
     Throwing
<1>15. ASSUME NEW r \in Requests, CheckAgain(r) PROVE Undone'
  BY <1>0, <1>15, FormFields, RegistrationAssumption DEF CheckAgain, Go,
     identity, database, leftovers, bounds, Kind, Email, Known, TypeOK,
     KindsApart, Placed, NoAccountYet, Undone, Throwing
<1>16. ASSUME NEW r \in Requests, ProvisionTenant(r) PROVE Undone'
  BY <1>0, <1>16, FormFields, RegistrationAssumption DEF ProvisionTenant, Go,
     database, aim, leftovers, bounds, Kind, TypeOK, KindsApart, Placed,
     NoAccountYet, Undone, Throwing
<1>17. ASSUME NEW r \in Requests, EarlyStepFails(r) PROVE Undone'
  BY <1>0, <1>17, FormFields, RegistrationAssumption DEF EarlyStepFails, Go,
     identity, database, aim, leftovers, Fault, bounds, Throw, Thrown,
     ThrowLocked, Kind, TypeOK, KindsApart, Placed, NoAccountYet, Undone,
     Throwing
<1>18. ASSUME NEW r \in Requests, CreateOrganization(r) PROVE Undone'
  BY <1>0, <1>18, FormFields, RegistrationAssumption DEF CreateOrganization,
     Go, identity, aim, leftovers, bounds, TypeOK, KindsApart, Placed,
     NoAccountYet, Undone, Throwing, Kind
<1>19. ASSUME NEW r \in Requests, CreateOrganizationFails(r) PROVE Undone'
  BY <1>0, <1>19, FormFields, RegistrationAssumption DEF
     CreateOrganizationFails, Go, identity, database, aim, leftovers, bounds,
     Fault, ThrowLocked, TypeOK, KindsApart, Placed, NoAccountYet, Undone,
     Throwing, Kind
<1>20. ASSUME NEW r \in Requests, ProvisionUser(r) PROVE Undone'
  BY <1>0, <1>20, FormFields, RegistrationAssumption DEF ProvisionUser, Go,
     database, aim, leftovers, bounds, Kind, AccountExists, TypeOK,
     KindsApart, Placed, NoAccountYet, Undone, Throwing
<1>21. ASSUME NEW r \in Requests, ProvisionUserFails(r) PROVE Undone'
  BY <1>0, <1>21, FormFields, RegistrationAssumption DEF ProvisionUserFails,
     Go, identity, database, aim, leftovers, bounds, Fault, AfterAccount,
     Founds, TypeOK, KindsApart, Placed, NoAccountYet, Undone, Throwing, Kind
<1>22. ASSUME NEW r \in Requests, CreateUser(r) PROVE Undone'
  BY <1>0, <1>22, FormFields, RegistrationAssumption DEF CreateUser, Go,
     identity, aim, leftovers, bounds, Founds, TypeOK, KindsApart, Placed,
     NoAccountYet, Undone, Throwing, Kind
<1>23. ASSUME NEW r \in Requests, CreateUserFails(r) PROVE Undone'
  BY <1>0, <1>23, FormFields, RegistrationAssumption DEF CreateUserFails, Go,
     identity, database, aim, leftovers, Fault, bounds, TypeOK, KindsApart,
     Placed, NoAccountYet, Undone, Throwing, Kind
<1>24. ASSUME NEW r \in Requests, RollbackUser(r) PROVE Undone'
  BY <1>0, <1>24, FormFields, RegistrationAssumption DEF RollbackUser, Go,
     database, aim, leftovers, bounds, Fault, AfterAccount, Founds, TypeOK,
     KindsApart, Placed, NoAccountYet, Undone, Throwing, Kind
<1>25. ASSUME NEW r \in Requests, RollbackTenant(r) PROVE Undone'
  BY <1>0, <1>25, FormFields, RegistrationAssumption DEF RollbackTenant, Go,
     identity, database, aim, leftovers, bounds, Fault, DeleteTenant, Thrown,
     ThrowLocked, Kind, TypeOK, KindsApart, Placed, NoAccountYet, Undone,
     Throwing
<1>26. ASSUME NEW r \in Requests, Crash(r) PROVE Undone'
  BY <1>0, <1>26, FormFields, RegistrationAssumption DEF Crash, Go, identity,
     database, aim, leftovers, TypeOK, KindsApart, Placed, NoAccountYet,
     Undone, Throwing, Kind
<1>27. ASSUME NEW k \in Keys, LockExpires(k) PROVE Undone'
  BY <1>0, <1>27, RegistrationAssumption DEF LockExpires, aim, identity,
     database, leftovers, TypeOK, KindsApart, Placed, NoAccountYet, Undone,
     Throwing, Kind
<1>28. ASSUME NEW r \in Requests, ProvisionTenantFails(r) PROVE Undone'
  BY <1>0, <1>28, FormFields, RegistrationAssumption DEF ProvisionTenantFails,
     Fault, ThrowLocked, Go, database, aim, leftovers, bounds, Kind, TypeOK,
     KindsApart, Placed, NoAccountYet, Undone, Throwing
<1>29. ASSUME NEW r \in Requests, ProvisionUserUnheard(r) PROVE Undone'
  BY <1>0, <1>29, FormFields, RegistrationAssumption DEF ProvisionUserUnheard,
     Fault, AfterAccount, Founds, Go, database, aim, leftovers, bounds, Kind,
     AccountExists, TypeOK, KindsApart, Placed, NoAccountYet, Undone, Throwing
<1>30. CASE UNCHANGED vars
  BY <1>0, <1>30 DEF vars, aim, identity, database, leftovers, bounds, TypeOK,
     KindsApart, Placed, NoAccountYet, Undone, Throwing, Kind
<1> QED
  BY <1>1, <1>2, <1>3, <1>4, <1>5, <1>6, <1>7, <1>8, <1>9, <1>10, <1>11,
     <1>12, <1>13, <1>14, <1>15, <1>16, <1>17, <1>18, <1>19, <1>20, <1>21,
     <1>22, <1>23, <1>24, <1>25, <1>26, <1>27, <1>28, <1>29,
     <1>30
  DEF Next, Step, LockStep, InstallStep, RegisterStep

\* What is thrown with a lock held leads to its release.
LEMMA ThrowingPreserved ==
    ASSUME IInv, [Next]_vars PROVE Throwing'
<1>0. TypeOK /\ Throwing
  BY DEF IInv
<1>1. ASSUME NEW r \in Requests, AcquireLock(r) PROVE Throwing'
  BY <1>0, <1>1, FormFields, RegistrationAssumption DEF AcquireLock, Go,
     identity, database, aim, bounds, Key, Kind, Email, TypeOK, Throwing, InTx
<1>2. ASSUME NEW r \in Requests, LockTimesOut(r) PROVE Throwing'
  BY <1>0, <1>2, FormFields, RegistrationAssumption DEF LockTimesOut, Go,
     identity, database, aim, bounds, Key, Kind, Email, TypeOK, Throwing, InTx
<1>3. ASSUME NEW r \in Requests, AcquireFails(r) PROVE Throwing'
  BY <1>0, <1>3, FormFields, RegistrationAssumption DEF AcquireFails, Go,
     identity, database, aim, Fault, bounds, Key, Email, Kind, TypeOK,
     Throwing, InTx
<1>4. ASSUME NEW r \in Requests, ReleaseLock(r) PROVE Throwing'
  BY <1>0, <1>4, FormFields, RegistrationAssumption DEF ReleaseLock, Go,
     identity, database, aim, bounds, Released, Key, Kind, Email, TypeOK,
     Throwing, InTx
<1>5. ASSUME NEW r \in Requests, ReleaseFails(r) PROVE Throwing'
  BY <1>0, <1>5, FormFields, RegistrationAssumption DEF ReleaseFails, Go,
     identity, database, aim, Fault, bounds, Released, Kind, Key, Email,
     TypeOK, Throwing, InTx
<1>6. ASSUME NEW r \in Requests, CheckOwner(r) PROVE Throwing'
  BY <1>0, <1>6, FormFields, RegistrationAssumption DEF CheckOwner, Go,
     identity, aim, bounds, ThrowLocked, TypeOK, Throwing, InTx
<1>7. ASSUME NEW r \in Requests, CheckOwnerFails(r) PROVE Throwing'
  BY <1>0, <1>7, FormFields, RegistrationAssumption DEF CheckOwnerFails, Go,
     identity, database, aim, Fault, bounds, ThrowLocked, TypeOK, Throwing,
     InTx
<1>8. ASSUME NEW r \in Requests, BeginInstall(r) PROVE Throwing'
  BY <1>0, <1>8, FormFields, RegistrationAssumption DEF BeginInstall, Go,
     identity, database, aim, bounds, TypeOK, Throwing, InTx
<1>9. ASSUME NEW r \in Requests, CheckInstall(r) PROVE Throwing'
  BY <1>0, <1>9, FormFields, RegistrationAssumption DEF CheckInstall, Go,
     identity, database, aim, bounds, TypeOK, Throwing, InTx
<1>10. ASSUME NEW r \in Requests, CommitInstall(r) PROVE Throwing'
  BY <1>0, <1>10, FormFields, RegistrationAssumption DEF CommitInstall, Go,
     identity, aim, bounds, TypeOK, Throwing, InTx
<1>11. ASSUME NEW r \in Requests, AbortInstall(r) PROVE Throwing'
  BY <1>0, <1>11, FormFields, RegistrationAssumption DEF AbortInstall, Aborts,
     identity, database, aim, bounds, Fault, TypeOK, Throwing, InTx
<1>12. ASSUME NEW r \in Requests, SetClaims(r) PROVE Throwing'
  BY <1>0, <1>12, FormFields, RegistrationAssumption DEF SetClaims, Go,
     identity, database, aim, bounds, TypeOK, Throwing, InTx
<1>13. ASSUME NEW r \in Requests, SetClaimsFails(r) PROVE Throwing'
  BY <1>0, <1>13, FormFields, RegistrationAssumption DEF SetClaimsFails, Go,
     identity, database, aim, Fault, bounds, TypeOK, Throwing, InTx
<1>14. ASSUME NEW r \in Requests, CheckUserExists(r) PROVE Throwing'
  BY <1>0, <1>14, FormFields, RegistrationAssumption DEF CheckUserExists, Go,
     identity, database, aim, bounds, Throw, Thrown, ThrowLocked, Kind, Email,
     Known, TypeOK, Throwing, InTx
<1>15. ASSUME NEW r \in Requests, CheckAgain(r) PROVE Throwing'
  BY <1>0, <1>15, FormFields, RegistrationAssumption DEF CheckAgain, Go,
     identity, database, bounds, Kind, Email, Known, TypeOK, Throwing, InTx
<1>16. ASSUME NEW r \in Requests, ProvisionTenant(r) PROVE Throwing'
  BY <1>0, <1>16, FormFields, RegistrationAssumption DEF ProvisionTenant, Go,
     database, aim, bounds, Kind, TypeOK, Throwing, InTx
<1>17. ASSUME NEW r \in Requests, EarlyStepFails(r) PROVE Throwing'
  BY <1>0, <1>17, FormFields, RegistrationAssumption DEF EarlyStepFails, Go,
     identity, database, aim, Fault, bounds, Throw, Thrown, ThrowLocked, Kind,
     TypeOK, Throwing, InTx
<1>18. ASSUME NEW r \in Requests, CreateOrganization(r) PROVE Throwing'
  BY <1>0, <1>18, FormFields, RegistrationAssumption DEF CreateOrganization,
     Go, identity, aim, bounds, TypeOK, Throwing, InTx
<1>19. ASSUME NEW r \in Requests, CreateOrganizationFails(r) PROVE Throwing'
  BY <1>0, <1>19, FormFields, RegistrationAssumption DEF
     CreateOrganizationFails, Go, identity, database, aim, bounds, Fault,
     ThrowLocked, TypeOK, Throwing, InTx
<1>20. ASSUME NEW r \in Requests, ProvisionUser(r) PROVE Throwing'
  BY <1>0, <1>20, FormFields, RegistrationAssumption DEF ProvisionUser, Go,
     database, aim, bounds, Kind, AccountExists, TypeOK, Throwing, InTx
<1>21. ASSUME NEW r \in Requests, ProvisionUserFails(r) PROVE Throwing'
  BY <1>0, <1>21, FormFields, RegistrationAssumption DEF ProvisionUserFails,
     Go, identity, database, aim, bounds, Fault, AfterAccount, Founds, TypeOK,
     Throwing, InTx
<1>22. ASSUME NEW r \in Requests, CreateUser(r) PROVE Throwing'
  BY <1>0, <1>22, FormFields, RegistrationAssumption DEF CreateUser, Go,
     identity, aim, bounds, Founds, TypeOK, Throwing, InTx
<1>23. ASSUME NEW r \in Requests, CreateUserFails(r) PROVE Throwing'
  BY <1>0, <1>23, FormFields, RegistrationAssumption DEF CreateUserFails, Go,
     identity, database, aim, Fault, bounds, TypeOK, Throwing, InTx
<1>24. ASSUME NEW r \in Requests, RollbackUser(r) PROVE Throwing'
  BY <1>0, <1>24, FormFields, RegistrationAssumption DEF RollbackUser, Go,
     database, aim, bounds, Fault, AfterAccount, Founds, TypeOK, Throwing,
     InTx
<1>25. ASSUME NEW r \in Requests, RollbackTenant(r) PROVE Throwing'
  BY <1>0, <1>25, FormFields, RegistrationAssumption DEF RollbackTenant, Go,
     identity, database, aim, bounds, Fault, DeleteTenant, Thrown,
     ThrowLocked, Kind, TypeOK, Throwing, InTx
<1>26. ASSUME NEW r \in Requests, Crash(r) PROVE Throwing'
  BY <1>0, <1>26, FormFields, RegistrationAssumption DEF Crash, Go, identity,
     database, aim, TypeOK, Throwing, InTx
<1>27. ASSUME NEW k \in Keys, LockExpires(k) PROVE Throwing'
  BY <1>0, <1>27, RegistrationAssumption DEF LockExpires, aim, identity,
     database, TypeOK, Throwing, InTx
<1>28. ASSUME NEW r \in Requests, ProvisionTenantFails(r) PROVE Throwing'
  BY <1>0, <1>28, FormFields, RegistrationAssumption DEF ProvisionTenantFails,
     Fault, ThrowLocked, Go, database, aim, bounds, Kind, TypeOK, Throwing,
     InTx
<1>29. ASSUME NEW r \in Requests, ProvisionUserUnheard(r) PROVE Throwing'
  BY <1>0, <1>29, FormFields, RegistrationAssumption DEF ProvisionUserUnheard,
     Fault, AfterAccount, Founds, Go, database, aim, bounds, Kind,
     AccountExists, TypeOK, Throwing, InTx
<1>30. CASE UNCHANGED vars
  BY <1>0, <1>30 DEF vars, aim, identity, database, bounds, TypeOK, Throwing,
     InTx
<1> QED
  BY <1>1, <1>2, <1>3, <1>4, <1>5, <1>6, <1>7, <1>8, <1>9, <1>10, <1>11,
     <1>12, <1>13, <1>14, <1>15, <1>16, <1>17, <1>18, <1>19, <1>20, <1>21,
     <1>22, <1>23, <1>24, <1>25, <1>26, <1>27, <1>28, <1>29,
     <1>30
  DEF Next, Step, LockStep, InstallStep, RegisterStep

\* The rows of those who registered keep their accounts.
LEMMA RegisteredPreserved ==
    ASSUME IInv, RegisteredCanLogIn, [Next]_vars PROVE RegisteredCanLogIn'
<1>0. TypeOK /\ KindsApart /\ Placed /\ Settled /\ Equipped
  BY DEF IInv
<1>1. ASSUME NEW r \in Requests, AcquireLock(r) PROVE RegisteredCanLogIn'
  BY <1>0, <1>1, FormFields, RegistrationAssumption DEF AcquireLock, Go,
     identity, database, aim, bounds, Key, Kind, Email, TypeOK, KindsApart,
     Placed, Settled, Equipped, Held, RegisteredCanLogIn, InTx
<1>2. ASSUME NEW r \in Requests, LockTimesOut(r) PROVE RegisteredCanLogIn'
  BY <1>0, <1>2, FormFields, RegistrationAssumption DEF LockTimesOut, Go,
     identity, database, aim, bounds, Key, Kind, Email, TypeOK, KindsApart,
     Placed, Settled, Equipped, Held, RegisteredCanLogIn, InTx
<1>3. ASSUME NEW r \in Requests, AcquireFails(r) PROVE RegisteredCanLogIn'
  BY <1>0, <1>3, FormFields, RegistrationAssumption DEF AcquireFails, Go,
     identity, database, aim, Fault, bounds, Key, Email, TypeOK, KindsApart,
     Placed, Settled, Equipped, Held, RegisteredCanLogIn, InTx, Kind
<1>4. ASSUME NEW r \in Requests, ReleaseLock(r) PROVE RegisteredCanLogIn'
  BY <1>0, <1>4, FormFields, RegistrationAssumption DEF ReleaseLock, Go,
     identity, database, aim, bounds, Released, Key, Kind, Email, TypeOK,
     KindsApart, Placed, Settled, Equipped, Held, RegisteredCanLogIn, InTx
<1>5. ASSUME NEW r \in Requests, ReleaseFails(r) PROVE RegisteredCanLogIn'
  BY <1>0, <1>5, FormFields, RegistrationAssumption DEF ReleaseFails, Go,
     identity, database, aim, Fault, bounds, Released, Kind, Key, Email,
     TypeOK, KindsApart, Placed, Settled, Equipped, Held, RegisteredCanLogIn,
     InTx
<1>6. ASSUME NEW r \in Requests, CheckOwner(r) PROVE RegisteredCanLogIn'
  BY <1>0, <1>6, FormFields, RegistrationAssumption DEF CheckOwner, Go,
     identity, aim, bounds, ThrowLocked, TypeOK, KindsApart, Placed, Settled,
     Equipped, Held, RegisteredCanLogIn, InTx, Kind
<1>7. ASSUME NEW r \in Requests, CheckOwnerFails(r) PROVE RegisteredCanLogIn'
  BY <1>0, <1>7, FormFields, RegistrationAssumption DEF CheckOwnerFails, Go,
     identity, database, aim, Fault, bounds, ThrowLocked, TypeOK, KindsApart,
     Placed, Settled, Equipped, Held, RegisteredCanLogIn, InTx, Kind
<1>8. ASSUME NEW r \in Requests, BeginInstall(r) PROVE RegisteredCanLogIn'
  BY <1>0, <1>8, FormFields, RegistrationAssumption DEF BeginInstall, Go,
     identity, database, aim, bounds, TypeOK, KindsApart, Placed, Settled,
     Equipped, Held, RegisteredCanLogIn, InTx, Kind
<1>9. ASSUME NEW r \in Requests, CheckInstall(r) PROVE RegisteredCanLogIn'
  BY <1>0, <1>9, FormFields, RegistrationAssumption DEF CheckInstall, Go,
     identity, database, aim, bounds, TypeOK, KindsApart, Placed, Settled,
     Equipped, Held, RegisteredCanLogIn, InTx, Kind
<1>10. ASSUME NEW r \in Requests, CommitInstall(r) PROVE RegisteredCanLogIn'
  BY <1>0, <1>10, FormFields, RegistrationAssumption DEF CommitInstall, Go,
     identity, aim, bounds, TypeOK, KindsApart, Placed, Settled, Equipped,
     Held, RegisteredCanLogIn, InTx, Kind
<1>11. ASSUME NEW r \in Requests, AbortInstall(r) PROVE RegisteredCanLogIn'
  BY <1>0, <1>11, FormFields, RegistrationAssumption DEF AbortInstall, Aborts,
     identity, database, aim, bounds, Fault, TypeOK, KindsApart, Placed,
     Settled, Equipped, Held, RegisteredCanLogIn, InTx, Kind
<1>12. ASSUME NEW r \in Requests, SetClaims(r) PROVE RegisteredCanLogIn'
  BY <1>0, <1>12, FormFields, RegistrationAssumption DEF SetClaims, Go,
     identity, database, aim, bounds, TypeOK, KindsApart, Placed, Settled,
     Equipped, Held, RegisteredCanLogIn, InTx, Kind
<1>13. ASSUME NEW r \in Requests, SetClaimsFails(r) PROVE RegisteredCanLogIn'
  BY <1>0, <1>13, FormFields, RegistrationAssumption DEF SetClaimsFails, Go,
     identity, database, aim, Fault, bounds, TypeOK, KindsApart, Placed,
     Settled, Equipped, Held, RegisteredCanLogIn, InTx, Kind
<1>14. ASSUME NEW r \in Requests, CheckUserExists(r) PROVE RegisteredCanLogIn'
  BY <1>0, <1>14, FormFields, RegistrationAssumption DEF CheckUserExists, Go,
     identity, database, aim, bounds, Throw, Thrown, ThrowLocked, Kind, Email,
     Known, TypeOK, KindsApart, Placed, Settled, Equipped, Held,
     RegisteredCanLogIn, InTx
<1>15. ASSUME NEW r \in Requests, CheckAgain(r) PROVE RegisteredCanLogIn'
  BY <1>0, <1>15, FormFields, RegistrationAssumption DEF CheckAgain, Go,
     identity, database, bounds, Kind, Email, Known, TypeOK, KindsApart,
     Placed, Settled, Equipped, Held, RegisteredCanLogIn, InTx
<1>16. ASSUME NEW r \in Requests, ProvisionTenant(r) PROVE RegisteredCanLogIn'
  BY <1>0, <1>16, FormFields, RegistrationAssumption DEF ProvisionTenant, Go,
     database, aim, bounds, Kind, TypeOK, KindsApart, Placed, Settled,
     Equipped, Held, RegisteredCanLogIn, InTx
<1>17. ASSUME NEW r \in Requests, EarlyStepFails(r) PROVE RegisteredCanLogIn'
  BY <1>0, <1>17, FormFields, RegistrationAssumption DEF EarlyStepFails, Go,
     identity, database, aim, Fault, bounds, Throw, Thrown, ThrowLocked, Kind,
     TypeOK, KindsApart, Placed, Settled, Equipped, Held, RegisteredCanLogIn,
     InTx
<1>18. ASSUME NEW r \in Requests, CreateOrganization(r) PROVE RegisteredCanLogIn'
  BY <1>0, <1>18, FormFields, RegistrationAssumption DEF CreateOrganization,
     Go, identity, aim, bounds, TypeOK, KindsApart, Placed, Settled, Equipped,
     Held, RegisteredCanLogIn, InTx, Kind
<1>19. ASSUME NEW r \in Requests, CreateOrganizationFails(r) PROVE RegisteredCanLogIn'
  BY <1>0, <1>19, FormFields, RegistrationAssumption DEF
     CreateOrganizationFails, Go, identity, database, aim, bounds, Fault,
     ThrowLocked, TypeOK, KindsApart, Placed, Settled, Equipped, Held,
     RegisteredCanLogIn, InTx, Kind
<1>20. ASSUME NEW r \in Requests, ProvisionUser(r) PROVE RegisteredCanLogIn'
  BY <1>0, <1>20, FormFields, RegistrationAssumption DEF ProvisionUser, Go,
     database, aim, bounds, Kind, AccountExists, TypeOK, KindsApart, Placed,
     Settled, Equipped, Held, RegisteredCanLogIn, InTx
<1>21. ASSUME NEW r \in Requests, ProvisionUserFails(r) PROVE RegisteredCanLogIn'
  BY <1>0, <1>21, FormFields, RegistrationAssumption DEF ProvisionUserFails,
     Go, identity, database, aim, bounds, Fault, AfterAccount, Founds, TypeOK,
     KindsApart, Placed, Settled, Equipped, Held, RegisteredCanLogIn, InTx,
     Kind
<1>22. ASSUME NEW r \in Requests, CreateUser(r) PROVE RegisteredCanLogIn'
  BY <1>0, <1>22, FormFields, RegistrationAssumption DEF CreateUser, Go,
     identity, aim, bounds, Founds, TypeOK, KindsApart, Placed, Settled,
     Equipped, Held, RegisteredCanLogIn, InTx, Kind
<1>23. ASSUME NEW r \in Requests, CreateUserFails(r) PROVE RegisteredCanLogIn'
  BY <1>0, <1>23, FormFields, RegistrationAssumption DEF CreateUserFails, Go,
     identity, database, aim, Fault, bounds, TypeOK, KindsApart, Placed,
     Settled, Equipped, Held, RegisteredCanLogIn, InTx, Kind
<1>24. ASSUME NEW r \in Requests, RollbackUser(r) PROVE RegisteredCanLogIn'
  BY <1>0, <1>24, FormFields, RegistrationAssumption DEF RollbackUser, Go,
     database, aim, bounds, Fault, AfterAccount, Founds, TypeOK, KindsApart,
     Placed, Settled, Equipped, Held, RegisteredCanLogIn, InTx, Kind
<1>25. ASSUME NEW r \in Requests, RollbackTenant(r) PROVE RegisteredCanLogIn'
  BY <1>0, <1>25, FormFields, RegistrationAssumption DEF RollbackTenant, Go,
     identity, database, aim, bounds, Fault, DeleteTenant, Thrown,
     ThrowLocked, Kind, TypeOK, KindsApart, Placed, Settled, Equipped, Held,
     RegisteredCanLogIn, InTx
<1>26. ASSUME NEW r \in Requests, Crash(r) PROVE RegisteredCanLogIn'
  BY <1>0, <1>26, FormFields, RegistrationAssumption DEF Crash, Go, identity,
     database, aim, TypeOK, KindsApart, Placed, Settled, Equipped, Held,
     RegisteredCanLogIn, InTx, Kind
<1>27. ASSUME NEW k \in Keys, LockExpires(k) PROVE RegisteredCanLogIn'
  BY <1>0, <1>27, RegistrationAssumption DEF LockExpires, aim, identity,
     database, TypeOK, KindsApart, Placed, Settled, Equipped, Held,
     RegisteredCanLogIn, InTx, Kind
<1>28. ASSUME NEW r \in Requests, ProvisionTenantFails(r) PROVE RegisteredCanLogIn'
  BY <1>0, <1>28, FormFields, RegistrationAssumption DEF ProvisionTenantFails,
     Fault, ThrowLocked, Go, database, aim, bounds, Kind, TypeOK, KindsApart,
     Placed, Settled, Equipped, Held, RegisteredCanLogIn, InTx
<1>29. ASSUME NEW r \in Requests, ProvisionUserUnheard(r) PROVE RegisteredCanLogIn'
  BY <1>0, <1>29, FormFields, RegistrationAssumption DEF ProvisionUserUnheard,
     Fault, AfterAccount, Founds, Go, database, aim, bounds, Kind,
     AccountExists, TypeOK, KindsApart, Placed, Settled, Equipped, Held,
     RegisteredCanLogIn, InTx
<1>30. CASE UNCHANGED vars
  BY <1>0, <1>30 DEF vars, aim, identity, database, bounds, TypeOK,
     KindsApart, Placed, Settled, Equipped, Held, RegisteredCanLogIn, InTx,
     Kind
<1> QED
  BY <1>1, <1>2, <1>3, <1>4, <1>5, <1>6, <1>7, <1>8, <1>9, <1>10, <1>11,
     <1>12, <1>13, <1>14, <1>15, <1>16, <1>17, <1>18, <1>19, <1>20, <1>21,
     <1>22, <1>23, <1>24, <1>25, <1>26, <1>27, <1>28, <1>29,
     <1>30
  DEF Next, Step, LockStep, InstallStep, RegisterStep

-----------------------------------------------------------------------------
\* Theorems.

LEMMA InvInit == Init => IInv
<1> SUFFICES ASSUME Init PROVE IInv
  OBVIOUS
<1>1. TypeOK
  BY RegistrationAssumption
     DEF Init, TypeOK, Steps, Keys, Places, Form, InTx, Ended
<1>2. Exclusive /\ KindsApart /\ Placed /\ Settled
  BY <1>1, FormFields, RegistrationAssumption
     DEF Init, Exclusive, KindsApart, Placed, Settled, Kind, InTx
<1>3. Equipped /\ NoAccountYet /\ Undone /\ Throwing
  BY DEF Init, Equipped, NoAccountYet, Undone, Throwing, InTx
<1> QED
  BY <1>1, <1>2, <1>3 DEF IInv

LEMMA InvNext == IInv /\ [Next]_vars => IInv'
<1> SUFFICES ASSUME IInv, [Next]_vars PROVE IInv'
  OBVIOUS
<1>1. TypeOK'
  BY TypePreserved DEF IInv
<1> QED
  BY <1>1, ExclusivePreserved, KindsPreserved, PlacedPreserved,
     SettledPreserved, EquippedPreserved, NoAccountPreserved,
     UndonePreserved, ThrowingPreserved DEF IInv

LEMMA InvHolds == Spec => []IInv
<1> QED
  BY InvInit, InvNext, PTL DEF Spec

\* The state stays in its domains: the locks, the provider's resources, the
\* rows and the log, for any requests and forms.
THEOREM TypeCorrect == Spec => []TypeOK
<1>1. IInv => TypeOK
  BY DEF IInv
<1> QED
  BY <1>1, InvHolds, PTL

\* However many installations overlap and whichever locks expire under them,
\* they make at most one system owner: the transaction that found none holds
\* the advisory lock until it commits.
THEOREM OneOwner == Spec => []AtMostOneOwner
<1>1. Init => AtMostOneOwner
  BY DEF Init, AtMostOneOwner
<1>2. IInv /\ AtMostOneOwner /\ [Next]_vars => AtMostOneOwner'
  <2> SUFFICES ASSUME IInv, AtMostOneOwner, [Next]_vars PROVE AtMostOneOwner'
    OBVIOUS
  <2>1. ASSUME NEW r \in Requests, CommitInstall(r) PROVE AtMostOneOwner'
    <3>1. owners = {}
      BY <2>1 DEF IInv, Exclusive, CommitInstall, Go
    <3> QED
      BY <2>1, <3>1 DEF CommitInstall, AtMostOneOwner
  <2>2. CASE UNCHANGED owners
    BY <2>2 DEF AtMostOneOwner
  <2>3. UNCHANGED owners \/ \E r \in Requests : CommitInstall(r)
    BY ZenonT(30) DEF Next, Step, LockStep, InstallStep, RegisterStep,
       AcquireLock, LockTimesOut, AcquireFails, ReleaseLock, ReleaseFails,
       CheckOwner, CheckOwnerFails, BeginInstall, CheckInstall, CommitInstall,
       AbortInstall, Aborts, SetClaims, SetClaimsFails, CheckUserExists,
       CheckAgain, ProvisionTenant, ProvisionTenantFails, EarlyStepFails,
       CreateOrganization, CreateOrganizationFails, ProvisionUser,
       ProvisionUserFails, ProvisionUserUnheard, CreateUser, CreateUserFails,
       RollbackUser, RollbackTenant, Crash, LockExpires, Fault, ThrowLocked,
       Throw, DeleteTenant, vars, database, identity
  <2> QED
    BY <2>1, <2>2, <2>3
<1> QED
  BY <1>1, <1>2, InvHolds, PTL DEF Spec

\* A user that registered can log in, whatever fails in its own request and in
\* the others: its account is there, and the tenant the account is in.
THEOREM RegisteredUsersHaveAccounts == Spec => []RegisteredCanLogIn
<1>1. Init => RegisteredCanLogIn
  BY DEF Init, RegisteredCanLogIn
<1>2. IInv /\ RegisteredCanLogIn /\ [Next]_vars => RegisteredCanLogIn'
  BY RegisteredPreserved
<1> QED
  BY <1>1, <1>2, InvHolds, PTL DEF Spec

\* A rejected request has left no account but one whose deletion failed, which
\* the log names, or whose creation was not answered; and none in a tenant of its
\* own unless the deletion of the tenant failed too.
THEOREM RejectionLeavesNoAccount == Spec => []RejectedLeavesNoAccount
<1>1. IInv => RejectedLeavesNoAccount
  BY DEF IInv, Undone, RejectedLeavesNoAccount
<1> QED
  BY <1>1, InvHolds, PTL

\* No late release frees the lock of the next holder.
THEOREM LocksFreedByHolders == Spec => OnlyHolderReleases
<1> DEFINE Kept == \A k \in Keys : lock[k] # NoOne /\ lock'[k] # lock[k] =>
                      \/ expiries' # expiries
                      \/ pc[lock[k]] = "release" /\ pc'[lock[k]] # "release"
<1>1. TypeOK /\ [Next]_vars => Kept
  <2> SUFFICES ASSUME TypeOK, [Next]_vars PROVE Kept
    OBVIOUS
  <2>1. ASSUME NEW r \in Requests, AcquireLock(r) \/ AcquireFails(r)
        PROVE Kept
    BY <2>1, FormFields DEF AcquireLock, AcquireFails, TypeOK
  <2>2. ASSUME NEW r \in Requests, ReleaseLock(r) \/ ReleaseFails(r)
        PROVE Kept
    <3>1. \A b \in BOOLEAN : Released(r, b) # "release"
      BY DEF Released
    <3>2. pc[r] = "release" /\ pc'[r] # "release"
      BY <2>2, <3>1 DEF ReleaseLock, ReleaseFails, Go, TypeOK
    <3>3. \/ UNCHANGED lock
          \/ lock[Key(r)] = r /\ lock' = [lock EXCEPT ![Key(r)] = NoOne]
      BY <2>2 DEF ReleaseLock, ReleaseFails
    <3> QED
      BY <3>2, <3>3, FormFields DEF TypeOK
  <2>3. ASSUME NEW k \in Keys, LockExpires(k) PROVE Kept
    BY <2>3 DEF LockExpires, TypeOK
  <2>4. CASE UNCHANGED lock
    BY <2>4
  <2>5. \/ UNCHANGED lock
        \/ \E r \in Requests : \/ AcquireLock(r) \/ AcquireFails(r)
                               \/ ReleaseLock(r) \/ ReleaseFails(r)
        \/ \E k \in Keys : LockExpires(k)
    BY ZenonT(30) DEF Next, Step, LockStep, InstallStep, RegisterStep,
       AcquireLock, LockTimesOut, AcquireFails, ReleaseLock, ReleaseFails,
       CheckOwner, CheckOwnerFails, BeginInstall, CheckInstall, CommitInstall,
       AbortInstall, Aborts, SetClaims, SetClaimsFails, CheckUserExists,
       CheckAgain, ProvisionTenant, ProvisionTenantFails, EarlyStepFails,
       CreateOrganization, CreateOrganizationFails, ProvisionUser,
       ProvisionUserFails, ProvisionUserUnheard, CreateUser, CreateUserFails,
       RollbackUser, RollbackTenant, Crash, LockExpires, Fault, ThrowLocked,
       Throw, DeleteTenant, vars, database, identity
  <2> QED
    BY <2>1, <2>2, <2>3, <2>4, <2>5
<1> QED
  BY <1>1, TypeCorrect, PTL DEF Spec, OnlyHolderReleases

-----------------------------------------------------------------------------
(***************************************************************************)
(* Tenants, accounts, organizations and users change as in Accounts.        *)
(***************************************************************************)

\* A request's user will belong to an organization that exists by then: its
\* own, or the one of a user that it has found, or Home.
Belonging ==
    \A r \in Requests :
        /\ Kind(r) = "install" => member[r] = r
        /\ /\ Kind(r) = "found"
           /\ pc[r] \in {"exists", "locking", "again", "tenant", "found"}
           => member[r] = r
        /\ /\ Kind(r) # "install"
           /\ \/ pc[r] \in {"account", "user"}
              \/ pc[r] = "release" /\ r \notin failed
           => member[r] \in orgs \cup {Home}
        /\ r \in users => member[r] \in orgs \cup {Home}

\* Every step leaves Belonging true: organizations are never deleted.
LEMMA BelongingPreserved ==
    ASSUME IInv, Belonging, [Next]_vars PROVE Belonging'
<1>0. TypeOK /\ KindsApart
  BY DEF IInv
<1>1. ASSUME NEW r \in Requests, AcquireLock(r) PROVE Belonging'
  BY <1>0, <1>1, FormFields, RegistrationAssumption DEF AcquireLock, Go,
     identity, database, aim, bounds, Key, Kind, TypeOK, KindsApart, Belonging
<1>2. ASSUME NEW r \in Requests, LockTimesOut(r) PROVE Belonging'
  BY <1>0, <1>2, FormFields, RegistrationAssumption DEF LockTimesOut, Go,
     identity, database, aim, bounds, Key, Kind, TypeOK, KindsApart, Belonging
<1>3. ASSUME NEW r \in Requests, AcquireFails(r) PROVE Belonging'
  BY <1>0, <1>3, FormFields, RegistrationAssumption DEF AcquireFails, Go,
     identity, database, aim, Fault, bounds, Key, Email, Kind, TypeOK,
     KindsApart, Belonging
<1>4. ASSUME NEW r \in Requests, ReleaseLock(r) PROVE Belonging'
  BY <1>0, <1>4, FormFields, RegistrationAssumption DEF ReleaseLock, Go,
     identity, database, aim, bounds, Released, Key, Kind, TypeOK, KindsApart,
     Belonging
<1>5. ASSUME NEW r \in Requests, ReleaseFails(r) PROVE Belonging'
  BY <1>0, <1>5, FormFields, RegistrationAssumption DEF ReleaseFails, Go,
     identity, database, aim, Fault, bounds, Released, Kind, Key, TypeOK,
     KindsApart, Belonging
<1>6. ASSUME NEW r \in Requests, CheckOwner(r) PROVE Belonging'
  BY <1>0, <1>6, FormFields, RegistrationAssumption DEF CheckOwner, Go,
     identity, aim, bounds, ThrowLocked, Kind, TypeOK, KindsApart, Belonging
<1>7. ASSUME NEW r \in Requests, CheckOwnerFails(r) PROVE Belonging'
  BY <1>0, <1>7, FormFields, RegistrationAssumption DEF CheckOwnerFails, Go,
     identity, database, aim, Fault, bounds, ThrowLocked, Kind, TypeOK,
     KindsApart, Belonging
<1>8. ASSUME NEW r \in Requests, BeginInstall(r) PROVE Belonging'
  BY <1>0, <1>8, FormFields, RegistrationAssumption DEF BeginInstall, Go,
     identity, database, aim, bounds, Kind, TypeOK, KindsApart, Belonging
<1>9. ASSUME NEW r \in Requests, CheckInstall(r) PROVE Belonging'
  BY <1>0, <1>9, FormFields, RegistrationAssumption DEF CheckInstall, Go,
     identity, database, aim, bounds, Kind, TypeOK, KindsApart, Belonging
<1>10. ASSUME NEW r \in Requests, CommitInstall(r) PROVE Belonging'
  BY <1>0, <1>10, FormFields, RegistrationAssumption DEF CommitInstall, Go,
     identity, aim, bounds, InTx, Kind, TypeOK, KindsApart, Belonging
<1>11. ASSUME NEW r \in Requests, AbortInstall(r) PROVE Belonging'
  BY <1>0, <1>11, FormFields, RegistrationAssumption DEF AbortInstall, Aborts,
     identity, database, aim, bounds, Fault, Kind, TypeOK, KindsApart,
     Belonging
<1>12. ASSUME NEW r \in Requests, SetClaims(r) PROVE Belonging'
  BY <1>0, <1>12, FormFields, RegistrationAssumption DEF SetClaims, Go,
     identity, database, aim, bounds, Kind, TypeOK, KindsApart, Belonging
<1>13. ASSUME NEW r \in Requests, SetClaimsFails(r) PROVE Belonging'
  BY <1>0, <1>13, FormFields, RegistrationAssumption DEF SetClaimsFails, Go,
     identity, database, aim, Fault, bounds, Kind, TypeOK, KindsApart,
     Belonging
<1>14. ASSUME NEW r \in Requests, CheckUserExists(r) PROVE Belonging'
  BY <1>0, <1>14, FormFields, RegistrationAssumption DEF CheckUserExists, Go,
     identity, database, aim, bounds, Throw, Thrown, ThrowLocked, Kind, Email,
     Known, TypeOK, KindsApart, Belonging
<1>15. ASSUME NEW r \in Requests, CheckAgain(r) PROVE Belonging'
  BY <1>0, <1>15, FormFields, RegistrationAssumption DEF CheckAgain, Go,
     identity, database, bounds, Kind, Email, Known, TypeOK, KindsApart,
     Belonging
<1>16. ASSUME NEW r \in Requests, ProvisionTenant(r) PROVE Belonging'
  BY <1>0, <1>16, FormFields, RegistrationAssumption DEF ProvisionTenant, Go,
     database, aim, bounds, Kind, TypeOK, KindsApart, Belonging
<1>17. ASSUME NEW r \in Requests, EarlyStepFails(r) PROVE Belonging'
  BY <1>0, <1>17, FormFields, RegistrationAssumption DEF EarlyStepFails, Go,
     identity, database, aim, Fault, bounds, Throw, Thrown, ThrowLocked, Kind,
     TypeOK, KindsApart, Belonging
<1>18. ASSUME NEW r \in Requests, CreateOrganization(r) PROVE Belonging'
  BY <1>0, <1>18, FormFields, RegistrationAssumption DEF CreateOrganization,
     Go, identity, aim, bounds, Kind, TypeOK, KindsApart, Belonging
<1>19. ASSUME NEW r \in Requests, CreateOrganizationFails(r) PROVE Belonging'
  BY <1>0, <1>19, FormFields, RegistrationAssumption DEF
     CreateOrganizationFails, Go, identity, database, aim, bounds, Fault,
     ThrowLocked, Kind, TypeOK, KindsApart, Belonging
<1>20. ASSUME NEW r \in Requests, ProvisionUser(r) PROVE Belonging'
  BY <1>0, <1>20, FormFields, RegistrationAssumption DEF ProvisionUser, Go,
     database, aim, bounds, Kind, AccountExists, TypeOK, KindsApart, Belonging
<1>21. ASSUME NEW r \in Requests, ProvisionUserFails(r) PROVE Belonging'
  BY <1>0, <1>21, FormFields, RegistrationAssumption DEF ProvisionUserFails,
     Go, identity, database, aim, bounds, Fault, AfterAccount, Founds, Kind,
     TypeOK, KindsApart, Belonging
<1>22. ASSUME NEW r \in Requests, CreateUser(r) PROVE Belonging'
  BY <1>0, <1>22, FormFields, RegistrationAssumption DEF CreateUser, Go,
     identity, aim, bounds, Founds, Kind, TypeOK, KindsApart, Belonging
<1>23. ASSUME NEW r \in Requests, CreateUserFails(r) PROVE Belonging'
  BY <1>0, <1>23, FormFields, RegistrationAssumption DEF CreateUserFails, Go,
     identity, database, aim, Fault, bounds, Kind, TypeOK, KindsApart,
     Belonging
<1>24. ASSUME NEW r \in Requests, RollbackUser(r) PROVE Belonging'
  BY <1>0, <1>24, FormFields, RegistrationAssumption DEF RollbackUser, Go,
     database, aim, bounds, Fault, AfterAccount, Founds, Kind, TypeOK,
     KindsApart, Belonging
<1>25. ASSUME NEW r \in Requests, RollbackTenant(r) PROVE Belonging'
  BY <1>0, <1>25, FormFields, RegistrationAssumption DEF RollbackTenant, Go,
     identity, database, aim, bounds, Fault, DeleteTenant, Thrown,
     ThrowLocked, Kind, TypeOK, KindsApart, Belonging
<1>26. ASSUME NEW r \in Requests, Crash(r) PROVE Belonging'
  BY <1>0, <1>26, FormFields, RegistrationAssumption DEF Crash, Go, identity,
     database, aim, Kind, TypeOK, KindsApart, Belonging
<1>27. ASSUME NEW k \in Keys, LockExpires(k) PROVE Belonging'
  BY <1>0, <1>27, RegistrationAssumption DEF LockExpires, aim, identity,
     database, Kind, TypeOK, KindsApart, Belonging
<1>28. ASSUME NEW r \in Requests, ProvisionTenantFails(r) PROVE Belonging'
  BY <1>0, <1>28, FormFields, RegistrationAssumption DEF ProvisionTenantFails,
     Fault, ThrowLocked, Go, database, aim, bounds, Kind, TypeOK, KindsApart,
     Belonging
<1>29. ASSUME NEW r \in Requests, ProvisionUserUnheard(r) PROVE Belonging'
  BY <1>0, <1>29, FormFields, RegistrationAssumption DEF ProvisionUserUnheard,
     Fault, AfterAccount, Founds, Go, database, aim, bounds, Kind,
     AccountExists, TypeOK, KindsApart, Belonging
<1>30. CASE UNCHANGED vars
  BY <1>0, <1>30 DEF vars, aim, identity, database, bounds, Kind, TypeOK,
     KindsApart, Belonging
<1> QED
  BY <1>1, <1>2, <1>3, <1>4, <1>5, <1>6, <1>7, <1>8, <1>9, <1>10, <1>11,
     <1>12, <1>13, <1>14, <1>15, <1>16, <1>17, <1>18, <1>19, <1>20, <1>21,
     <1>22, <1>23, <1>24, <1>25, <1>26, <1>27, <1>28, <1>29,
     <1>30
  DEF Next, Step, LockStep, InstallStep, RegisterStep

\* The steps that leave the stores alone.
Elsewhere(r) ==
    \/ LockStep(r) \/ CheckOwner(r) \/ CheckOwnerFails(r) \/ BeginInstall(r)
    \/ CheckInstall(r) \/ AbortInstall(r) \/ SetClaims(r) \/ SetClaimsFails(r)
    \/ CheckUserExists(r) \/ EarlyStepFails(r) \/ CreateOrganizationFails(r)
    \/ ProvisionUserFails(r) \/ CreateUserFails(r) \/ Crash(r)

LEMMA ElsewhereStutters ==
    ASSUME NEW r \in Requests, Elsewhere(r)
    PROVE UNCHANGED (Store!vars)
BY DEF Elsewhere, LockStep, AcquireLock, LockTimesOut, AcquireFails,
   ReleaseLock, ReleaseFails, CheckOwner, CheckOwnerFails, BeginInstall,
   CheckInstall, AbortInstall, Aborts, SetClaims, SetClaimsFails,
   CheckUserExists, EarlyStepFails, CreateOrganizationFails, ProvisionUserFails,
   CreateUserFails, Crash, aim, identity, database, Store!vars, Store!aim,
   Store!identity

\* Nobody else lives in a request's tenant.
LEMMA OwnTenant ==
    ASSUME IInv, NEW r \in Requests, NEW q \in Requests, place[q] = r
    PROVE q = r
BY RegistrationAssumption DEF IInv, Placed

\* A step of a request is a step of Accounts or leaves the stores alone.
LEMMA RequestStep ==
    ASSUME IInv, Belonging, NEW r \in Requests, Step(r)
    PROVE [Store!Next]_(Store!vars)
<1> DEFINE Goal == [Store!Next]_(Store!vars)
<1>0. /\ TypeOK /\ KindsApart /\ Placed /\ Settled /\ Equipped
      /\ NoAccountYet /\ Exclusive
  BY DEF IInv
<1>1. ASSUME Elsewhere(r) PROVE Goal
  BY <1>1, ElsewhereStutters
<1>2. ASSUME CommitInstall(r) PROVE Goal
  <2>1. /\ owners = {} /\ Store!SlugFree(r) /\ r \in accounts /\ Held(r)
        /\ Kind(r) = "install" /\ member[r] = r
    BY <1>0, <1>2 DEF CommitInstall, Go, Exclusive, Equipped, KindsApart,
       Belonging, InTx, SlugTaken, Store!SlugFree
  <2>2. r \notin users /\ place[r] = r
    BY <1>0, <1>2, <2>1 DEF CommitInstall, Go, Settled, Placed, Ended
  <2>3. Store!InstallOwner(r)
    BY <1>2, <2>1, <2>2 DEF CommitInstall, Held, Store!InstallOwner, aim,
       identity, Store!aim, Store!identity
  <2> QED
    BY <2>3 DEF Store!Next
<1>3. ASSUME CheckAgain(r) PROVE Goal
  <2>1. r \notin accounts \cup users
    BY <1>0, <1>3 DEF CheckAgain, Go, NoAccountYet, Settled, KindsApart, Ended
  <2>2. ASSUME NEW u \in Known(Email(r)),
               place' = [place EXCEPT ![r] = Project],
               member' = [member EXCEPT ![r] = member[u]]
        PROVE Goal
    <3>1. u \in Requests /\ member[u] \in orgs \cup {Home} /\ member[u] \in Places
      BY <1>0 DEF Known, TypeOK, Belonging, Places
    <3>2. Store!TurnTo(r, member[u])
      BY <1>3, <2>1, <2>2, <3>1 DEF CheckAgain, Store!TurnTo, identity,
         database, Store!identity
    <3> QED
      BY <3>1, <3>2 DEF Store!Next
  <2>3. CASE UNCHANGED <<place, member>>
    BY <1>3, <2>3 DEF CheckAgain, identity, database, Store!vars, Store!aim,
       Store!identity
  <2> QED
    BY <1>3, <2>2, <2>3 DEF CheckAgain
<1>4. ASSUME ProvisionTenant(r) PROVE Goal
  BY <1>4 DEF ProvisionTenant, Store!Next, Store!OpenTenant, aim, database,
     Store!aim
<1>5. ASSUME ProvisionTenantFails(r) PROVE Goal
  <2>1. CASE UNCHANGED tenants
    BY <1>5, <2>1 DEF ProvisionTenantFails, aim, database, Store!vars,
       Store!aim, Store!identity
  <2>2. CASE tenants' = tenants \cup {r}
    BY <1>5, <2>2 DEF ProvisionTenantFails, Store!Next, Store!OpenTenant,
       aim, database, Store!aim
  <2> QED
    BY <1>5, <2>1, <2>2 DEF ProvisionTenantFails
<1>6. ASSUME CreateOrganization(r) PROVE Goal
  <2>1. Store!SlugFree(r) /\ r \in tenants
    BY <1>0, <1>6 DEF CreateOrganization, Go, Equipped, SlugTaken,
       Store!SlugFree
  <2> QED
    BY <1>6, <2>1 DEF CreateOrganization, Store!Next, Store!Found, aim,
       identity, Store!aim, Store!identity
<1>7. ASSUME ProvisionUser(r) \/ ProvisionUserUnheard(r) PROVE Goal
  <2>1. /\ r \notin accounts \cup users
        /\ place[r] \in tenants \cup {Home, Project}
    BY <1>0, <1>7 DEF ProvisionUser, ProvisionUserUnheard, Go, NoAccountYet,
       Settled, Equipped, Held, Placed, Ended
  <2>2. Store!EmailFree(r)
    BY <1>7 DEF ProvisionUser, ProvisionUserUnheard, AccountExists, Email,
       Store!EmailFree
  <2> QED
    BY <1>7, <2>1, <2>2 DEF ProvisionUser, ProvisionUserUnheard, Store!Next,
       Store!OpenAccount, aim, database, Store!aim
<1>8. ASSUME CreateUser(r) PROVE Goal
  <2>1. r \in accounts \ users /\ member[r] \in orgs \cup {Home}
    BY <1>0, <1>8 DEF CreateUser, Go, Equipped, Settled, KindsApart,
       Belonging, Ended
  <2> QED
    BY <1>8, <2>1 DEF CreateUser, Store!Next, Store!Register, aim, identity,
       Store!aim, Store!identity
<1>9. ASSUME RollbackUser(r) PROVE Goal
  <2>1. r \notin Store!Registered
    BY <1>0, <1>9 DEF RollbackUser, Go, Settled, Store!Registered
  <2>2. accounts' = accounts \ {r} \/ UNCHANGED accounts
    BY <1>9 DEF RollbackUser
  <2> QED
    BY <1>9, <2>1, <2>2 DEF RollbackUser, Store!Next, Store!CloseAccount, aim,
       database, Store!vars, Store!aim, Store!identity
<1>10. ASSUME RollbackTenant(r) PROVE Goal
  <2>1. \A u \in Store!Registered : place[u] # r
    <3> SUFFICES ASSUME NEW u \in Store!Registered, place[u] = r PROVE FALSE
      OBVIOUS
    <3>1. u = r
      BY <1>0, OwnTenant DEF TypeOK, Store!Registered
    <3> QED
      BY <1>0, <1>10, <3>1 DEF RollbackTenant, Go, Settled, Store!Registered
  <2>2. \/ /\ tenants' = tenants \ {r}
           /\ accounts' = {a \in accounts : place[a] # r}
        \/ UNCHANGED identity
    BY <1>10 DEF RollbackTenant, DeleteTenant
  <2>3. CASE UNCHANGED identity
    BY <1>10, <2>3 DEF RollbackTenant, aim, identity, database, Store!vars,
       Store!aim, Store!identity
  <2>4. CASE /\ tenants' = tenants \ {r}
             /\ accounts' = {a \in accounts : place[a] # r}
    <3>1. Store!CloseTenant(r)
      BY <1>10, <2>1, <2>4 DEF RollbackTenant, Store!CloseTenant, aim,
         database, Store!aim
    <3> QED
      BY <3>1 DEF Store!Next
  <2> QED
    BY <2>2, <2>3, <2>4
<1> HIDE DEF Goal
<1>11. Goal
  BY <1>1, <1>2, <1>3, <1>4, <1>5, <1>6, <1>7, <1>8, <1>9, <1>10
  DEF Step, InstallStep, RegisterStep, Elsewhere
<1> QED
  BY <1>11 DEF Goal

\* The two registrations, their catches and their compensations implement
\* Accounts, for any requests, forms, failures, expiries and deaths: an e-mail
\* has one account in a tenant, a user belongs to an organization that exists
\* and keeps its account and tenant, slugs are apart, and there is one owner.
THEOREM RegistrationImplementsAccounts == Spec => ImplementsAccounts
<1>1. Init => Store!Init /\ Belonging
  <2> SUFFICES ASSUME Init PROVE Store!Init /\ Belonging
    OBVIOUS
  <2>1. TypeOK
    BY InvInit DEF IInv
  <2>2. Store!Init
    BY <2>1 DEF Init, Store!Init, TypeOK, Places
  <2>3. Belonging
    BY <2>1, FormFields DEF Init, Belonging, Kind
  <2> QED
    BY <2>2, <2>3
<1>2. IInv /\ Belonging /\ [Next]_vars => Belonging'
  BY BelongingPreserved
<1>3. IInv /\ Belonging /\ [Next]_vars => [Store!Next]_(Store!vars)
  <2> SUFFICES ASSUME IInv, Belonging, [Next]_vars
               PROVE [Store!Next]_(Store!vars)
    OBVIOUS
  <2>1. ASSUME NEW r \in Requests, Step(r) PROVE [Store!Next]_(Store!vars)
    BY <2>1, RequestStep
  <2>2. ASSUME NEW r \in Requests, Crash(r) PROVE [Store!Next]_(Store!vars)
    BY <2>2, ElsewhereStutters DEF Elsewhere
  <2>3. CASE UNCHANGED vars \/ \E k \in Keys : LockExpires(k)
    BY <2>3 DEF LockExpires, vars, aim, identity, database, Store!vars,
       Store!aim, Store!identity
  <2> QED
    BY <2>1, <2>2, <2>3 DEF Next
<1> QED
  BY <1>1, <1>2, <1>3, InvHolds, PTL
     DEF Spec, ImplementsAccounts, Store!Spec
=============================================================================
