------------------------------ MODULE Accounts ------------------------------
(***************************************************************************)
(* Tenants, accounts, organizations and users, with no locks, rollbacks or  *)
(* crashes: an account is opened where its e-mail has none and the tenant   *)
(* exists, becomes a user of an organization that exists, and is not closed *)
(* from then on; one account at most becomes the system owner.  Each is     *)
(* named by the request it is made for.                                     *)
(***************************************************************************)
CONSTANTS
    Requests,
    Places,        \* the requests' own tenants and organizations, and others'
    Home,          \* an organization that exists, and its tenant
    Project        \* where accounts live that belong to no tenant

VARIABLES
    form,          \* the e-mail and the slug of each request
    place,         \* the tenant of a request's account
    member,        \* the organization of a request's user
    tenants, accounts, orgs, users, owners

identity == <<tenants, accounts>>
aim == <<place, member>>
vars == <<form, aim, identity, orgs, users, owners>>

\* A user that may rely on its account.
Registered == users \ owners

SlugFree(r) == \A q \in orgs : form[q].slug # form[r].slug
EmailFree(r) == \A q \in accounts : place[q] = place[r] => form[q].email # form[r].email

OpenTenant(r) ==
    /\ tenants' = tenants \cup {r}
    /\ UNCHANGED <<form, aim, accounts, orgs, users, owners>>

\* With the tenant go the accounts in it.
CloseTenant(r) ==
    /\ \A u \in Registered : place[u] # r
    /\ tenants' = tenants \ {r}
    /\ accounts' = {a \in accounts : place[a] # r}
    /\ UNCHANGED <<form, aim, orgs, users, owners>>

Found(r) ==
    /\ SlugFree(r) /\ r \in tenants
    /\ orgs' = orgs \cup {r}
    /\ UNCHANGED <<form, aim, identity, users, owners>>

\* A request that has neither account nor user turns to an organization.
TurnTo(r, org) ==
    /\ r \notin accounts \cup users
    /\ org \in orgs \cup {Home}
    /\ place' = [place EXCEPT ![r] = Project]
    /\ member' = [member EXCEPT ![r] = org]
    /\ UNCHANGED <<form, identity, orgs, users, owners>>

OpenAccount(r) ==
    /\ r \notin accounts \cup users
    /\ EmailFree(r) /\ place[r] \in tenants \cup {Home, Project}
    /\ accounts' = accounts \cup {r}
    /\ UNCHANGED <<form, aim, tenants, orgs, users, owners>>

CloseAccount(r) ==
    /\ r \notin Registered
    /\ accounts' = accounts \ {r}
    /\ UNCHANGED <<form, aim, tenants, orgs, users, owners>>

Register(r) ==
    /\ r \in accounts \ users
    /\ member[r] \in orgs \cup {Home}
    /\ users' = users \cup {r}
    /\ UNCHANGED <<form, aim, identity, orgs, owners>>

\* The first owner and its organization are one step.
InstallOwner(r) ==
    /\ owners = {} /\ SlugFree(r)
    /\ r \in accounts \ users /\ r \in tenants /\ member[r] = r
    /\ orgs' = orgs \cup {r}
    /\ users' = users \cup {r}
    /\ owners' = {r}
    /\ UNCHANGED <<form, aim, identity>>

Init ==
    /\ place \in [Requests -> Places] /\ member \in [Requests -> Places]
    /\ tenants = {} /\ accounts = {}
    /\ orgs = {} /\ users = {} /\ owners = {}

Next == \E r \in Requests :
    \/ OpenTenant(r) \/ CloseTenant(r) \/ Found(r)
    \/ \E org \in Places : TurnTo(r, org)
    \/ OpenAccount(r) \/ CloseAccount(r) \/ Register(r) \/ InstallOwner(r)

Spec == Init /\ [][Next]_vars
=============================================================================
