----------------------------- MODULE KeyLedger -----------------------------
(***************************************************************************)
(* What is on record of a key's versions, with no polls, queues, workers or *)
(* failures: an entry is wrapped with a version that exists and claims none *)
(* that is newer; a rotation between versions that exist is requested for a *)
(* tenant before it is begun, and begun before it rewraps, in one step, some *)
(* of that tenant's entries; and the checkpoint moves from version to        *)
(* version, by rotations that were requested for every tenant.               *)
(***************************************************************************)
EXTENDS Naturals

CONSTANTS Tenants, Entries, TenantOf

VARIABLES
    primary,    \* the newest version
    key,        \* the version each entry claims, and the one that wraps it
    requested,  \* rotations, by tenant, that were asked for
    begun,      \* those that were begun
    seen,       \* the checkpoint's version, or 0
    processed   \* the rotation by which it got there

vars == <<primary, key, requested, begun, seen, processed>>

Existing == 1..primary
Absent == [claims |-> 0, wrapped |-> 0]

NewVersion ==
    /\ primary' = primary + 1
    /\ UNCHANGED <<key, requested, begun, seen, processed>>

Store(e) ==
    /\ key[e] = Absent
    /\ \E l, v \in Existing :
          /\ l <= v
          /\ key' = [key EXCEPT ![e] = [claims |-> l, wrapped |-> v]]
    /\ UNCHANGED <<primary, requested, begun, seen, processed>>

Request(S, old, new) ==
    /\ old # new
    /\ requested' = requested \cup {<<t, <<old, new>>>> : t \in S}
    /\ UNCHANGED <<primary, key, begun, seen, processed>>

Begin(j) ==
    /\ j \in requested
    /\ begun' = begun \cup {j}
    /\ UNCHANGED <<primary, key, requested, seen, processed>>

Rewrap(t, old, new, S) ==
    /\ <<t, <<old, new>>>> \in begun
    /\ \A e \in S : TenantOf[e] = t /\ key[e] # Absent
    /\ key' = [e \in Entries |-> IF e \in S THEN [claims |-> new, wrapped |-> new]
                                 ELSE key[e]]
    /\ UNCHANGED <<primary, requested, begun, seen, processed>>

\* The first checkpoint, when every entry claims its version.
Settle(v) ==
    /\ seen = 0
    /\ \A e \in Entries : key[e] # Absent => key[e].claims = v
    /\ seen' = v
    /\ UNCHANGED <<primary, key, requested, begun, processed>>

Advance(old, new) ==
    /\ old # new /\ seen \in {0, old}
    /\ \A t \in Tenants : <<t, <<old, new>>>> \in requested
    /\ seen' = new
    /\ processed' = <<old, new>>
    /\ UNCHANGED <<primary, key, requested, begun>>

Init ==
    /\ primary = 1
    /\ key \in [Entries -> {Absent, [claims |-> 1, wrapped |-> 1]}]
    /\ requested = {} /\ begun = {}
    /\ seen = 0 /\ processed = <<0, 0>>

Next ==
    \/ NewVersion
    \/ \E e \in Entries : Store(e)
    \/ \E v \in Existing : Settle(v)
    \/ \E old, new \in Existing :
          \/ \E S \in SUBSET Tenants : Request(S, old, new)
          \/ \E t \in Tenants, S \in SUBSET Entries : Rewrap(t, old, new, S)
          \/ Advance(old, new)
    \/ \E j \in requested : Begin(j)

Spec == Init /\ [][Next]_vars
=============================================================================
