--------------------------- MODULE MCKeyRotation ---------------------------
(***************************************************************************)
(* Instances of KeyRotation for TLC: two entries of one tenant, in batches  *)
(* of one, beside a tenant that has none.                                   *)
(***************************************************************************)
EXTENDS KeyRotation, TLC

CONSTANTS t1, t2, e1, e2, p1, p2, w1, w2

MCTenantOf == e1 :> t1 @@ e2 :> t1

Bounds(p, w, v, m, c, f) ==
    [pollers |-> p, workers |-> w, versions |-> v, manual |-> m,
     cancels |-> c, faults |-> f]

\* Two pollers over three versions; two workers with rotations asked for by
\* hand; one worker with a cancellation and two faults, as a job must stall
\* twice to be given up; one poller and one worker together.
MCPlans == {
    Bounds({p1, p2}, {}, 3, 0, 0, 1),
    Bounds({}, {w1, w2}, 2, 2, 0, 1),
    Bounds({}, {w1}, 2, 1, 1, 2),
    Bounds({p1}, {w1}, 2, 0, 0, 1)}
=============================================================================
