------------------------------ MODULE MCOutbox ------------------------------
(* Instances of Outbox for TLC. *)
EXTENDS Outbox, TLC

CONSTANTS w1, w2, a1

TwoWorkers == {w1, w2}
OneAdmin == {a1}

CleanFaults == FaultKinds \ {"lost"}

Symmetry == Permutations(Workers) \cup Permutations(Admins)
=============================================================================
