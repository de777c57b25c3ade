------------------------------- MODULE MCLease -------------------------------
(* Lease for TLC: two processes that compete for one task. *)
EXTENDS Lease, TLC

CONSTANTS o1, o2

MCOwners == {o1, o2}
MCSymmetry == Permutations(MCOwners)

==============================================================================
