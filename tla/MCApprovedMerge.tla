--------------------------- MODULE MCApprovedMerge ---------------------------
(* ApprovedMerge for TLC: two tasks of one repository. *)
EXTENDS ApprovedMerge, TLC

CONSTANTS t1, t2

MCTasks == {t1, t2}
MCSymmetry == Permutations(MCTasks)

==============================================================================
