------------------------------ MODULE MCTaskLoop ------------------------------
(* TaskLoop for TLC: values for its constants. *)
EXTENDS TaskLoop

CONSTANTS a, b

MCTrees == {a, b}
MCCosts == {0, 1, 2}

==============================================================================
