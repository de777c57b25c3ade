--------------------------- MODULE MCSupervisedRun ---------------------------
(* SupervisedRun for TLC: two independent tasks, one request of the operator. *)
EXTENDS SupervisedRun, TLC

MCOrder == <<"t1", "t2">>
MCDependsOn == [t \in {"t1", "t2"} |-> {}]

==============================================================================
