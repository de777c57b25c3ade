------------------------- MODULE MCExecutorRecovery --------------------------
(* Executor alone for TLC: one process, a command and a write, and enough log  *)
(* and faults for a recovery of a recovery.                                    *)
EXTENDS Executor, TLC

CONSTANT p1

MCProcs == {p1}
GoodAction ==
    [object |-> TRUE, actionId |-> "good", type |-> "WRITE_FILE", path |-> "good", ref |-> "good",
     cmd |-> "good", network |-> "none", cwd |-> "absent", timeoutMs |-> "absent", name |-> "good"]
MCShape == [w |-> GoodAction, c |-> [GoodAction EXCEPT !.type = "RUN_COMMAND"]]
MCIds == DOMAIN MCShape

==============================================================================
