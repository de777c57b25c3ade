-------------------------- MODULE MCProposedActions ---------------------------
(* ProposedActions for TLC: one process, answers of one and two commands, all  *)
(* without an id.                                                              *)
EXTENDS ProposedActions, TLC

CONSTANT p1

MCProcs == {p1}
Command ==
    [object |-> TRUE, actionId |-> "good", type |-> "RUN_COMMAND", path |-> "good", ref |-> "good",
     cmd |-> "good", network |-> "none", cwd |-> "absent", timeoutMs |-> "absent", name |-> "good"]
MCShape == [a0 |-> Command, a1 |-> Command]
MCIds == DOMAIN MCShape
MCPositionIds == <<"a0", "a1">>
MCRawAnswers == {<<"none">>, <<"none", "none">>}

==============================================================================
