---------------------------- MODULE ProposedActions ----------------------------
(* The executor behind the answers of a live model: the prompt of an adapter   *)
(* (adapters/src/wire.ts) asks for no action id, normalizeActions gives a      *)
(* missing one by position, the loop hands the actions of a round to the       *)
(* executor one after the other, and the executor knows actions by their id.   *)
EXTENDS Executor

CONSTANTS
    RawAnswers,   \* answers of the model: sequences of ids, NoId where it gave none;
                  \* an id it gives is none of PositionIds
    NoId,
    PositionIds,  \* the ids "a-0", "a-1", ...
    MaxAnswers    \* bound on rounds

VARIABLES
    answersGiven, \* rounds so far
    toExecute,    \* what is left of the round under way
    handedOver    \* id -> how often the loop gave it to the executor

proposedVars == <<executorVars, answersGiven, toExecute, handedOver>>

normalizeActions(raw) == [i \in DOMAIN raw |-> IF raw[i] = NoId THEN PositionIds[i] ELSE raw[i]]

Between(p) == At(p, "idle") /\ toExecute = <<>>

propose(p) ==
    /\ Between(p) /\ answersGiven < MaxAnswers
    /\ \E raw \in RawAnswers : toExecute' = normalizeActions(raw)
    /\ answersGiven' = answersGiven + 1
    /\ UNCHANGED <<executorVars, handedOver>>

execute(p) ==
    /\ toExecute # <<>> /\ executeOnce(p, Head(toExecute))
    /\ toExecute' = Tail(toExecute)
    /\ handedOver' = [handedOver EXCEPT ![Head(toExecute)] = @ + 1]
    /\ UNCHANGED answersGiven

ExecutorGoesOn ==
    /\ \E p \in Procs : ~At(p, "idle")
    /\ ExecutorNext /\ UNCHANGED <<answersGiven, toExecute, handedOver>>

ProposedInit ==
    /\ ExecutorInit
    /\ answersGiven = 0 /\ toExecute = <<>> /\ handedOver = [a \in Ids |-> 0]

ProposedNext == (\E p \in Procs : propose(p) \/ execute(p)) \/ ExecutorGoesOn

ProposedSpec == ProposedInit /\ [][ProposedNext]_proposedVars

(* A command that the model asks for without an id in a later round is run,    *)
(* like the one it asked for before.  It is not: the first action without an   *)
(* id of every round is "a-0", which the executor takes for a replay.  An id   *)
(* the model gave itself is not meant here: repeating one asks for a replay.   *)
\* (wire.ts protocolBlock, normalizeActions; executor.ts alreadyApplied.)
LaterRoundsTakeEffect ==
    \A p \in Procs : Between(p) =>
        \A i \in DOMAIN PositionIds :
            LET a == PositionIds[i]
            IN  Shape[a].type = "RUN_COMMAND" => worktree[a] >= handedOver[a]

==============================================================================
