---------------------------- MODULE DeployStage ----------------------------
(***************************************************************************)
(* The deploy stage of core/src/deploy/stage.ts: canary, observe, expand or *)
(* roll back, recorded as DEPLOY_STATE events.  An action runs to the next *)
(* await, the command an executor runs or the wait between two probes;     *)
(* `owns` is what assertOwnership finds when the action runs.              *)
(***************************************************************************)
EXTENDS Naturals

CONSTANTS Probes, FailureThreshold

ASSUME StageAssumption == Probes \in Nat \ {0} /\ FailureThreshold \in Nat

VARIABLE stage

(* `state` is the last DEPLOY_STATE of the log, `at` the command awaited,  *)
(* `ended` how the promise of the stage settled.                           *)
DeployState == {"none", "CANARY", "OBSERVING", "EXPANDED", "ROLLING_BACK", "ROLLED_BACK", "ESCALATED"}
Commands == {"canary", "observe", "expand", "rollback"}

Stage ==
    [state : DeployState, at : Commands \cup {"idle"}, ran : 0 .. Probes, failed : 0 .. Probes,
     ended : {"no", "fenced", "thrown", "EXPANDED", "ROLLED_BACK", "ESCALATED"}]

StageInit == stage = [state |-> "none", at |-> "idle", ran |-> 0, failed |-> 0, ended |-> "no"]

Recorded(state, at) == stage' = [stage EXCEPT !.state = state, !.at = at]
StageSettled(state) == stage' = [stage EXCEPT !.state = state, !.at = "idle", !.ended = state]
Broken(how) == stage' = [stage EXCEPT !.at = "idle", !.ended = how]

runRollback == Recorded("ROLLING_BACK", "rollback")

(* The approved package is authenticated again before the first command.   *)
StartStage(owns, valid) ==
    /\ stage.at = "idle" /\ stage.ended = "no"
    /\ IF ~owns THEN Broken("fenced")
       ELSE IF valid THEN Recorded("CANARY", "canary")
       ELSE StageSettled("ESCALATED")

(* runDeployCommand: a command that was rejected or is a duplicate failed  *)
(* too.  Whatever it did, a record that follows the loss of the lease, or  *)
(* a command asked for after it, throws.                                   *)
CanaryRan(owns, ok) ==
    /\ stage.at = "canary"
    /\ IF ~owns THEN Broken("fenced")
       ELSE IF ok THEN Recorded("OBSERVING", "observe")
       ELSE runRollback

ProbeRan(owns, ok) ==
    /\ stage.at = "observe"
    /\ LET failed == stage.failed + (IF ok THEN 0 ELSE 1)
           probed == [stage EXCEPT !.ran = @ + 1, !.failed = failed]
       IN  IF ~owns THEN Broken("fenced")
           ELSE IF probed.ran < Probes THEN stage' = probed
           ELSE IF failed > FailureThreshold
                THEN stage' = [probed EXCEPT !.state = "ROLLING_BACK", !.at = "rollback"]
                ELSE stage' = [probed EXCEPT !.at = "expand"]

ExpandRan(owns, ok) ==
    /\ stage.at = "expand"
    /\ IF ~owns THEN Broken("fenced") ELSE IF ok THEN StageSettled("EXPANDED") ELSE runRollback

RollbackRan(owns, ok) ==
    /\ stage.at = "rollback"
    /\ IF ~owns THEN Broken("fenced")
       ELSE StageSettled(IF ok THEN "ROLLED_BACK" ELSE "ESCALATED")

(* The executor itself may throw, out of the stage.                        *)
CommandThrows == stage.at \in Commands /\ Broken("thrown")

runDeployStage(owns) ==
    \/ \E ok \in BOOLEAN : CanaryRan(owns, ok) \/ ProbeRan(owns, ok) \/ ExpandRan(owns, ok)
                           \/ RollbackRan(owns, ok)
    \/ CommandThrows

=============================================================================
