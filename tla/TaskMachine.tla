----------------------------- MODULE TaskMachine -----------------------------
(***************************************************************************)
(* The transition table of core/src/orchestrator/machine.ts, shared by the *)
(* task loop and by everything that moves a task after REVIEWING.          *)
(***************************************************************************)

TerminalStates ==
    {"COMPLETED", "BLOCKED", "ESCALATED", "CANCELLED", "ROLLED_BACK", "QUARANTINED"}

(* APPROVED is not active: no universal escape leaves it. *)
ActiveStates ==
    {"PROPOSED", "ANALYZING", "READY", "IMPLEMENTING", "VERIFYING", "FAILED",
     "DIAGNOSING", "REPAIRING", "PASSED", "REVIEWING", "CHANGES_REQUESTED",
     "MERGE_QUEUED", "AUDITED"}

TaskState == ActiveStates \cup TerminalStates \cup {"APPROVED", "PAUSED"}

TABLE ==
    [PROPOSED          |-> [analyze |-> "ANALYZING"],
     ANALYZING         |-> [ready |-> "READY"],
     READY             |-> [start_implementing |-> "IMPLEMENTING"],
     IMPLEMENTING      |-> [verify |-> "VERIFYING"],
     VERIFYING         |-> [gate_failed |-> "FAILED", gate_passed |-> "PASSED"],
     FAILED            |-> [diagnose |-> "DIAGNOSING"],
     DIAGNOSING        |-> [repair |-> "REPAIRING"],
     REPAIRING         |-> [verify |-> "VERIFYING"],
     PASSED            |-> [review |-> "REVIEWING"],
     REVIEWING         |-> [changes_requested |-> "CHANGES_REQUESTED",
                            human_approved |-> "APPROVED", auto_approved |-> "APPROVED"],
     CHANGES_REQUESTED |-> [repair |-> "REPAIRING"],
     APPROVED          |-> [merge_queued |-> "MERGE_QUEUED"],
     MERGE_QUEUED      |-> [audited |-> "AUDITED"],
     AUDITED           |-> [completed |-> "COMPLETED"]]

UNIVERSAL ==
    [block |-> "BLOCKED", escalate |-> "ESCALATED", cancel |-> "CANCELLED",
     roll_back |-> "ROLLED_BACK", quarantine |-> "QUARANTINED", pause |-> "PAUSED"]

IllegalTransition == "illegal_transition"

(* What a task must have reached for those that depend on it to start.     *)
DEP_SATISFIED_STATES == {"PASSED", "REVIEWING", "APPROVED", "MERGE_QUEUED", "AUDITED", "COMPLETED"}

transition(state, trigger) ==
    IF trigger \in DOMAIN UNIVERSAL
    THEN IF state \in ActiveStates \cup {"PAUSED"} THEN UNIVERSAL[trigger]
         ELSE IllegalTransition
    ELSE IF state \in DOMAIN TABLE /\ trigger \in DOMAIN TABLE[state]
         THEN TABLE[state][trigger]
         ELSE IllegalTransition

resumeTransition(state, prePauseState) ==
    IF state = "PAUSED" /\ prePauseState \in ActiveStates
    THEN prePauseState ELSE IllegalTransition

==============================================================================
