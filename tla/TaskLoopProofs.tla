---------------------------- MODULE TaskLoopProofs ----------------------------
(***************************************************************************)
(* Proofs about TaskLoop.  The inductive invariant says in which task      *)
(* state the loop is at each await or check, and what of the budget and of *)
(* the operator's signal has been looked at by then.                       *)
(***************************************************************************)
EXTENDS TaskLoop, TLAPS

Task == [state : TaskState, refused : BOOLEAN]
Round == [claim : Claims, todo : 0..MaxActions, rejected : BOOLEAN, t0 : GateRun, t1 : GateRun]
Diagnosis == [left : 0..MaxHypotheses + 1, evaluated : 0..MaxHypotheses, probes : 0..MaxProbes]

AtWork == {"boundary", "fold", "propose", "intent", "awaiting", "action", "execute",
           "acting", "action_result", "T0"}
AtDiagnosis == {"diagnosis_proposal", "diagnosis_intent", "diagnosing", "hypothesis",
                "probe", "probing"}

(* Where the loop is and what the task state is agree. *)
StateFollowsLoop ==
    /\ ~task.refused
    /\ pc = "walk" => task.state = "PROPOSED"
    /\ pc \in AtWork => task.state \in {"IMPLEMENTING", "REPAIRING"}
    /\ pc \in {"gate:T1", "T1"} => task.state = "VERIFYING" /\ round.t0.pass
    /\ pc \in AtDiagnosis => task.state = "DIAGNOSING"
    /\ pc \in {"paused", "resumed"} =>
         task.state = "PAUSED" /\ prePause \in {"IMPLEMENTING", "REPAIRING"}

(* What the checks on the way here have established of budget and counters.*)
BudgetFollowsLoop ==
    /\ iterations <= MaxIterations + 1
    /\ pc = "walk" => iterations = 0
    /\ pc \in {"propose", "intent", "awaiting"} => iterations < MaxIterations
    /\ pc \in {"action", "execute", "acting", "action_result", "T0", "gate:T1", "T1",
               "diagnosis_proposal", "diagnosis_intent", "diagnosing"}
         => iterations <= MaxIterations
    /\ pc \in {"propose", "diagnosis_proposal"} => cost < MaxCost
    /\ pc \in {"execute", "acting", "action_result"} => round.todo > 0
    /\ pc \in {"probe", "probing"} =>
         diag.left > 0 /\ diag.evaluated < MaxHypotheses /\ diag.probes > 0

(* Past the poll no signal is pending, past the fold no guidance, which is *)
(* the feedback until it is answered.                                      *)
SignalFollowsLoop ==
    /\ pc \in {"resumed", "fold", "propose"} => signal = "none"
    /\ pc = "propose" => ~guidance
    /\ feedback = "guidance" => pc \in {"propose", "intent", "awaiting", "ended", "closed"}

IInv == TypeOK /\ StateFollowsLoop /\ BudgetFollowsLoop /\ SignalFollowsLoop

------------------------------------------------------------------------------
(* The moves that the loop makes, from the states in which it makes them.  *)
LEMMA Transitions ==
    /\ transition("PROPOSED", "analyze") = "ANALYZING"
    /\ transition("ANALYZING", "ready") = "READY"
    /\ transition("READY", "start_implementing") = "IMPLEMENTING"
    /\ transition("IMPLEMENTING", "verify") = "VERIFYING"
    /\ transition("REPAIRING", "verify") = "VERIFYING"
    /\ transition("VERIFYING", "gate_failed") = "FAILED"
    /\ transition("VERIFYING", "gate_passed") = "PASSED"
    /\ transition("FAILED", "diagnose") = "DIAGNOSING"
    /\ transition("DIAGNOSING", "repair") = "REPAIRING"
    /\ transition("PASSED", "review") = "REVIEWING"
BY DEF transition, TABLE, UNIVERSAL, IllegalTransition

LEMMA Moves ==
    ASSUME NEW t \in Task
    PROVE  /\ t.state = "PROPOSED" => move(t, "analyze") = [t EXCEPT !.state = "ANALYZING"]
           /\ t.state = "ANALYZING" => move(t, "ready") = [t EXCEPT !.state = "READY"]
           /\ t.state = "READY"
                => move(t, "start_implementing") = [t EXCEPT !.state = "IMPLEMENTING"]
           /\ t.state \in {"IMPLEMENTING", "REPAIRING"}
                => move(t, "verify") = [t EXCEPT !.state = "VERIFYING"]
           /\ t.state = "VERIFYING"
                => /\ move(t, "gate_failed") = [t EXCEPT !.state = "FAILED"]
                   /\ move(t, "gate_passed") = [t EXCEPT !.state = "PASSED"]
           /\ t.state = "FAILED" => move(t, "diagnose") = [t EXCEPT !.state = "DIAGNOSING"]
           /\ t.state = "DIAGNOSING" => move(t, "repair") = [t EXCEPT !.state = "REPAIRING"]
           /\ t.state = "PASSED" => move(t, "review") = [t EXCEPT !.state = "REVIEWING"]
BY Transitions DEF Task, move, IllegalTransition

LEMMA Escapes ==
    ASSUME NEW t \in Task, t.state \in ActiveStates \cup {"PAUSED"}
    PROVE  /\ move(t, "escalate") = [t EXCEPT !.state = "ESCALATED"]
           /\ move(t, "block") = [t EXCEPT !.state = "BLOCKED"]
           /\ move(t, "cancel") = [t EXCEPT !.state = "CANCELLED"]
           /\ move(t, "pause") = [t EXCEPT !.state = "PAUSED"]
BY DEF Task, move, transition, UNIVERSAL, IllegalTransition

(* Leaving with a move: the triggers are never refused in the states in    *)
(* which the loop is.                                                      *)
LEMMA Stopping ==
    ASSUME NEW t \in Task, ~t.refused, t.state \in ActiveStates \cup {"PAUSED"},
           \/ StopFrom(t, "escalate") \/ StopFrom(t, "block") \/ StopFrom(t, "cancel")
    PROVE  /\ task' \in Task /\ ~task'.refused /\ pc' = "ended"
           /\ task'.state \in {"ESCALATED", "BLOCKED", "CANCELLED"}
BY Escapes DEF StopFrom, Task, TaskState, TerminalStates

(* From each of its states the loop may be stopped. *)
LEMMA Stoppable ==
    ASSUME TypeOK, StateFollowsLoop, pc \notin {"ended", "closed"}
    PROVE  task \in Task /\ ~task.refused /\ task.state \in ActiveStates \cup {"PAUSED"}
BY DEF TypeOK, StateFollowsLoop, Pcs, AtWork, AtDiagnosis, ActiveStates, Task

(* An undecided hypothesis leaves one fewer, within the cap. *)
LEMMA UndecidedCounts ==
    ASSUME diag \in Diagnosis, diag.left > 0, diag.evaluated < MaxHypotheses, Undecided
    PROVE  diag' \in Diagnosis /\ pc' = "hypothesis"
<1>1. diag' = [left |-> diag.left - 1, evaluated |-> diag.evaluated + 1, probes |-> 0]
    BY DEF Undecided, Diagnosis
<1>2. /\ diag.left - 1 \in 0..MaxHypotheses + 1
      /\ diag.evaluated + 1 \in 0..MaxHypotheses
      /\ 0 \in 0..MaxProbes
    BY TaskLoopAssumption DEF Diagnosis
<1>3. QED
    BY <1>1, <1>2 DEF Diagnosis, Undecided

(* A failed gate leads to the diagnostician, or out when the cost is spent. *)
LEMMA DiagnosisEntered ==
    ASSUME TypeOK, StateFollowsLoop, EnterDiagnosis, pc \in {"T0", "T1"}
    PROVE  /\ task' \in Task /\ ~task'.refused
           /\ task'.state \in {"DIAGNOSING", "ESCALATED", "BLOCKED", "CANCELLED"}
           /\ \/ pc' = "ended"
              \/ pc' = "diagnosis_proposal" /\ task'.state = "DIAGNOSING" /\ cost < MaxCost
<1> USE TaskLoopAssumption
<1>a. task \in Task
    BY DEF TypeOK, Task
<1> DEFINE verifying == IF task.state \in {"IMPLEMENTING", "REPAIRING"}
                        THEN move(task, "verify") ELSE task
           failed == move(move(verifying, "gate_failed"), "diagnose")
<1>1. verifying = [task EXCEPT !.state = "VERIFYING"]
    BY <1>a, Moves DEF StateFollowsLoop, AtWork, Task
<1>2. failed = [task EXCEPT !.state = "DIAGNOSING"]
  <2>1. verifying \in Task /\ verifying.state = "VERIFYING"
      BY <1>1, <1>a DEF Task, TaskState, ActiveStates
  <2>2. move(verifying, "gate_failed") = [task EXCEPT !.state = "FAILED"]
      BY <1>1, <2>1, <1>a, Moves DEF Task
  <2>3. [task EXCEPT !.state = "FAILED"] \in Task
      BY <1>a DEF Task, TaskState, ActiveStates
  <2>4. QED
      BY <2>2, <2>3, <1>a, Moves DEF Task
<1>3. failed \in Task /\ ~failed.refused /\ failed.state = "DIAGNOSING"
    BY <1>2, <1>a DEF Task, TaskState, ActiveStates, StateFollowsLoop
<1>4. CASE remaining = 0 /\ StopFrom(failed, "escalate")
    BY <1>3, <1>4, Stopping DEF ActiveStates
<1>5. CASE remaining # 0 /\ task' = failed /\ pc' = "diagnosis_proposal"
    BY <1>3, <1>5 DEF remaining, TypeOK
<1>6. QED
  <2> HIDE DEF failed
  <2>1. \/ remaining = 0 /\ StopFrom(failed, "escalate")
        \/ remaining # 0 /\ task' = failed /\ pc' = "diagnosis_proposal"
      BY DEF EnterDiagnosis, failed
  <2>2. QED
      BY <2>1, <1>4, <1>5

(* The loop begins in the inductive invariant (runTaskLoopWithLease's own   *)
(* initial values, under the lease that loop-run acquired before it).      *)
THEOREM InitInv == Init => IInv
<1> SUFFICES ASSUME Init PROVE IInv
    OBVIOUS
<1>1. NoRound \in Round /\ NoDiagnosis \in Diagnosis
    BY TaskLoopAssumption DEF NoRound, NoDiagnosis, NoGate, Round, Diagnosis, GateRun, Claims
<1>2. task \in Task
    BY DEF Init, Task, TaskState, ActiveStates
<1>3. TypeOK
    BY <1>1, <1>2 DEF Init, TypeOK, Task, Round, Diagnosis, Pcs, ActiveStates
<1>4. QED
    BY <1>3, TaskLoopAssumption
    DEF Init, IInv, StateFollowsLoop, BudgetFollowsLoop, SignalFollowsLoop, AtWork, AtDiagnosis

(* Every step of the loop, of the operator and of the world keeps it: one  *)
(* step of the proof for each action.                                      *)
THEOREM StepInv == IInv /\ [Next]_vars => IInv'
<1> SUFFICES ASSUME IInv, [Next]_vars PROVE IInv'
    OBVIOUS
<1> USE TaskLoopAssumption DEF IInv
<1>a. task \in Task /\ round \in Round /\ diag \in Diagnosis
    BY DEF TypeOK, Task, Round, Diagnosis
<1>1. CASE walk
  <2>1. task' = [task EXCEPT !.state = "IMPLEMENTING"]
      BY <1>1, <1>a, Moves DEF walk, Task, TaskState, ActiveStates, StateFollowsLoop
  <2>2. QED
      BY <1>1, <1>a, <2>1 DEF walk, TypeOK, Task, TaskState, ActiveStates, StateFollowsLoop,
         BudgetFollowsLoop, SignalFollowsLoop, Pcs, AtWork, AtDiagnosis,
         work, budget, human, ownership
<1>2. CASE poll
  <2>1. NoRound \in Round /\ NoDiagnosis \in Diagnosis
      BY DEF NoRound, NoDiagnosis, NoGate, Round, Diagnosis, GateRun, Claims
  <2>2. CASE signal = "kill" /\ StopFrom(task, "cancel") /\ UNCHANGED prePause
      BY <1>2, <1>a, <2>1, <2>2, Stopping, Stoppable
      DEF poll, TypeOK, Task, StateFollowsLoop, BudgetFollowsLoop, SignalFollowsLoop, Pcs,
          AtWork, AtDiagnosis, Round, Diagnosis, budget, human, ownership
  <2>3. CASE signal = "pause" /\ prePause' = task.state /\ task' = move(task, "pause")
             /\ pc' = "paused"
    <3>1. task' = [task EXCEPT !.state = "PAUSED"] /\ task.state \in {"IMPLEMENTING", "REPAIRING"}
        BY <1>2, <1>a, <2>3, Escapes, Stoppable DEF poll, StateFollowsLoop, AtWork
    <3>2. QED
        BY <1>2, <1>a, <2>1, <2>3, <3>1
        DEF poll, TypeOK, Task, TaskState, ActiveStates, StateFollowsLoop, BudgetFollowsLoop,
            SignalFollowsLoop, Pcs, AtWork, AtDiagnosis, Round, Diagnosis, budget, human,
            ownership
  <2>4. CASE signal = "none" /\ pc' = "fold" /\ UNCHANGED <<task, prePause>>
      BY <1>2, <1>a, <2>1, <2>4
      DEF poll, TypeOK, StateFollowsLoop, BudgetFollowsLoop, SignalFollowsLoop, Pcs, AtWork,
          AtDiagnosis, Round, Diagnosis, budget, human, ownership
  <2>5. QED
      BY <1>2, <2>2, <2>3, <2>4 DEF poll
<1>3. CASE resume
  <2>1. pc = "resumed" /\ task.state = "PAUSED" /\ prePause \in {"IMPLEMENTING", "REPAIRING"}
        /\ UNCHANGED <<work, tree, budget, human>>
      BY <1>3 DEF resume, StateFollowsLoop
  <2>2. CASE /\ (verifyOwnership /\ UNCHANGED ownership) \/ Ownership!Grant(Self)
             /\ task' = IF resumeTransition(task.state, prePause) = IllegalTransition THEN task
                        ELSE [task EXCEPT !.state = resumeTransition(task.state, prePause)]
             /\ pc' = "fold"
    <3>1. task' = [task EXCEPT !.state = prePause]
        BY <2>1, <2>2 DEF resumeTransition, IllegalTransition, ActiveStates
    <3>a. holder \in {Self, Rival, Nobody} /\ gen \in Nat /\ lapsed \in BOOLEAN
        BY DEF TypeOK
    <3>2. holder' \in {Self, Rival, Nobody} /\ gen' \in Nat /\ lapsed' \in BOOLEAN
      <4>1. CASE UNCHANGED ownership
          BY <3>a, <4>1 DEF ownership
      <4>2. CASE Ownership!Grant(Self)
        <5>1. holder' = Self /\ gen' = gen + 1 /\ lapsed' = FALSE
            BY <4>2, Zenon DEF Ownership!Grant
        <5>2. gen' \in Nat
            BY <3>a, <5>1
        <5>3. holder' \in {Self, Rival, Nobody} /\ lapsed' \in BOOLEAN
            BY <5>1, Zenon
        <5>4. QED
            BY <5>2, <5>3
      <4>3. QED
          BY <2>2, <4>1, <4>2
    <3>3. QED
        BY <2>1, <2>2, <3>1, <3>2, <1>a
        DEF TypeOK, Task, TaskState, ActiveStates, StateFollowsLoop, BudgetFollowsLoop,
            SignalFollowsLoop, Pcs, AtWork, AtDiagnosis, work, budget, human
  <2>3. CASE holder = Rival /\ ~lapsed /\ StopFrom(task, "escalate") /\ UNCHANGED ownership
      BY <2>1, <2>3, <1>a, Stopping, Stoppable
      DEF TypeOK, Task, StateFollowsLoop, BudgetFollowsLoop, SignalFollowsLoop, Pcs, AtWork,
          AtDiagnosis, work, budget, human, ownership
  <2>4. QED
      BY <1>3, <2>2, <2>3 DEF resume
<1>4. CASE fold
  <2>1. pc = "fold" /\ task.state \in {"IMPLEMENTING", "REPAIRING"} /\ signal = "none"
      BY <1>4 DEF fold, StateFollowsLoop, SignalFollowsLoop, AtWork
  <2>2. CASE StopFrom(task, "escalate")
      BY <1>4, <2>1, <2>2, <1>a, Stopping, Stoppable
      DEF fold, TypeOK, Task, StateFollowsLoop, BudgetFollowsLoop, SignalFollowsLoop, Pcs,
          AtWork, AtDiagnosis, budget, ownership
  <2>3. CASE ~exceeded /\ remaining # 0 /\ pc' = "propose" /\ UNCHANGED task
    <3>1. iterations < MaxIterations /\ cost < MaxCost
        BY <2>3 DEF exceeded, remaining, TypeOK
    <3>2. QED
        BY <1>4, <2>1, <2>3, <3>1
        DEF fold, TypeOK, StateFollowsLoop, BudgetFollowsLoop, SignalFollowsLoop, Pcs,
            AtWork, AtDiagnosis, budget, ownership
  <2>4. QED
      BY <1>4, <2>2, <2>3 DEF fold
<1>5. CASE requireOwnership
    BY <1>5, <1>a, Stopping, Stoppable
    DEF requireOwnership, OwnershipBoundaries, TypeOK, Task, StateFollowsLoop,
        BudgetFollowsLoop, SignalFollowsLoop, Pcs, AtWork, AtDiagnosis, work, budget, human,
        ownership
<1>6. CASE requestProposal
    BY <1>6
    DEF requestProposal, TypeOK, StateFollowsLoop, BudgetFollowsLoop, SignalFollowsLoop, Pcs,
        AtWork, AtDiagnosis, work, budget, human, ownership
<1>7. CASE appendProposalIntent
    BY <1>7
    DEF appendProposalIntent, TypeOK, StateFollowsLoop, BudgetFollowsLoop, SignalFollowsLoop,
        Pcs, AtWork, AtDiagnosis, work, budget, human, ownership
<1>8. CASE proposalResult
  <2>1. pc = "awaiting" /\ UNCHANGED <<prePause, tree, human, ownership>>
        /\ iterations < MaxIterations /\ iterations \in Nat
      BY <1>8 DEF proposalResult, BudgetFollowsLoop, TypeOK
  <2>2. CASE InvalidUsage
      BY <2>1, <2>2, <1>a, Stopping, Stoppable
      DEF InvalidUsage, TypeOK, Task, StateFollowsLoop, BudgetFollowsLoop, SignalFollowsLoop,
          Pcs, AtWork, AtDiagnosis, budget, human, ownership
  <2>3. ASSUME NEW c \in Costs, NEW k \in Claims, NEW n \in 0..MaxActions, NEW r \in BOOLEAN,
               chargeUsage(c), feedback' = "none", pc' = "action", UNCHANGED <<task, diag>>,
               round' = [round EXCEPT !.claim = k, !.todo = n, !.rejected = r]
        PROVE  IInv'
    <3>1. round' \in Round
        BY <2>3, <1>a DEF Round
    <3>2. QED
        BY <2>1, <2>3, <3>1
        DEF chargeUsage, TypeOK, Round, StateFollowsLoop, BudgetFollowsLoop,
            SignalFollowsLoop, Pcs, AtWork, AtDiagnosis, human, ownership
  <2>4. QED
      BY <1>8, <2>2, <2>3 DEF proposalResult
<1>9. CASE startAction
    BY <1>9
    DEF startAction, TypeOK, StateFollowsLoop, BudgetFollowsLoop, SignalFollowsLoop, Pcs,
        AtWork, AtDiagnosis, work, budget, human, ownership
<1>10. CASE execute
  <2>1. round' \in Round
      BY <1>10, <1>a DEF execute, Round
  <2>2. QED
      BY <1>10, <2>1
      DEF execute, TypeOK, Round, StateFollowsLoop, BudgetFollowsLoop, SignalFollowsLoop,
          Pcs, AtWork, AtDiagnosis, budget, human, ownership
<1>11. CASE acting
  <2>1. round' \in Round /\ tree' \in Trees
      BY <1>11, <1>a DEF acting, Round, TypeOK
  <2>2. QED
      BY <1>11, <2>1
      DEF acting, TypeOK, Round, StateFollowsLoop, BudgetFollowsLoop, SignalFollowsLoop,
          Pcs, AtWork, AtDiagnosis, budget, human, ownership
<1>12. CASE actionResult
  <2>1. round' \in Round
    <3>1. round.todo > 0
        BY <1>12 DEF actionResult, BudgetFollowsLoop
    <3>2. QED
        BY <1>12, <3>1, <1>a DEF actionResult, Round
  <2>2. QED
      BY <1>12, <2>1
      DEF actionResult, Round, TypeOK, StateFollowsLoop, BudgetFollowsLoop, SignalFollowsLoop, Pcs,
        AtWork, AtDiagnosis, budget, human, ownership
<1>13. CASE startT0
  <2>1. round' \in Round
      BY <1>13, <1>a DEF startT0, Round, GateRun, TypeOK
  <2>2. QED
      BY <1>13, <2>1
      DEF startT0, Round, TypeOK, StateFollowsLoop, BudgetFollowsLoop, SignalFollowsLoop, Pcs,
        AtWork, AtDiagnosis, budget, human, ownership
<1>14. CASE startT1
  <2>1. round' \in Round
      BY <1>14, <1>a DEF startT1, Round, GateRun, TypeOK
  <2>2. QED
      BY <1>14, <2>1
      DEF startT1, Round, TypeOK, StateFollowsLoop, BudgetFollowsLoop, SignalFollowsLoop, Pcs,
        AtWork, AtDiagnosis, budget, human, ownership
<1>15. CASE gateRefused
    BY <1>15, <1>a, Stopping, Stoppable
    DEF gateRefused, Task, TypeOK, StateFollowsLoop, BudgetFollowsLoop, SignalFollowsLoop, Pcs,
        AtWork, AtDiagnosis, work, budget, human, ownership
<1>17. CASE publishT0
  <2>1. pc = "T0" /\ task.state \in {"IMPLEMENTING", "REPAIRING"} /\ iterations <= MaxIterations
      BY <1>17 DEF publishT0, StateFollowsLoop, BudgetFollowsLoop, AtWork
  <2>2. UNCHANGED <<feedback, diag, prePause, tree, budget, human, ownership>>
      BY <1>17 DEF publishT0
  <2>3. CASE EnterDiagnosis /\ UNCHANGED round
      BY <2>1, <2>2, <2>3, DiagnosisEntered
      DEF Task, TypeOK, StateFollowsLoop, BudgetFollowsLoop, SignalFollowsLoop, Pcs,
        AtWork, AtDiagnosis, budget, human, ownership
  <2>4. CASE /\ round' = [round EXCEPT !.t0.pass = TRUE]
             /\ \/ round.claim = "READY_FOR_VERIFICATION" /\ task' = move(task, "verify")
                   /\ pc' = "gate:T1"
                \/ round.claim = "BLOCKED" /\ StopFrom(task, "block")
                \/ round.claim = "WORKING" /\ pc' = "boundary" /\ UNCHANGED task
    <3>1. round' \in Round /\ round'.t0.pass
        BY <2>4, <1>a DEF Round, GateRun
    <3>2. CASE task' = move(task, "verify") /\ pc' = "gate:T1"
      <4>1. task' = [task EXCEPT !.state = "VERIFYING"]
          BY <2>1, <3>2, <1>a, Moves
      <4>2. QED
          BY <2>1, <2>2, <3>1, <3>2, <4>1, <1>a
          DEF Task, TaskState, ActiveStates, Round, TypeOK, StateFollowsLoop, BudgetFollowsLoop, SignalFollowsLoop, Pcs,
        AtWork, AtDiagnosis,
              budget, human, ownership
    <3>3. CASE StopFrom(task, "block")
        BY <2>1, <2>2, <3>1, <3>3, <1>a, Stopping, Stoppable
        DEF Task, Round, TypeOK, StateFollowsLoop, BudgetFollowsLoop, SignalFollowsLoop, Pcs,
        AtWork, AtDiagnosis, budget, human, ownership
    <3>4. CASE pc' = "boundary" /\ UNCHANGED task
        BY <2>1, <2>2, <3>1, <3>4
        DEF Task, Round, TypeOK, StateFollowsLoop, BudgetFollowsLoop, SignalFollowsLoop, Pcs,
        AtWork, AtDiagnosis, budget, human, ownership
    <3>5. QED
        BY <2>4, <3>2, <3>3, <3>4
  <2>5. QED
      BY <1>17, <2>3, <2>4 DEF publishT0
<1>18. CASE publishT1
  <2>1. pc = "T1" /\ task.state = "VERIFYING" /\ iterations <= MaxIterations
      BY <1>18 DEF publishT1, StateFollowsLoop, BudgetFollowsLoop
  <2>2. UNCHANGED <<feedback, diag, prePause, tree, budget, human, ownership>>
      BY <1>18 DEF publishT1
  <2>3. CASE EnterDiagnosis /\ UNCHANGED round
      BY <2>1, <2>2, <2>3, DiagnosisEntered
      DEF Task, TypeOK, StateFollowsLoop, BudgetFollowsLoop, SignalFollowsLoop, Pcs,
        AtWork, AtDiagnosis, budget, human, ownership
  <2>4. CASE StopFrom(task, "escalate") /\ UNCHANGED round
      BY <2>1, <2>2, <2>4, <1>a, Stopping, Stoppable
      DEF Task, TypeOK, StateFollowsLoop, BudgetFollowsLoop, SignalFollowsLoop, Pcs,
        AtWork, AtDiagnosis, budget, human, ownership
  <2>5. CASE /\ StopFrom(move(task, "gate_passed"), "review")
             /\ round' = [round EXCEPT !.t1.pass = TRUE]
    <3>1. round' \in Round
        BY <2>5, <1>a DEF Round, GateRun
    <3>2. move(task, "gate_passed") = [task EXCEPT !.state = "PASSED"]
        BY <2>1, <1>a, Moves
    <3>3. [task EXCEPT !.state = "PASSED"] \in Task
        BY <1>a DEF Task, TaskState, ActiveStates
    <3>4. task' = [task EXCEPT !.state = "REVIEWING"] /\ pc' = "ended"
        BY <2>5, <3>2, <3>3, <1>a, Moves DEF StopFrom, Task
    <3>5. QED
        BY <2>1, <2>2, <3>1, <3>4, <1>a
        DEF Task, TaskState, ActiveStates, Round, TypeOK, StateFollowsLoop, BudgetFollowsLoop, SignalFollowsLoop, Pcs,
        AtWork, AtDiagnosis, budget, human, ownership
  <2>6. QED
      BY <1>18, <2>3, <2>4, <2>5 DEF publishT1
<1>19. CASE diagnosisResult
  <2>1. pc = "diagnosing" /\ UNCHANGED <<prePause, tree, human, ownership>>
        /\ iterations <= MaxIterations /\ iterations \in Nat /\ task.state = "DIAGNOSING"
      BY <1>19 DEF diagnosisResult, BudgetFollowsLoop, StateFollowsLoop, AtDiagnosis, TypeOK
  <2>2. CASE InvalidUsage
      BY <2>1, <2>2, <1>a, Stopping, Stoppable
      DEF InvalidUsage, Task, TypeOK, StateFollowsLoop, BudgetFollowsLoop, SignalFollowsLoop, Pcs,
        AtWork, AtDiagnosis, budget, human, ownership
  <2>3. ASSUME NEW c \in Costs, NEW n \in 0..MaxHypotheses + 1, chargeUsage(c),
               diag' = [NoDiagnosis EXCEPT !.left = n], pc' = "hypothesis",
               UNCHANGED <<task, feedback, round>>
        PROVE  IInv'
    <3>1. diag' \in Diagnosis
        BY <2>3 DEF Diagnosis, NoDiagnosis
    <3>2. QED
        BY <2>1, <2>3, <3>1
        DEF chargeUsage, Diagnosis, TypeOK, StateFollowsLoop, BudgetFollowsLoop, SignalFollowsLoop, Pcs,
        AtWork, AtDiagnosis, human, ownership
  <2>4. QED
      BY <1>19, <2>2, <2>3 DEF diagnosisResult
<1>20. CASE hypothesis
  <2>1. pc = "hypothesis" /\ UNCHANGED <<feedback, round, prePause, tree, budget, human, ownership>>
      BY <1>20 DEF hypothesis
  <2>2. CASE Exhausted
      BY <2>1, <2>2, <1>a, Stopping, Stoppable
      DEF Exhausted, Task, TypeOK, StateFollowsLoop, BudgetFollowsLoop, SignalFollowsLoop, Pcs,
        AtWork, AtDiagnosis, budget, human, ownership
  <2>3. CASE diag.left > 0 /\ diag.evaluated < MaxHypotheses /\ UNCHANGED task
             /\ (Undecided \/ ((\E n \in 1..MaxProbes : diag' = [diag EXCEPT !.probes = n])
                               /\ pc' = "probe"))
    <3>1. diag' \in Diagnosis /\ pc' \in {"hypothesis", "probe"}
        BY <2>3, <1>a, UndecidedCounts DEF Diagnosis
    <3>2. pc' = "probe" => diag'.left > 0 /\ diag'.evaluated < MaxHypotheses /\ diag'.probes > 0
        BY <2>3, <1>a DEF Undecided, Diagnosis
    <3>3. QED
        BY <2>1, <2>3, <3>1, <3>2
        DEF Diagnosis, TypeOK, StateFollowsLoop, BudgetFollowsLoop, SignalFollowsLoop, Pcs,
        AtWork, AtDiagnosis, budget, human, ownership
  <2>4. QED
      BY <1>20, <2>2, <2>3 DEF hypothesis
<1>21. CASE probe
  <2>1. pc = "probe" /\ UNCHANGED <<feedback, round, prePause, tree, budget, human, ownership>>
      BY <1>21 DEF probe
  <2>2. CASE Exhausted
      BY <2>1, <2>2, <1>a, Stopping, Stoppable
      DEF Exhausted, Task, TypeOK, StateFollowsLoop, BudgetFollowsLoop, SignalFollowsLoop, Pcs,
        AtWork, AtDiagnosis, budget, human, ownership
  <2>3. CASE pc' = "probing" /\ UNCHANGED <<task, diag>>
      BY <2>1, <2>3
      DEF TypeOK, StateFollowsLoop, BudgetFollowsLoop, SignalFollowsLoop, Pcs,
        AtWork, AtDiagnosis, budget, human, ownership
  <2>4. QED
      BY <1>21, <2>2, <2>3 DEF probe
<1>22. CASE probeRun
  <2>1. pc = "probing" /\ UNCHANGED <<round, prePause, tree, budget, human, ownership>>
        /\ task.state = "DIAGNOSING"
      BY <1>22 DEF probeRun, StateFollowsLoop, AtDiagnosis
  <2>2. diag.left > 0 /\ diag.evaluated < MaxHypotheses /\ diag.probes > 0
      BY <2>1 DEF BudgetFollowsLoop
  <2>3. CASE Undecided /\ UNCHANGED <<task, feedback>>
    <3>1. diag' \in Diagnosis /\ pc' = "hypothesis"
        BY <2>2, <2>3, <1>a, UndecidedCounts
    <3>2. QED
        BY <2>1, <2>3, <3>1
        DEF Diagnosis, TypeOK, StateFollowsLoop, BudgetFollowsLoop, SignalFollowsLoop, Pcs,
        AtWork, AtDiagnosis, budget, human, ownership
  <2>4. CASE diag.probes > 1 /\ diag' = [diag EXCEPT !.probes = @ - 1] /\ pc' = "probe"
             /\ UNCHANGED <<task, feedback>>
    <3>1. diag' \in Diagnosis /\ diag'.left > 0 /\ diag'.evaluated < MaxHypotheses
          /\ diag'.probes > 0
        BY <2>2, <2>4, <1>a DEF Diagnosis
    <3>2. QED
        BY <2>1, <2>4, <3>1
        DEF Diagnosis, TypeOK, StateFollowsLoop, BudgetFollowsLoop, SignalFollowsLoop, Pcs,
        AtWork, AtDiagnosis, budget, human, ownership
  <2>5. CASE task' = move(task, "repair") /\ feedback' = "patch_plan" /\ pc' = "boundary"
             /\ UNCHANGED diag
    <3>1. task' = [task EXCEPT !.state = "REPAIRING"]
        BY <2>1, <2>5, <1>a, Moves
    <3>2. QED
        BY <2>1, <2>5, <3>1, <1>a
        DEF Task, TaskState, ActiveStates, TypeOK, StateFollowsLoop, BudgetFollowsLoop, SignalFollowsLoop, Pcs,
        AtWork, AtDiagnosis, budget, human, ownership
  <2>6. QED
      BY <1>22, <2>3, <2>4, <2>5 DEF probeRun
<1>23. ASSUME Ownership!Vacate
       PROVE  holder' = Nobody /\ gen' = gen /\ lapsed' = FALSE
    BY <1>23, Zenon DEF Ownership!Vacate
<1>24. CASE finally
  <2>1. pc = "ended" /\ pc' = "closed" /\ UNCHANGED <<task, work, tree, budget, human>>
      BY <1>24 DEF finally
  <2>2. holder' \in {Self, Rival, Nobody} /\ gen' \in Nat /\ lapsed' \in BOOLEAN
      BY <1>24, <1>23 DEF finally, ownership, TypeOK
  <2>3. QED
      BY <2>1, <2>2
      DEF TypeOK, StateFollowsLoop, BudgetFollowsLoop, SignalFollowsLoop, Pcs,
        AtWork, AtDiagnosis, work, budget, human
<1>25. CASE requestPause
    BY <1>25
    DEF requestPause, Yielded, TypeOK, StateFollowsLoop, BudgetFollowsLoop, SignalFollowsLoop, Pcs,
        AtWork, AtDiagnosis, work, budget, ownership
<1>26. CASE requestResume
    BY <1>26
    DEF requestResume, Yielded, TypeOK, StateFollowsLoop, BudgetFollowsLoop, SignalFollowsLoop, Pcs,
        AtWork, AtDiagnosis, work, budget, ownership
<1>27. CASE requestKill
  <2>1. Yielded /\ signal' = "kill" /\ UNCHANGED <<work, tree, budget, guidance, ownership>>
      BY <1>27 DEF requestKill
  <2>2. CASE pc = "paused" /\ StopFrom(task, "cancel")
      BY <2>1, <2>2, <1>a, Stopping, Stoppable
      DEF Task, TypeOK, StateFollowsLoop, BudgetFollowsLoop, SignalFollowsLoop, Pcs,
        AtWork, AtDiagnosis, work, budget, ownership
  <2>3. CASE UNCHANGED <<task, pc>>
      BY <2>1, <2>3
      DEF Yielded, TypeOK, StateFollowsLoop, BudgetFollowsLoop, SignalFollowsLoop, Pcs,
        AtWork, AtDiagnosis, work, budget, ownership
  <2>4. QED
      BY <1>27, <2>2, <2>3 DEF requestKill
<1>28. CASE onInject
    BY <1>28
    DEF onInject, Yielded, TypeOK, StateFollowsLoop, BudgetFollowsLoop, SignalFollowsLoop, Pcs,
        AtWork, AtDiagnosis, work, budget, ownership
<1>29. CASE TimeRunsOut
    BY <1>29
    DEF TimeRunsOut, TypeOK, StateFollowsLoop, BudgetFollowsLoop, SignalFollowsLoop, Pcs,
        AtWork, AtDiagnosis, work, human, ownership
<1>30. CASE Lapse
  <2>1. holder' = holder /\ gen' = gen /\ lapsed' = TRUE
      BY <1>30, Zenon DEF Lapse, Ownership!Lapse
  <2>2. QED
      BY <1>30, <2>1
      DEF Lapse, TypeOK, StateFollowsLoop, BudgetFollowsLoop, SignalFollowsLoop, Pcs,
        AtWork, AtDiagnosis, work, budget, human
<1>31. CASE RivalClaims
  <2>1. holder' = Rival /\ gen' = gen + 1 /\ lapsed' = FALSE
      BY <1>31, Zenon DEF RivalClaims, Ownership!Grant
  <2>2. gen' \in Nat /\ lapsed' \in BOOLEAN /\ holder' \in {Self, Rival, Nobody}
    <3>1. gen' \in Nat
        BY <2>1 DEF TypeOK
    <3>2. QED
        BY <2>1, <3>1, Zenon
  <2>3. UNCHANGED <<task, pc, work, tree, budget, human>>
      BY <1>31 DEF RivalClaims
  <2>4. QED
      BY <2>2, <2>3
      DEF TypeOK, StateFollowsLoop, BudgetFollowsLoop, SignalFollowsLoop, Pcs,
        AtWork, AtDiagnosis, work, budget, human
<1>32. CASE RivalReleases
    BY <1>32, <1>23
    DEF RivalReleases, TypeOK, StateFollowsLoop, BudgetFollowsLoop, SignalFollowsLoop, Pcs,
        AtWork, AtDiagnosis, work, budget, human
<1>33. CASE TreeEdited
    BY <1>33
    DEF TreeEdited, TypeOK, StateFollowsLoop, BudgetFollowsLoop, SignalFollowsLoop, Pcs,
        AtWork, AtDiagnosis, work, budget, human, ownership
<1>34. CASE Returned \/ UNCHANGED vars
    BY <1>34
    DEF Returned, vars, TypeOK, StateFollowsLoop, BudgetFollowsLoop, SignalFollowsLoop, Pcs,
        AtWork, AtDiagnosis, work, budget, human, ownership
<1>35. CASE executorThrows
    BY <1>35
    DEF executorThrows, TypeOK, StateFollowsLoop, BudgetFollowsLoop, SignalFollowsLoop, Pcs,
        AtWork, AtDiagnosis, work, budget, human, ownership
<1>36. QED
    BY <1>1, <1>2, <1>3, <1>4, <1>5, <1>6, <1>7, <1>8, <1>9, <1>10, <1>11, <1>12, <1>13,
       <1>14, <1>15, <1>17, <1>18, <1>19, <1>20, <1>21, <1>22, <1>24, <1>25, <1>26, <1>27,
       <1>28, <1>29, <1>30, <1>31, <1>32, <1>33, <1>34, <1>35
    DEF Next, LoopStep, Environment

------------------------------------------------------------------------------
(* No step but the publication of a passing T1 over T0's tree reaches      *)
(* REVIEWING.                                                              *)
LEMMA OnlyT1Reviews ==
    ASSUME IInv, Next, task'.state = "REVIEWING", task.state # "REVIEWING"
    PROVE  /\ pc = "T1" /\ MayCommit
           /\ round.t1.tree = round.t0.tree
           /\ round' = [round EXCEPT !.t1.pass = TRUE]
<1> USE DEF IInv
<1>a. task \in Task
    BY DEF TypeOK, Task
<1>b. ASSUME NEW trigger \in {"escalate", "block", "cancel"}, StopFrom(task, trigger),
             pc \notin {"ended", "closed"}
      PROVE  FALSE
    BY <1>b, <1>a, Stopping, Stoppable
<1>1. ~walk
  <2>1. walk => task' = [task EXCEPT !.state = "IMPLEMENTING"]
      BY <1>a, Moves DEF walk, Task, TaskState, ActiveStates, StateFollowsLoop
  <2>2. QED
      BY <2>1, <1>a DEF Task
<1>2. ~poll
  <2>1. poll /\ signal = "pause" => task' = [task EXCEPT !.state = "PAUSED"]
      BY <1>a, Escapes, Stoppable DEF poll
  <2>2. poll => signal \in {"pause", "none"}
      BY <1>b DEF poll
  <2>3. QED
      BY <2>1, <2>2, <1>a DEF poll, Task
<1>3. ~resume
  <2>1. resume => task' = [task EXCEPT !.state = prePause]
      BY <1>b DEF resume, StateFollowsLoop, resumeTransition, IllegalTransition, ActiveStates
  <2>2. QED
      BY <2>1, <1>a DEF resume, StateFollowsLoop, Task
<1>4. ~fold /\ ~requireOwnership /\ ~gateRefused
    BY <1>b DEF fold, requireOwnership, OwnershipBoundaries, gateRefused
<1>5. ~proposalResult /\ ~diagnosisResult
    BY <1>b DEF proposalResult, diagnosisResult, InvalidUsage
<1>6. ~publishT0
  <2>1. publishT0 => pc = "T0" /\ task.state \in {"IMPLEMENTING", "REPAIRING"}
      BY DEF publishT0, StateFollowsLoop, AtWork
  <2>2. publishT0 => ~EnterDiagnosis
      BY <2>1, DiagnosisEntered
  <2>3. publishT0 => task' # move(task, "verify")
      BY <2>1, <1>a, Moves DEF Task
  <2>4. QED
      BY <2>1, <2>2, <2>3, <1>b DEF publishT0
<1>7. ~hypothesis /\ ~probe
    BY <1>b DEF hypothesis, probe, Exhausted
<1>8. ~probeRun
  <2>1. probeRun => task.state = "DIAGNOSING"
      BY DEF probeRun, StateFollowsLoop, AtDiagnosis
  <2>2. QED
      BY <2>1, <1>a, Moves DEF probeRun, Task
<1>9. ~requestKill
    BY <1>b DEF requestKill
<1>10. publishT1
    BY <1>1, <1>2, <1>3, <1>4, <1>5, <1>6, <1>7, <1>8, <1>9
    DEF Next, LoopStep, Environment, requestProposal, appendProposalIntent, startAction,
        execute, acting, executorThrows, actionResult, startT0, startT1, finally, requestPause,
        requestResume, onInject, TimeRunsOut, Lapse, RivalClaims, RivalReleases, TreeEdited,
        Returned, vars
<1>11. ~EnterDiagnosis
    BY <1>10, DiagnosisEntered DEF publishT1
<1>12. QED
    BY <1>10, <1>11, <1>b DEF publishT1

------------------------------------------------------------------------------
LEMMA Invariance == Spec => []IInv
BY InitInv, StepInv, PTL DEF Spec

(* Every state of the loop is of its type, whatever the limits and costs.  *)
THEOREM TypeCorrect == Spec => []TypeOK
BY Invariance, PTL DEF IInv

(* The table never refuses a trigger of the loop (REQ-7.4).                *)
THEOREM MovesAreLegal == Spec => []NoIllegalMove
<1>1. IInv => NoIllegalMove
    BY DEF IInv, StateFollowsLoop, NoIllegalMove
<1>2. QED
    BY <1>1, Invariance, PTL

(* The loop asks for at most one proposal past the iteration limit.        *)
THEOREM RoundsBounded == Spec => []RoundsAreBounded
<1>1. IInv => RoundsAreBounded
    BY DEF IInv, BudgetFollowsLoop, RoundsAreBounded
<1>2. QED
    BY <1>1, Invariance, PTL

(* REVIEWING means both tiers passed over one tree, under the lease.       *)
THEOREM ReviewVerified == Spec => ReviewIsVerified
<1>1. IInv /\ [Next]_vars
        => [task'.state = "REVIEWING" /\ task.state # "REVIEWING"
              => /\ round'.t0.pass /\ round'.t1.pass
                 /\ round'.t0.tree = round'.t1.tree
                 /\ holder = Self]_vars
  <2> SUFFICES ASSUME IInv, Next, task'.state = "REVIEWING", task.state # "REVIEWING"
               PROVE  /\ round'.t0.pass /\ round'.t1.pass
                      /\ round'.t0.tree = round'.t1.tree
                      /\ holder = Self
      BY DEF vars
  <2>1. /\ pc = "T1" /\ MayCommit
        /\ round.t1.tree = round.t0.tree
        /\ round' = [round EXCEPT !.t1.pass = TRUE]
      BY OnlyT1Reviews
  <2>2. round.t0.pass /\ round \in Round
      BY <2>1 DEF IInv, TypeOK, StateFollowsLoop, Round
  <2>3. QED
      BY <2>1, <2>2 DEF MayCommit, Round, GateRun
<1>2. QED
    BY <1>1, Invariance, PTL DEF Spec, ReviewIsVerified

(* No request, of either role, is made on a spent cost budget.             *)
THEOREM RequestsWithinCost == Spec => NoRequestOnSpentBudget
<1>1. IInv /\ [Next]_vars => [Requesting => cost < MaxCost]_vars
  <2> SUFFICES ASSUME IInv, Next, Requesting PROVE cost < MaxCost
      BY DEF vars, Requesting
  <2>1. requestProposal
      BY DEF Next, LoopStep, Environment, Requesting, walk, poll, resume, fold,
             requireOwnership, StopFrom, appendProposalIntent, proposalResult, InvalidUsage,
             startAction, execute, acting, executorThrows, actionResult, startT0, startT1, gateRefused,
             publishT0, publishT1, EnterDiagnosis, diagnosisResult, hypothesis, Exhausted,
             Undecided, probe, probeRun, finally, requestPause, requestResume, requestKill,
             onInject, TimeRunsOut, Lapse, RivalClaims, RivalReleases, TreeEdited, Returned,
             vars
  <2>2. QED
      BY <2>1 DEF requestProposal, IInv, BudgetFollowsLoop
<1>2. QED
    BY <1>1, Invariance, PTL DEF Spec, NoRequestOnSpentBudget

(* A pause, a kill or guidance accepted at any await is heard before the   *)
(* implementer is asked again, and guidance is told until it is answered.  *)
THEOREM OperatorHeard == Spec => OperatorIsHeard
<1> DEFINE Heard ==
       /\ pc = "propose" /\ pc' = "intent" => signal = "none" /\ ~guidance
       /\ guidance /\ ~guidance' => feedback' = "guidance"
       /\ feedback = "guidance" /\ feedback' # "guidance" => pc = "awaiting"
<1>1. IInv /\ [Next]_vars => [Heard]_vars
  <2> SUFFICES ASSUME IInv, Next PROVE Heard
      OBVIOUS
  <2>1. pc = "propose" => signal = "none" /\ ~guidance
      BY DEF IInv, SignalFollowsLoop
  <2>2. fold \/ guidance' = guidance \/ guidance'
      BY DEF Next, LoopStep, Environment, walk, poll, resume, requireOwnership,
             requestProposal, appendProposalIntent, proposalResult,
             startAction, execute, acting, executorThrows, actionResult, startT0, startT1,
             gateRefused, publishT0, publishT1, diagnosisResult, hypothesis,
             probe, probeRun, finally, requestPause, requestResume, requestKill,
             onInject, TimeRunsOut, Lapse, RivalClaims, RivalReleases, TreeEdited, Returned,
             vars, human
  <2>3. guidance /\ ~guidance' => feedback' = "guidance"
      BY <2>2 DEF fold
  <2>4. ASSUME feedback = "guidance", pc # "awaiting" PROVE feedback' = feedback
    <3>1. pc \in {"propose", "intent", "ended", "closed"}
        BY <2>4 DEF IInv, SignalFollowsLoop
    <3>2. QED
        BY <2>4, <3>1
        DEF Next, LoopStep, Environment, walk, poll, resume, fold, requireOwnership,
             requestProposal, appendProposalIntent, proposalResult,
             startAction, execute, acting, executorThrows, actionResult, startT0, startT1,
             gateRefused, publishT0, publishT1, diagnosisResult, hypothesis,
             probe, probeRun, finally, requestPause, requestResume, requestKill,
             onInject, TimeRunsOut, Lapse, RivalClaims, RivalReleases, TreeEdited, Returned,
             vars, work
  <2>5. QED
      BY <2>1, <2>3, <2>4
<1>2. QED
    BY <1>1, Invariance, PTL DEF Spec, OperatorIsHeard

(* Kill stays, and no round begins after it.                               *)
THEOREM KillFinal == Spec => KillIsFinal
<1>1. IInv /\ [Next]_vars => [signal = "kill" => signal' = "kill" /\ pc' # "propose"]_vars
  <2> SUFFICES ASSUME IInv, Next, signal = "kill"
               PROVE  signal' = "kill" /\ pc' # "propose"
      OBVIOUS
  <2>1. pc \notin {"resumed", "fold", "propose"}
      BY DEF IInv, SignalFollowsLoop
  <2>2. ~resume /\ ~fold /\ ~requestPause /\ ~requestResume
      BY <2>1 DEF resume, fold, requestPause, requestResume
  <2>3. QED
      BY <2>1, <2>2
      DEF Next, LoopStep, Environment, walk, poll, requireOwnership, StopFrom,
          requestProposal, appendProposalIntent, proposalResult, InvalidUsage, startAction,
          execute, acting, executorThrows, actionResult, startT0, startT1, gateRefused,
          publishT0, publishT1, EnterDiagnosis, diagnosisResult, hypothesis, Exhausted, Undecided,
          probe, probeRun, finally, requestKill, onInject, TimeRunsOut, Lapse, RivalClaims,
          RivalReleases, TreeEdited, Returned, vars, work, human
<1>2. QED
    BY <1>1, Invariance, PTL DEF Spec, KillIsFinal

==============================================================================
