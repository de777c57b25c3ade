------------------------------- MODULE TaskLoop -------------------------------
(***************************************************************************)
(* core/src/orchestrator/loop.ts: runTaskLoop for one task, with the       *)
(* hypothesis engine (core/src/repair/hypothesis.ts), the budget           *)
(* (core/src/budget/budget.ts) and the operator's controller               *)
(* (core/src/orchestrator/control.ts) that it runs over.                   *)
(*                                                                         *)
(* pc names the next await or the next ownership check.  Between two of    *)
(* them the JavaScript runs to completion, so it is one action; the human  *)
(* plane shares the thread and acts only at an await (Yielded).  Another   *)
(* process may take the lease, and the worktree may be edited, anywhere.   *)
(*                                                                         *)
(* Ownership is what Lease promises (FencedOwnership).  Lease shows that a *)
(* lost session never verifies again before a new claim, so the session's  *)
(* lost flag is folded into verifyOwnership here.                          *)
(***************************************************************************)
EXTENDS Integers, TaskMachine

CONSTANTS
    Self, Rival,        \* this process and whoever else runs the task
    Nobody,             \* nobody holds the lease
    Trees,              \* worktree hashes
    NoTree,             \* no gate has frozen a tree in this round
    MaxIterations,      \* BudgetLimits.maxIterations
    MaxCost,            \* BudgetLimits.maxCostUnits
    Costs,              \* the valid usages a response may carry
    MaxActions,         \* bound: actions per proposal
    MaxHypotheses,      \* RepairPolicy.maxHypotheses
    MaxProbes,          \* RepairPolicy.maxProbesPerHypothesis
    MaxGen              \* bound: generations of the lease

ASSUME TaskLoopAssumption ==
    /\ Self # Rival /\ Nobody \notin {Self, Rival}
    /\ NoTree \notin Trees
    /\ {MaxIterations, MaxCost, MaxActions, MaxHypotheses, MaxProbes, MaxGen} \subseteq Nat
    /\ Costs \subseteq Nat

VARIABLES
    task,       \* the task state, and whether move() ever refused a trigger
    pc,         \* where the loop is
    prePause,   \* prePauseState
    feedback,   \* what the next proposal is told
    round,      \* the proposal being carried out and the gates run for it
    diag,       \* the hypotheses being evaluated
    tree,       \* hash of the worktree
    iterations, cost, overtime,     \* the budget tracker
    signal,     \* the controller's signal
    guidance,   \* the guidance queue is not empty
    holder, gen, lapsed             \* the lease

ownership == <<holder, gen, lapsed>>
budget == <<iterations, cost, overtime>>
human == <<signal, guidance>>
work == <<feedback, round, diag, prePause>>
vars == <<task, pc, work, tree, budget, human, ownership>>

Ownership == INSTANCE FencedOwnership WITH Owners <- {Self, Rival}, journal <- {}

Claims == {"WORKING", "READY_FOR_VERIFICATION", "BLOCKED"}

NoGate == [tree |-> NoTree, pass |-> FALSE]
NoRound == [claim |-> "WORKING", todo |-> 0, rejected |-> FALSE, t0 |-> NoGate, t1 |-> NoGate]
NoDiagnosis == [left |-> 0, evaluated |-> 0, probes |-> 0]

(* The awaits of the loop. *)
Yielded == pc \in {"paused", "awaiting", "acting", "T0", "T1", "diagnosing", "probing"}

Pcs == {"walk", "boundary", "paused", "resumed", "fold", "propose", "intent", "awaiting",
        "action", "execute", "acting", "action_result", "T0", "gate:T1", "T1",
        "diagnosis_proposal", "diagnosis_intent", "diagnosing", "hypothesis", "probe",
        "probing", "ended", "closed"}

GateRun == [tree : Trees \cup {NoTree}, pass : BOOLEAN]

TypeOK ==
    /\ task \in [state : TaskState, refused : BOOLEAN]
    /\ pc \in Pcs
    /\ prePause \in ActiveStates
    /\ feedback \in {"none", "guidance", "rejections", "patch_plan"}
    /\ round \in [claim : Claims, todo : 0..MaxActions, rejected : BOOLEAN,
                  t0 : GateRun, t1 : GateRun]
    /\ diag \in [left : 0..MaxHypotheses + 1, evaluated : 0..MaxHypotheses,
                 probes : 0..MaxProbes]
    /\ tree \in Trees
    /\ iterations \in Nat /\ cost \in Nat /\ overtime \in BOOLEAN
    /\ signal \in {"none", "pause", "kill"} /\ guidance \in BOOLEAN
    /\ holder \in {Self, Rival, Nobody} /\ gen \in Nat /\ lapsed \in BOOLEAN

(* loop-run acquired the lease before it called runTaskLoop. *)
Init ==
    /\ task = [state |-> "PROPOSED", refused |-> FALSE]
    /\ pc = "walk"
    /\ prePause = "PROPOSED"
    /\ feedback = "none"
    /\ round = NoRound
    /\ diag = NoDiagnosis
    /\ tree \in Trees
    /\ iterations = 0 /\ cost = 0 /\ overtime = FALSE
    /\ signal = "none" /\ guidance = FALSE
    /\ holder = Self /\ gen = 1 /\ lapsed = FALSE

------------------------------------------------------------------------------
(* The helpers of runTaskLoopWithLease *)

(* move: an illegal trigger leaves the state and appends an ERROR event. *)
move(t, trigger) ==
    IF transition(t.state, trigger) = IllegalTransition
    THEN [t EXCEPT !.refused = TRUE]
    ELSE [t EXCEPT !.state = transition(t.state, trigger)]

(* Every way out of the loop with a move: escalate(), block, cancel. *)
StopFrom(t, trigger) == task' = move(t, trigger) /\ pc' = "ended"

exceeded == iterations >= MaxIterations \/ cost > MaxCost \/ overtime

remaining == IF cost >= MaxCost THEN 0 ELSE MaxCost - cost

(* TaskLeaseSession.verifyOwnership reads the clock and the row together.  *)
verifyOwnership == holder = Self /\ ~lapsed

(* appendFenced compares with a clock read before the write lock: a holder *)
(* whose lease ran out meanwhile may still commit, a replaced one cannot.  *)
MayCommit == holder = Self
MayBeFenced == holder # Self \/ lapsed

(* The places where requireOwnership comes next, named by its boundary. *)
OwnershipBoundaries ==
    {"propose", "awaiting", "action", "action_result", "gate:T1",
     "diagnosis_proposal", "diagnosing"}

requireOwnership ==
    /\ pc \in OwnershipBoundaries
    /\ ~verifyOwnership
    /\ StopFrom(task, "escalate")
    /\ UNCHANGED <<work, tree, budget, human, ownership>>

------------------------------------------------------------------------------
(* The steering boundary *)

(* startHeartbeat and the deterministic walk to the working state *)
walk ==
    /\ pc = "walk"
    /\ task' = move(move(move(task, "analyze"), "ready"), "start_implementing")
    /\ pc' = "boundary"
    /\ UNCHANGED <<work, tree, budget, human, ownership>>

poll ==
    /\ pc = "boundary"
    /\ round' = NoRound /\ diag' = NoDiagnosis
    /\ \/ signal = "kill" /\ StopFrom(task, "cancel") /\ UNCHANGED prePause
       \/ /\ signal = "pause"
          /\ prePause' = task.state
          /\ task' = move(task, "pause")
          /\ pc' = "paused"
       \/ signal = "none" /\ pc' = "fold" /\ UNCHANGED <<task, prePause>>
    /\ UNCHANGED <<feedback, tree, budget, human, ownership>>

(* defect: a resumed round begins where the pause interrupted the boundary, *)
(* past the queue of guidance                                              *)
resumePastGuidance ==
    /\ pc = "resumed"
    /\ \/ /\ \/ verifyOwnership /\ UNCHANGED ownership
             \/ Ownership!Grant(Self)
          /\ task' = [task EXCEPT !.state = prePause]
          /\ IF exceeded \/ remaining = 0 THEN pc' = "fold" ELSE pc' = "propose"
       \/ /\ holder = Rival /\ ~lapsed
          /\ StopFrom(task, "escalate")
          /\ UNCHANGED ownership
    /\ UNCHANGED <<work, tree, budget, human>>

(* waitResume answered 'resume': the lease is claimed again, under a new   *)
(* generation when it ran out, and the recorded state is restored.         *)
resume ==
    /\ pc = "resumed"
    /\ \/ /\ \/ verifyOwnership /\ UNCHANGED ownership
             \/ Ownership!Grant(Self)
          /\ task' = IF resumeTransition(task.state, prePause) = IllegalTransition THEN task
                     ELSE [task EXCEPT !.state = resumeTransition(task.state, prePause)]
          /\ pc' = "fold"
       \/ /\ holder = Rival /\ ~lapsed
          /\ StopFrom(task, "escalate")
          /\ UNCHANGED ownership
    /\ UNCHANGED <<work, tree, budget, human>>

(* defect: the boundary takes an exhausted iteration count for one left *)
foldOneRoundLate ==
    /\ pc = "fold"
    /\ guidance' = FALSE
    /\ feedback' = IF guidance THEN "guidance" ELSE feedback
    /\ IF iterations > MaxIterations \/ overtime \/ remaining = 0
         THEN StopFrom(task, "escalate")
         ELSE pc' = "propose" /\ UNCHANGED task
    /\ UNCHANGED <<round, diag, prePause, tree, budget, signal, ownership>>

(* takeGuidance, then the two budget checks *)
fold ==
    /\ pc = "fold"
    /\ guidance' = FALSE
    /\ feedback' = IF guidance THEN "guidance" ELSE feedback
    /\ IF exceeded \/ remaining = 0
         THEN StopFrom(task, "escalate")
         ELSE pc' = "propose" /\ UNCHANGED task
    /\ UNCHANGED <<round, diag, prePause, tree, budget, signal, ownership>>

------------------------------------------------------------------------------
(* The implementer's round *)

(* requireOwnership holds and source.propose is called, for the implementer*)
(* or for the diagnostician.                                               *)
requestProposal ==
    /\ verifyOwnership
    /\ \/ pc = "propose" /\ pc' = "intent"
       \/ pc = "diagnosis_proposal" /\ pc' = "diagnosis_intent"
    /\ UNCHANGED <<task, work, tree, budget, human, ownership>>

(* The source commits its PROPOSAL_INTENT and asks an adapter, or answers  *)
(* BLOCKED by itself.  The LeaseFenceError of a refused intent is caught   *)
(* nowhere before the finally of runTaskLoop.                              *)
appendProposalIntent ==
    /\ \/ pc = "intent" /\ pc' = "awaiting"
       \/ pc = "diagnosis_intent" /\ pc' = "diagnosing"
       \/ MayBeFenced /\ pc \in {"intent", "diagnosis_intent"} /\ pc' = "ended"
    /\ UNCHANGED <<task, work, tree, budget, human, ownership>>

(* chargeUsage: an invalid usage escalates and charges nothing. *)
chargeUsage(c) ==
    /\ iterations' = iterations + 1
    /\ cost' = cost + c
    /\ UNCHANGED overtime

InvalidUsage ==
    /\ StopFrom(task, "escalate")
    /\ UNCHANGED <<feedback, round, diag, budget>>

proposalResult ==
    /\ pc = "awaiting"
    /\ verifyOwnership
    /\ \/ InvalidUsage
       \/ /\ \E c \in Costs : chargeUsage(c)
          /\ feedback' = "none"
          /\ \E k \in Claims, n \in 0..MaxActions, r \in BOOLEAN :
               round' = [round EXCEPT !.claim = k, !.todo = n, !.rejected = r]
          /\ pc' = "action"
          /\ UNCHANGED <<task, diag>>
    /\ UNCHANGED <<prePause, tree, human, ownership>>

startAction ==
    /\ pc = "action" /\ round.todo > 0
    /\ verifyOwnership
    /\ pc' = "execute"
    /\ UNCHANGED <<task, work, tree, budget, human, ownership>>

(* executor.execute refuses the action, by policy or by the fence of its   *)
(* ACTION_INTENT, or commits the intent and begins.                        *)
execute ==
    /\ pc = "execute"
    /\ \/ pc' = "action_result" /\ round' = [round EXCEPT !.rejected = TRUE]
       \/ MayCommit /\ pc' = "acting" /\ UNCHANGED round
    /\ UNCHANGED <<task, feedback, diag, prePause, tree, budget, human, ownership>>

(* The effect lands, or it fails or cannot be committed: then the snapshot *)
(* taken before it is put back, over whatever was written meanwhile.       *)
acting ==
    /\ pc = "acting"
    /\ \/ MayCommit /\ UNCHANGED round
       \/ round' = [round EXCEPT !.rejected = TRUE]
    /\ tree' \in Trees
    /\ pc' = "action_result"
    /\ UNCHANGED <<task, feedback, diag, prePause, budget, human, ownership>>

(* executor.execute rethrows what is neither a fence nor a changed tree,   *)
(* for an action as for a probe; the loop catches nothing.                 *)
executorThrows ==
    /\ pc \in {"execute", "acting", "probing"}
    /\ pc = "acting" \/ UNCHANGED tree
    /\ tree' \in Trees
    /\ pc' = "ended"
    /\ UNCHANGED <<task, work, budget, human, ownership>>

actionResult ==
    /\ pc = "action_result"
    /\ verifyOwnership
    /\ round' = [round EXCEPT !.todo = @ - 1]
    /\ pc' = "action"
    /\ UNCHANGED <<task, feedback, diag, prePause, tree, budget, human, ownership>>

------------------------------------------------------------------------------
(* The gates.  runTier freezes the tree when it starts and commits its     *)
(* verdict, fenced, when it ends.                                          *)

startT0 ==
    /\ pc = "action" /\ round.todo = 0
    /\ verifyOwnership
    /\ feedback' = IF round.rejected THEN "rejections" ELSE feedback
    /\ round' = [round EXCEPT !.t0.tree = tree]
    /\ pc' = "T0"
    /\ UNCHANGED <<task, diag, prePause, tree, budget, human, ownership>>

startT1 ==
    /\ pc = "gate:T1"
    /\ verifyOwnership
    /\ round' = [round EXCEPT !.t1.tree = tree]
    /\ pc' = "T1"
    /\ UNCHANGED <<task, feedback, diag, prePause, tree, budget, human, ownership>>

(* publish refused by the fence, or the report does not authenticate *)
gateRefused ==
    /\ pc \in {"T0", "T1"}
    /\ StopFrom(task, "escalate")
    /\ UNCHANGED <<work, tree, budget, human, ownership>>

(* defects: 'verify' also from VERIFYING; a spent budget not looked at *)
EnterDiagnosisAlwaysVerify ==
    LET failed == move(move(move(task, "verify"), "gate_failed"), "diagnose")
    IN IF remaining = 0 THEN StopFrom(failed, "escalate")
       ELSE task' = failed /\ pc' = "diagnosis_proposal"

EnterDiagnosisUnchecked ==
    LET verifying == IF task.state \in {"IMPLEMENTING", "REPAIRING"}
                     THEN move(task, "verify") ELSE task
        failed == move(move(verifying, "gate_failed"), "diagnose")
    IN task' = failed /\ pc' = "diagnosis_proposal"

(* A failed T0 is met while IMPLEMENTING or REPAIRING, a failed T1 while   *)
(* VERIFYING; both lead to DIAGNOSING, or out when the cost is spent.      *)
EnterDiagnosis ==
    LET verifying == IF task.state \in {"IMPLEMENTING", "REPAIRING"}
                     THEN move(task, "verify") ELSE task
        failed == move(move(verifying, "gate_failed"), "diagnose")
    IN IF remaining = 0 THEN StopFrom(failed, "escalate")
       ELSE task' = failed /\ pc' = "diagnosis_proposal"

publishT0 ==
    /\ pc = "T0" /\ MayCommit
    /\ \/ EnterDiagnosis /\ UNCHANGED round
       \/ /\ round' = [round EXCEPT !.t0.pass = TRUE]
          /\ \/ /\ round.claim = "READY_FOR_VERIFICATION"
                /\ task' = move(task, "verify") /\ pc' = "gate:T1"
             \/ round.claim = "BLOCKED" /\ StopFrom(task, "block")
             \/ round.claim = "WORKING" /\ pc' = "boundary" /\ UNCHANGED task
    /\ UNCHANGED <<feedback, diag, prePause, tree, budget, human, ownership>>

(* defect: the second tier is not compared with the tree of the first *)
publishT1AnyTree ==
    /\ pc = "T1" /\ MayCommit
    /\ \/ EnterDiagnosis /\ UNCHANGED round
       \/ StopFrom(move(task, "gate_passed"), "review") /\ round' = [round EXCEPT !.t1.pass = TRUE]
    /\ UNCHANGED <<feedback, diag, prePause, tree, budget, human, ownership>>

publishT1 ==
    /\ pc = "T1" /\ MayCommit
    /\ \/ /\ round.t1.tree # round.t0.tree
          /\ StopFrom(task, "escalate") /\ UNCHANGED round
       \/ round.t1.tree = round.t0.tree /\ EnterDiagnosis /\ UNCHANGED round
       \/ /\ round.t1.tree = round.t0.tree
          /\ StopFrom(move(task, "gate_passed"), "review")
          /\ round' = [round EXCEPT !.t1.pass = TRUE]
    /\ UNCHANGED <<feedback, diag, prePause, tree, budget, human, ownership>>

------------------------------------------------------------------------------
(* The diagnostician's answer, and evaluateHypotheses *)

diagnosisResult ==
    /\ pc = "diagnosing"
    /\ verifyOwnership
    /\ \/ InvalidUsage
       \/ /\ \E c \in Costs : chargeUsage(c)
          /\ \E n \in 0..MaxHypotheses + 1 : diag' = [NoDiagnosis EXCEPT !.left = n]
          /\ pc' = "hypothesis"
          /\ UNCHANGED <<task, feedback, round>>
    /\ UNCHANGED <<prePause, tree, human, ownership>>

Exhausted == StopFrom(task, "escalate") /\ UNCHANGED diag

Undecided ==
    /\ diag' = [diag EXCEPT !.left = @ - 1, !.evaluated = @ + 1, !.probes = 0]
    /\ pc' = "hypothesis"

(* defect: one hypothesis more than the cap is evaluated *)
hypothesisOneMore ==
    /\ pc = "hypothesis"
    /\ \/ (diag.left = 0 \/ diag.evaluated > MaxHypotheses \/ exceeded) /\ Exhausted
       \/ /\ diag.left > 0 /\ diag.evaluated <= MaxHypotheses /\ ~exceeded
          /\ \/ Undecided
             \/ /\ \E n \in 1..MaxProbes : diag' = [diag EXCEPT !.probes = n]
                /\ pc' = "probe"
          /\ UNCHANGED task
    /\ UNCHANGED <<feedback, round, prePause, tree, budget, human, ownership>>

hypothesis ==
    /\ pc = "hypothesis"
    /\ \/ (diag.left = 0 \/ diag.evaluated >= MaxHypotheses \/ exceeded) /\ Exhausted
       \/ /\ diag.left > 0 /\ diag.evaluated < MaxHypotheses /\ ~exceeded
          /\ \/ Undecided        \* validateHypothesis refused it
             \/ /\ \E n \in 1..MaxProbes : diag' = [diag EXCEPT !.probes = n]
                /\ pc' = "probe"
          /\ UNCHANGED task
    /\ UNCHANGED <<feedback, round, prePause, tree, budget, human, ownership>>

probe ==
    /\ pc = "probe"
    /\ \/ exceeded /\ Exhausted
       \/ ~exceeded /\ pc' = "probing" /\ UNCHANGED <<task, diag>>
    /\ UNCHANGED <<feedback, round, prePause, tree, budget, human, ownership>>

(* runProbe: refused or failed, no match, or the first match *)
probeRun ==
    /\ pc = "probing"
    /\ \/ Undecided /\ UNCHANGED <<task, feedback>>
       \/ /\ MayCommit
          /\ \/ diag.probes = 1 /\ Undecided /\ UNCHANGED <<task, feedback>>
             \/ /\ diag.probes > 1
                /\ diag' = [diag EXCEPT !.probes = @ - 1]
                /\ pc' = "probe" /\ UNCHANGED <<task, feedback>>
             \/ /\ task' = move(task, "repair")
                /\ feedback' = "patch_plan"
                /\ pc' = "boundary" /\ UNCHANGED diag
    /\ UNCHANGED <<round, prePause, tree, budget, human, ownership>>

------------------------------------------------------------------------------
(* defect: the lease is released only when the loop ended with an outcome *)
finallyOnReturn ==
    /\ pc = "ended" /\ task.state \notin ActiveStates \ {"REVIEWING"}
    /\ pc' = "closed"
    /\ IF holder = Self THEN Ownership!Vacate ELSE UNCHANGED ownership
    /\ UNCHANGED <<task, work, tree, budget, human>>

(* finally: stopHeartbeat and the token-checked release *)
finally ==
    /\ pc = "ended"
    /\ pc' = "closed"
    /\ IF holder = Self THEN Ownership!Vacate ELSE UNCHANGED ownership
    /\ UNCHANGED <<task, work, tree, budget, human>>

LoopStep ==
    \/ walk \/ poll \/ resume \/ fold
    \/ requireOwnership \/ requestProposal \/ appendProposalIntent \/ proposalResult
    \/ startAction \/ execute \/ acting \/ executorThrows \/ actionResult
    \/ startT0 \/ startT1 \/ gateRefused \/ publishT0 \/ publishT1
    \/ diagnosisResult \/ hypothesis \/ probe \/ probeRun
    \/ finally

------------------------------------------------------------------------------
(* The operator: the controller behind POST /steering/* and /kill *)

(* defect: a pause replaces a kill *)
requestPauseAlways ==
    /\ Yielded
    /\ signal' = "pause"
    /\ UNCHANGED <<task, pc, work, tree, budget, guidance, ownership>>

(* Every state the loop can be seen in is in the API's STEERABLE set. *)
requestPause ==
    /\ Yielded
    /\ signal # "kill"
    /\ signal' = "pause"
    /\ UNCHANGED <<task, pc, work, tree, budget, guidance, ownership>>

requestResume ==
    /\ Yielded
    /\ signal # "kill"
    /\ signal' = "none"
    /\ pc' = IF pc = "paused" THEN "resumed" ELSE pc
    /\ UNCHANGED <<task, work, tree, budget, guidance, ownership>>

(* defect: the waiter of waitResume is not woken *)
requestKillNoWake ==
    /\ Yielded
    /\ signal' = "kill"
    /\ UNCHANGED <<task, pc, work, tree, budget, guidance, ownership>>

requestKill ==
    /\ Yielded
    /\ signal' = "kill"
    /\ IF pc = "paused" THEN StopFrom(task, "cancel") ELSE UNCHANGED <<task, pc>>
    /\ UNCHANGED <<work, tree, budget, guidance, ownership>>

(* Immediate while paused, atNextBoundary elsewhere; both use one queue,   *)
(* and both are refused once the lease does not verify.                    *)
onInject ==
    /\ Yielded
    /\ verifyOwnership
    /\ guidance' = TRUE
    /\ UNCHANGED <<task, pc, work, tree, budget, signal, ownership>>

(* The world: the clock, other processes, other hands in the worktree *)

TimeRunsOut ==
    /\ ~overtime /\ pc # "paused"
    /\ overtime' = TRUE
    /\ UNCHANGED <<task, pc, work, tree, iterations, cost, human, ownership>>

Lapse ==
    /\ ~lapsed /\ Ownership!Lapse
    /\ UNCHANGED <<task, pc, work, tree, budget, human>>

RivalClaims ==
    /\ gen < MaxGen
    /\ Ownership!Grant(Rival)
    /\ UNCHANGED <<task, pc, work, tree, budget, human>>

RivalReleases ==
    /\ holder = Rival /\ Ownership!Vacate
    /\ UNCHANGED <<task, pc, work, tree, budget, human>>

TreeEdited ==
    /\ tree' \in Trees \ {tree}
    /\ UNCHANGED <<task, pc, work, budget, human, ownership>>

(* Once the loop has returned the world is no longer of interest. *)
Environment ==
    /\ pc # "closed"
    /\ \/ requestPause \/ requestResume \/ requestKill \/ onInject
       \/ TimeRunsOut \/ Lapse \/ RivalClaims \/ RivalReleases \/ TreeEdited

Returned == pc = "closed" /\ UNCHANGED vars

Next == LoopStep \/ Environment \/ Returned

(* Every await of the loop ends: adapter calls have deadlines, commands    *)
(* and gates have timeouts.  Nothing else is owed to anybody: an operator  *)
(* need not resume and a rival need not release.                           *)
Spec == Init /\ [][Next]_vars /\ WF_vars(LoopStep)

------------------------------------------------------------------------------
(* PROPERTIES *)

Requesting == pc' \in {"intent", "diagnosis_intent"} /\ pc' # pc

(* REQ-7.4: on no path through rounds, gates, diagnosis, pause and stop    *)
(* does the loop fire a trigger that the table refuses.                    *)
NoIllegalMove == ~task.refused

(* REVIEWING is reached only on a passing T0 and a passing T1 of the same  *)
(* round over the same tree, with the lease still this process's when the  *)
(* second verdict is committed, whoever edits the worktree in between.     *)
ReviewIsVerified ==
    [][task'.state = "REVIEWING" /\ task.state # "REVIEWING"
         => /\ round'.t0.pass /\ round'.t1.pass
            /\ round'.t0.tree = round'.t1.tree
            /\ holder = Self]_vars

(* REQ-6.7 (budget): no AgentRequest is built on a spent cost budget,      *)
(* neither the implementer's nor the diagnostician's.                      *)
NoRequestOnSpentBudget == [][Requesting => cost < MaxCost]_vars

(* The iteration limit holds up to the one diagnosis that the last round   *)
(* may ask for, whatever is paused, repaired or retried on the way.        *)
RoundsAreBounded == iterations <= MaxIterations + 1

(* REQ-10.1, REQ-10.5: what an operator was told is accepted, at any await, *)
(* paused included, is heard before the next round.  No implementer request *)
(* leaves while a pause, a kill or guidance is unanswered; guidance leaves  *)
(* its queue only into the feedback; and it stays there, whatever a gate or *)
(* a diagnosis would tell, until the answer to it arrives.                  *)
OperatorIsHeard ==
    [][/\ pc = "propose" /\ pc' = "intent" => signal = "none" /\ ~guidance
       /\ guidance /\ ~guidance' => feedback' = "guidance"
       /\ feedback = "guidance" /\ feedback' # "guidance" => pc = "awaiting"]_vars

(* Kill is terminal (control.ts): no later pause or resume replaces it,    *)
(* and no further round is begun after it.                                 *)
KillIsFinal == [][signal = "kill" => signal' = "kill" /\ pc' # "propose"]_vars

(* A kill ends the loop from wherever it is, paused included.              *)
KillEndsTheLoop == signal = "kill" ~> pc = "closed"

(* REQ-6.9: unless an operator leaves the task paused, the loop comes to   *)
(* its end on every path, exceptions included, and holds no lease then.    *)
ReleasedInTheEnd == []<>(pc # "paused") => <>[](pc = "closed" /\ holder # Self)

(* REQ-6.6 says that a failed ownership check stops the task with a        *)
(* structured outcome: the loop never ends in a working state.             *)
EndIsStructured ==
    pc = "closed" => task.state \in TerminalStates \cup {"REVIEWING"}

(* REQ-7.8 says that an exhausted limit stops the requesting of proposals. *)
NoRequestAfterLastIteration == [][Requesting => iterations < MaxIterations]_vars

==============================================================================
