----------------------------- MODULE DriverProofs -----------------------------
(***************************************************************************)
(* Proofs about the two drivers that a person steers: the supervised run   *)
(* of loop-run.ts (first part) and the manager of the PR gate (second);    *)
(* the last part puts them side by side with the services around them,     *)
(* whose own proofs are in ServiceProofs and ProposalProofs.               *)
(***************************************************************************)
EXTENDS MCServices, ServiceProofs, ProposalProofs

(***************************************************************************)
(* Proofs about SupervisedRun for any tasks, dependencies, probes and      *)
(* bounds.  The invariant RunInv ties the place of the run to the rest:    *)
(*   TaskFollowsRun    a run between two tasks holds no lease, any other   *)
(*                     live place has a task;                              *)
(*   KillSticks        a kill once logged stays the control signal;        *)
(*   StageCounts       no more failed probes than probes, and no command   *)
(*                     is awaited in EXPANDED;                             *)
(*   DeployFollowsRun  how far the deployment is at each place: not begun  *)
(*                     before the stage, settled after it unless a manual  *)
(*                     rollback is running, and that one only where the    *)
(*                     run waits for it.                                   *)
(* None of the properties is inductive by itself: DeploySettles speaks of  *)
(* the end of the run and needs the stage's place on the way there, and    *)
(* KillIsFinal needs the signal that the handlers cannot take back.        *)
(***************************************************************************)

Places == Awaiting \cup Microtask \cup {"open", "done", "rejected"}
RunType ==
    [at : Places, task : Tasks \cup {NoActive}, loop : {"IMPLEMENTING", "REPAIRING"},
     rounds : 0 .. MaxRounds, held : BOOLEAN, heard : Heard, result : TaskState \cup {"none"}]
PlaneType ==
    [signal : {"none", "pause", "kill"}, killed : BOOLEAN, approvals : SUBSET Tasks,
     guidance : Nat, quarantines : SUBSET Tasks, deployPending : BOOLEAN, released : BOOLEAN,
     manual : {"none", "running", "settled"}]
StateTable == [Tasks -> TaskState \cup {"none"}]

\* Between the tasks there is no lease; elsewhere there is a task.
Between == {"open", "select", "closing", "done"}
TaskFollowsRun ==
    /\ run.at \in Between => ~run.held
    /\ run.at \notin Between \cup {"rejected"} => run.task \in Tasks

\* A kill stays the signal, and a single task is never selected after it.
KillSticks ==
    /\ plane.killed => plane.signal = "kill"
    /\ run.at = "open" => ~plane.killed
    /\ run.at = "select" /\ ~opts.graph => ~plane.killed

\* Where the stage is: its counters, and that no command is awaited in EXPANDED.
StageCounts ==
    /\ stage.at # "idle" => stage.state # "EXPANDED"
    /\ stage.at = "canary" \/ (stage.at = "idle" /\ stage.ended = "no") => stage.ran = 0
    /\ stage.at = "observe" => stage.ran < Probes
    /\ stage.failed <= stage.ran

\* How far the deployment is at each place of the run.
Deployment == {"deploy_wait", "deploy_decision", "stage", "window", "window_over", "rollback_wait"}
AfterStage == {"window", "window_over", "rollback_wait"}
AtEnd == {"closing", "done"}
Settled ==
    /\ stage.at = "idle"
    /\ stage.ended = "fenced" \/ stage.state \in {"none", "EXPANDED", "ROLLED_BACK", "ESCALATED"}

DeployFollowsRun ==
    /\ ~(opts.graph /\ opts.deploy)
    /\ run.at \in Deployment => opts.deploy
    /\ plane.manual = "running" => run.at \in {"window_over", "rollback_wait"} /\ stage.at = "rollback"
    /\ run.at \notin AfterStage \cup AtEnd \cup {"stage", "rejected"} =>
         /\ stage.at = "idle" /\ stage.ended = "no" /\ plane.manual = "none"
         /\ stage.state \in {"none", "ESCALATED"}
    /\ run.at = "stage" =>
         /\ plane.manual = "none"
         /\ stage.at = "idle" => stage.ended # "no" /\ (stage.ended = "thrown" \/ Settled)
    /\ run.at \in AfterStage \cup AtEnd => plane.manual = "running" \/ Settled
    /\ stage.state = "EXPANDED" => run.task # NoActive

RunInv == SupervisedTypeOK /\ TaskFollowsRun /\ KillSticks /\ StageCounts /\ DeployFollowsRun

------------------------------------------------------------------------------
LEMMA Head1 == Head(Order) \in Tasks /\ Order \in [1..Len(Order) -> Tasks] /\ Len(Order) \in Nat
  BY OrderAssumption DEF Tasks, Range

LEMMA TransitionType ==
    ASSUME NEW s, NEW tr
    PROVE  transition(s, tr) \in TaskState \cup {IllegalTransition}
  <1>1. CASE tr \in DOMAIN UNIVERSAL
    BY <1>1 DEF transition, UNIVERSAL, TaskState, TerminalStates
  <1>2. CASE tr \notin DOMAIN UNIVERSAL
    <2>1. ASSUME s \in DOMAIN TABLE, tr \in DOMAIN TABLE[s] PROVE TABLE[s][tr] \in TaskState
      BY <2>1 DEF TABLE, TaskState, ActiveStates, TerminalStates
    <2>2. QED
      BY <1>2, <2>1 DEF transition
  <1>3. QED
    BY <1>1, <1>2
LEMMA AfterType ==
    ASSUME NEW s \in TaskState, NEW tr
    PROVE  After(s, tr) \in TaskState
  BY TransitionType DEF After
LEMMA MovedType ==
    ASSUME st \in StateTable, NEW t \in Tasks, NEW tr
    PROVE  Moved(t, tr) \in StateTable
  BY TransitionType DEF Moved, StateTable

LEMMA ProceedEffect ==
    ASSUME run \in RunType, NEW p \in Places, Proceed(p)
    PROVE  /\ run' \in RunType /\ run'.at = p
           /\ run'.task = run.task /\ run'.held = run.held
  BY DEF RunType, Proceed
LEMMA ToldEffect ==
    ASSUME run \in RunType, NEW p \in Places, NEW h \in Heard, Told(p, h)
    PROVE  /\ run' \in RunType /\ run'.at = p
           /\ run'.task = run.task /\ run'.held = run.held
  BY DEF RunType, Told
LEMMA ReturnEffect ==
    ASSUME run \in RunType, returned \in StateTable, closed \subseteq Tasks,
           run.task \in Tasks, NEW s \in TaskState, TaskReturns(s)
    PROVE  /\ run' \in RunType /\ returned' \in StateTable /\ closed' \subseteq Tasks
           /\ run'.at = IF opts.graph THEN "select" ELSE "closing"
           /\ ~run'.held /\ run'.task = run.task
  <1>1. run' \in RunType
    <2>1. /\ (IF opts.graph THEN "select" ELSE "closing") \in Places
          /\ "none" \in Heard
          /\ (IF opts.graph THEN "none" ELSE s) \in TaskState \cup {"none"}
      BY DEF Places, Awaiting, Microtask, Heard
    <2>2. QED
      BY <2>1 DEF RunType, TaskReturns
  <1>2. returned' \in StateTable /\ closed' \subseteq Tasks
    BY DEF TaskReturns, StateTable
  <1>3. QED
    BY <1>1, <1>2 DEF TaskReturns, RunType

------------------------------------------------------------------------------
\* What a step that ends a task, or moves within it, leaves of the invariant.
LEMMA ReturnKeepsControl ==
    ASSUME RunInv, run.at \notin Between \cup {"rejected"}, NEW s \in TaskState, TaskReturns(s),
           UNCHANGED <<opts, stage>>, plane'.signal = plane.signal, plane'.killed = plane.killed,
           plane'.manual = plane.manual, run.at \notin AfterStage \cup {"stage"} \/ (Settled /\ plane.manual # "running")
    PROVE  TaskFollowsRun' /\ KillSticks' /\ StageCounts' /\ DeployFollowsRun'
  <1>1. run \in RunType /\ returned \in StateTable /\ closed \subseteq Tasks /\ run.task \in Tasks
    BY DEF RunInv, SupervisedTypeOK, RunType, StateTable, Places, TaskFollowsRun
  <1>2. /\ run'.at = IF opts.graph THEN "select" ELSE "closing"
        /\ ~run'.held /\ run'.task = run.task
    BY <1>1, ReturnEffect
  <1>3. TaskFollowsRun'
    BY <1>2 DEF TaskFollowsRun, Between
  <1>4. KillSticks'
    BY <1>2 DEF RunInv, KillSticks
  <1>5. StageCounts'
    BY DEF RunInv, StageCounts
  <1>6. DeployFollowsRun'
    BY <1>1, <1>2 DEF RunInv, DeployFollowsRun, Settled, Between, Deployment, AfterStage, AtEnd
  <1>7. QED
    BY <1>3, <1>4, <1>5, <1>6

LEMMA MoveKeepsControl ==
    ASSUME RunInv, UNCHANGED <<opts, stage>>, plane'.signal = plane.signal, plane'.killed = plane.killed,
           plane'.manual = plane.manual, run'.task = run.task, run'.held = run.held,
           run.at \notin Between \cup {"rejected"},
           run'.at \notin Between \cup AfterStage \cup {"stage"},
           run.at \notin AfterStage \cup {"stage"},
           run'.at \in Deployment => opts.deploy
    PROVE  TaskFollowsRun' /\ KillSticks' /\ StageCounts' /\ DeployFollowsRun'
  <1>1. TaskFollowsRun'
    BY DEF RunInv, TaskFollowsRun
  <1>2. KillSticks'
    BY DEF RunInv, KillSticks, Between
  <1>3. StageCounts'
    BY DEF RunInv, StageCounts
  <1>4. DeployFollowsRun'
    BY DEF RunInv, DeployFollowsRun, Settled, Between, Deployment, AfterStage, AtEnd
  <1>5. QED
    BY <1>1, <1>2, <1>3, <1>4

------------------------------------------------------------------------------
LEMMA Types ==
    ASSUME SupervisedTypeOK
    PROVE  /\ run \in RunType /\ st \in StateTable /\ returned \in StateTable
           /\ closed \subseteq Tasks /\ plane \in PlaneType /\ stage \in Stage
           /\ opts \in [graph : BOOLEAN, interactive : BOOLEAN, deploy : BOOLEAN]
           /\ decided \in [Tasks -> SUBSET {"approve", "reject"}]
           /\ merged \in [Tasks -> {"no", "auto", "human"}]
  BY DEF SupervisedTypeOK, RunType, PlaneType, StateTable, Places
LEMMA TypesBack ==
    ASSUME run' \in RunType, st' \in StateTable, returned' \in StateTable,
           closed' \subseteq Tasks, plane' \in PlaneType, stage' \in Stage,
           opts' \in [graph : BOOLEAN, interactive : BOOLEAN, deploy : BOOLEAN],
           decided' \in [Tasks -> SUBSET {"approve", "reject"}],
           merged' \in [Tasks -> {"no", "auto", "human"}]
    PROVE  SupervisedTypeOK'
  BY DEF SupervisedTypeOK, RunType, PlaneType, StateTable, Places

LEMMA ReturnKeeps ==
    ASSUME RunInv, run.at \notin Between \cup {"rejected"}, NEW s \in TaskState, TaskReturns(s),
           UNCHANGED <<opts, stage, decided>>, st' \in StateTable,
           merged' \in [Tasks -> {"no", "auto", "human"}], plane' \in PlaneType,
           plane'.signal = plane.signal, plane'.killed = plane.killed, plane'.manual = plane.manual,
           run.at \notin AfterStage \cup {"stage"} \/ (Settled /\ plane.manual # "running")
    PROVE  RunInv'
  <1>1. SupervisedTypeOK /\ run.task \in Tasks
    BY DEF RunInv, TaskFollowsRun
  <1>2. SupervisedTypeOK'
    BY <1>1, Types, ReturnEffect, TypesBack
  <1>3. QED
    BY <1>2, ReturnKeepsControl DEF RunInv

LEMMA MoveKeeps ==
    ASSUME RunInv, run.at \notin Between \cup {"rejected"} \cup AfterStage \cup {"stage"},
           run' \in RunType, run'.task = run.task, run'.held = run.held,
           run'.at \notin Between \cup AfterStage \cup {"stage"},
           run'.at \in Deployment => opts.deploy,
           UNCHANGED <<opts, stage, decided, returned, closed>>, st' \in StateTable,
           merged' \in [Tasks -> {"no", "auto", "human"}], plane' \in PlaneType,
           plane'.signal = plane.signal, plane'.killed = plane.killed, plane'.manual = plane.manual
    PROVE  RunInv'
  <1>1. SupervisedTypeOK
    BY DEF RunInv
  <1>2. SupervisedTypeOK'
    BY <1>1, Types, TypesBack
  <1>3. QED
    BY <1>2, MoveKeepsControl DEF RunInv

LEMMA PlaceKeeps ==
    ASSUME RunInv, run.at \notin Between \cup {"rejected"} \cup AfterStage \cup {"stage"},
           NEW p \in Places, p \notin Between \cup AfterStage \cup {"stage"},
           p \in Deployment => opts.deploy, NEW h \in Heard, Proceed(p) \/ Told(p, h), Here,
           UNCHANGED <<opts, stage, decided>>, st' \in StateTable,
           merged' \in [Tasks -> {"no", "auto", "human"}], plane' \in PlaneType,
           plane'.signal = plane.signal, plane'.killed = plane.killed, plane'.manual = plane.manual
    PROVE  RunInv'
  <1>1. run \in RunType
    BY Types DEF RunInv
  <1>2. run' \in RunType /\ run'.at = p /\ run'.task = run.task /\ run'.held = run.held
    BY <1>1, ProceedEffect, ToldEffect
  <1>3. QED
    BY <1>2, MoveKeeps DEF Here

LEMMA MergeFinishedKeeps ==
    ASSUME RunInv, run.at \in {"auto_merge", "approved_merge"}, NEW s \in TaskState, MergeFinished(s),
           UNCHANGED <<opts, stage, decided>>, st' \in StateTable,
           merged' \in [Tasks -> {"no", "auto", "human"}]
    PROVE  RunInv'
  <1>1. run.at \notin Between \cup {"rejected"} \cup AfterStage \cup {"stage"} /\ SupervisedTypeOK
    BY DEF Between, AfterStage, RunInv
  <1>2. CASE s = "COMPLETED" /\ opts.deploy
    <2>1. /\ Here /\ plane' = [plane EXCEPT !.deployPending = TRUE]
          /\ Proceed("deploy_wait") \/ Told("deploy_decision", "skip")
      BY <1>2 DEF MergeFinished
    <2>2. /\ plane' \in PlaneType /\ plane'.signal = plane.signal
          /\ plane'.killed = plane.killed /\ plane'.manual = plane.manual
      BY <1>1, <2>1, Types DEF PlaneType
    <2>3. /\ {"deploy_wait", "deploy_decision"} \subseteq Places /\ "skip" \in Heard
          /\ "deploy_wait" \notin Between \cup AfterStage \cup {"stage"}
          /\ "deploy_decision" \notin Between \cup AfterStage \cup {"stage"}
      BY DEF Places, Awaiting, Microtask, Heard, Between, AfterStage
    <2>4. CASE Proceed("deploy_wait")
      BY <1>1, <1>2, <2>1, <2>2, <2>3, <2>4, PlaceKeeps
    <2>5. CASE Told("deploy_decision", "skip")
      BY <1>1, <1>2, <2>1, <2>2, <2>3, <2>5, PlaceKeeps
    <2>6. QED
      BY <2>1, <2>4, <2>5
  <1>3. CASE ~(s = "COMPLETED" /\ opts.deploy)
    <2>1. TaskReturns(s) /\ UNCHANGED plane
      BY <1>3 DEF MergeFinished
    <2>2. QED
      BY <1>1, <2>1, ReturnKeeps, Types
  <1>4. QED
    BY <1>2, <1>3

LEMMA OpenRunKeeps == RunInv /\ OpenRun => RunInv'
  <1> SUFFICES ASSUME RunInv, OpenRun PROVE RunInv'
    OBVIOUS
  <1>1. /\ UNCHANGED <<opts, limits, decided, plane, stage, st, merged, returned, closed>>
        /\ run.at = "open"
        /\ run' \in {[run EXCEPT !.at = "select"], [run EXCEPT !.at = "rejected"],
                     [run EXCEPT !.at = "done", !.result = "ESCALATED"],
                     [run EXCEPT !.at = "done", !.result = "BLOCKED"]}
    BY DEF OpenRun, NoRequest, KeepPlane, KeepWork, Here, Proceed
  <1>2. SupervisedTypeOK
    BY DEF RunInv
  <1>3. /\ run' \in RunType /\ run'.task = run.task /\ run'.held = run.held
        /\ run'.at \in {"select", "rejected", "done"}
    BY <1>1, <1>2, Types DEF RunType, TaskState, TerminalStates, Places, Awaiting, Microtask
  <1>4. SupervisedTypeOK'
    BY <1>1, <1>2, <1>3, Types, TypesBack
  <1>5. TaskFollowsRun' /\ KillSticks' /\ StageCounts' /\ DeployFollowsRun'
    BY <1>1, <1>3 DEF RunInv, TaskFollowsRun, KillSticks, StageCounts, DeployFollowsRun, Settled,
                      Between, Deployment, AfterStage, AtEnd
  <1>6. QED
    BY <1>4, <1>5 DEF RunInv

------------------------------------------------------------------------------
\* A nonempty set of numbers 1..n has a least and a greatest member.
LEMMA LeastOf ==
    ASSUME NEW S \in SUBSET Nat, S # {}
    PROVE  Min(S) \in S
  <1>1. PICK x \in S : \A y \in S : ~(<<y, x>> \in OpToRel(<, Nat))
    BY NatLessThanWellFounded, WFMin
  <1>2. ASSUME NEW y \in S PROVE x <= y
    <2>1. <<y, x>> \in Nat \X Nat /\ ~(<<y, x>> \in OpToRel(<, Nat))
      BY <1>1
    <2>2. ~(y < x)
      BY <2>1 DEF OpToRel
    <2>3. QED
      BY <2>2
  <1>3. QED
    BY <1>1, <1>2 DEF Min
LEMMA GreatestOfRanks ==
    ASSUME NEW S \in SUBSET (1..5), S # {}
    PROVE  /\ Max(S) \in S
           /\ 5 \in S => Max(S) = 5
  <1>1. \E x \in S : \A y \in S : x >= y
    <2>1. CASE 5 \in S
      BY <2>1
    <2>2. CASE 5 \notin S /\ 4 \in S
      BY <2>2
    <2>3. CASE S \subseteq 1..3 /\ 3 \in S
      BY <2>3
    <2>4. CASE S \subseteq 1..2 /\ 2 \in S
      BY <2>4
    <2>5. CASE S = {1}
      BY <2>5
    <2>6. 5 \notin S /\ 4 \notin S => S \subseteq 1..3
      OBVIOUS
    <2>7. S \subseteq 1..3 /\ 3 \notin S => S \subseteq 1..2
      OBVIOUS
    <2>8. S \subseteq 1..2 /\ 2 \notin S => S = {1}
      <3>1. S \subseteq 1..2 /\ 2 \notin S => \A x \in S : x = 1
        OBVIOUS
      <3>2. QED
        BY <3>1, Zenon
    <2>9. QED
      BY <2>1, <2>2, <2>3, <2>4, <2>5, <2>6, <2>7, <2>8
  <1>2. Max(S) \in S /\ \A y \in S : Max(S) >= y
    BY <1>1 DEF Max
  <1>3. ASSUME 5 \in S PROVE Max(S) = 5
    <2>1. Max(S) \in 1..5 /\ Max(S) >= 5
      BY <1>2, <1>3
    <2>2. QED
      BY <2>1
  <1>4. QED
    BY <1>2, <1>3

LEMMA NextTask ==
    /\ nextTask \in Nat
    /\ nextTask # 0 => Order[nextTask] \in Tasks
  <1> DEFINE I == {i \in 1..Len(Order) : Selectable(Order[i])}
  <1>1. nextTask = IF I # {} THEN Min(I) ELSE 0
    BY DEF nextTask, SelectInSeq
  <1>2. I \in SUBSET Nat /\ I \subseteq 1..Len(Order)
    BY Head1
  <1>3. I # {} => Min(I) \in I
    BY <1>2, LeastOf
  <1> HIDE DEF I
  <1>4. QED
    BY <1>1, <1>2, <1>3, Head1

LEMMA Ranks ==
    /\ \A s : runStateRank(s) \in 1..5
    /\ runStateRank("CANCELLED") = 5
  <1>1. ASSUME NEW s PROVE /\ runStateRank(s) \in 1..5
                           /\ s = "CANCELLED" => runStateRank(s) = 5
    <2> DEFINE I == {i \in 1..Len(RUN_STATE_PRECEDENCE) : RUN_STATE_PRECEDENCE[i] = s}
    <2>1. runStateRank(s) = IF s \in Range(RUN_STATE_PRECEDENCE)
                            THEN IF I # {} THEN Min(I) ELSE 0 ELSE 3
      BY DEF runStateRank, SelectInSeq
    <2>2. I \in SUBSET Nat /\ I \subseteq 1..5
      BY DEF RUN_STATE_PRECEDENCE
    <2>3. s \in Range(RUN_STATE_PRECEDENCE) => I # {}
      BY DEF RUN_STATE_PRECEDENCE, Range
    <2>4. s = "CANCELLED" => s \in Range(RUN_STATE_PRECEDENCE) /\ I = {5}
      BY DEF RUN_STATE_PRECEDENCE, Range
    <2>5. I # {} => Min(I) \in I
      BY <2>2, LeastOf
    <2> HIDE DEF I
    <2>6. CASE s \in Range(RUN_STATE_PRECEDENCE)
      <3>1. runStateRank(s) = Min(I) /\ Min(I) \in I
        BY <2>1, <2>3, <2>5, <2>6
      <3>2. QED
        BY <2>2, <2>4, <3>1
    <2>7. CASE s \notin Range(RUN_STATE_PRECEDENCE)
      BY <2>1, <2>4, <2>7
    <2>8. QED
      BY <2>6, <2>7
  <1>2. QED
    BY <1>1

LEMMA RunResult ==
    /\ \A killed \in BOOLEAN : runStateResult(killed) \in TaskState
    /\ runStateResult(TRUE) = "CANCELLED"
  <1>1. ASSUME NEW killed \in BOOLEAN
        PROVE  /\ runStateResult(killed) \in TaskState
               /\ killed => runStateResult(killed) = "CANCELLED"
    <2> DEFINE S == {runStateRank(Label(t)) : t \in Tasks}
                    \cup (IF killed THEN {runStateRank("CANCELLED")} ELSE {})
    <2>1. S \in SUBSET (1..5) /\ S # {} /\ (killed => 5 \in S)
      BY Ranks, Head1
    <2>2. runStateResult(killed) = RUN_STATE_PRECEDENCE[Max(S)]
      BY DEF runStateResult
    <2> HIDE DEF S
    <2>3. Max(S) \in 1..5 /\ (killed => Max(S) = 5)
      BY <2>1, GreatestOfRanks
    <2>4. \A i \in 1..5 : RUN_STATE_PRECEDENCE[i] \in TaskState
      BY DEF RUN_STATE_PRECEDENCE, TaskState, ActiveStates, TerminalStates
    <2>5. RUN_STATE_PRECEDENCE[5] = "CANCELLED"
      BY DEF RUN_STATE_PRECEDENCE
    <2>6. QED
      BY <2>2, <2>3, <2>4, <2>5
  <1>2. QED
    BY <1>1

LEMMA SelectTaskKeeps == RunInv /\ SelectTask => RunInv'
  <1> SUFFICES ASSUME RunInv, SelectTask PROVE RunInv'
    OBVIOUS
  <1>1. /\ UNCHANGED <<opts, limits, decided, plane, stage, st, merged, returned>>
        /\ run.at = "select"
    BY DEF SelectTask, NoRequest, KeepPlane, KeepWork
  <1>2. SupervisedTypeOK
    BY DEF RunInv
  <1>3. ASSUME opts.graph /\ (plane.signal = "kill" \/ nextTask = 0) PROVE RunInv'
    <2>1. /\ run' = [run EXCEPT !.at = "closing", !.result = runStateResult(plane.signal = "kill")]
          /\ closed' = closed
      BY <1>3 DEF SelectTask
    <2>2. runStateResult(plane.signal = "kill") \in TaskState
      BY RunResult
    <2>3. /\ run' \in RunType /\ run'.task = run.task /\ run'.held = run.held
          /\ run'.at = "closing"
      BY <1>2, <2>1, <2>2, Types DEF RunType, Places, Awaiting
    <2>4. SupervisedTypeOK'
      BY <1>1, <1>2, <2>1, <2>3, Types, TypesBack
    <2>5. TaskFollowsRun' /\ KillSticks' /\ StageCounts' /\ DeployFollowsRun'
      BY <1>1, <2>3 DEF RunInv, TaskFollowsRun, KillSticks, StageCounts, DeployFollowsRun, Settled,
                        Between, Deployment, AfterStage, AtEnd
    <2>6. QED
      BY <2>4, <2>5 DEF RunInv
  <1>4. ASSUME ~(opts.graph /\ (plane.signal = "kill" \/ nextTask = 0)) PROVE RunInv'
    <2> DEFINE t == IF opts.graph THEN Order[nextTask] ELSE Head(Order)
    <2>1. t \in Tasks
      BY <1>4, NextTask, Head1
    <2>2. \/ /\ run' = [run EXCEPT !.at = "start", !.task = t, !.held = TRUE,
                                   !.rounds = 0, !.loop = "IMPLEMENTING"]
             /\ closed' = closed
          \/ /\ closed' = closed \cup {t}
             /\ run' = IF opts.graph THEN run
                       ELSE [run EXCEPT !.at = "closing", !.result = "BLOCKED"]
      BY <1>4 DEF SelectTask
    <2> HIDE DEF t
    <2>3. 0 \in 0..MaxRounds
      BY RunAssumption
    <2>4. run' \in RunType /\ closed' \subseteq Tasks
      <3>1. run \in RunType /\ closed \subseteq Tasks
        BY <1>2, Types
      <3>2. {"start", "closing"} \subseteq Places /\ "BLOCKED" \in TaskState
        BY DEF Places, Awaiting, Microtask, TaskState, TerminalStates
      <3>3. [run EXCEPT !.at = "start", !.task = t, !.held = TRUE, !.rounds = 0,
                        !.loop = "IMPLEMENTING"] \in RunType
        BY <2>1, <2>3, <3>1, <3>2 DEF RunType
      <3>4. [run EXCEPT !.at = "closing", !.result = "BLOCKED"] \in RunType
        BY <3>1, <3>2 DEF RunType
      <3>5. QED
        BY <2>1, <2>2, <3>1, <3>3, <3>4
    <2>5. SupervisedTypeOK'
      BY <1>1, <1>2, <2>4, Types, TypesBack
    <2>6. \/ run'.at = "start" /\ run'.task \in Tasks
          \/ run'.at = "select" /\ opts.graph /\ run'.task = run.task /\ run'.held = run.held
          \/ run'.at = "closing" /\ ~opts.graph /\ run'.task = run.task /\ run'.held = run.held
      BY <1>1, <1>2, <2>1, <2>2, Types DEF RunType
    <2>7. run'.task # NoActive \/ run'.task = run.task
      BY <2>6, RunAssumption DEF Tasks
    <2>8. TaskFollowsRun' /\ KillSticks' /\ StageCounts'
      BY <1>1, <2>6 DEF RunInv, TaskFollowsRun, KillSticks, StageCounts, Between
    <2>9. DeployFollowsRun'
      BY <1>1, <2>6, <2>7 DEF RunInv, DeployFollowsRun, Settled, Deployment, AfterStage, AtEnd
    <2>10. QED
      BY <2>5, <2>8, <2>9 DEF RunInv
  <1>5. QED
    BY <1>3, <1>4

------------------------------------------------------------------------------
\* The shape of a step that only moves within a task, seen from the types.
LEMMA StartTaskKeeps == RunInv /\ StartTask => RunInv'
  <1> SUFFICES ASSUME RunInv, StartTask PROVE RunInv'
    OBVIOUS
  <1>1. /\ UNCHANGED <<opts, decided, plane, stage, merged>>
        /\ run.at = "start"
    BY DEF StartTask, NoRequest, KeepPlane
  <1>2. SupervisedTypeOK /\ run.task \in Tasks
    BY <1>1 DEF RunInv, TaskFollowsRun, Between
  <1>3. run.at \notin Between \cup {"rejected"} \cup AfterStage \cup {"stage"}
    BY <1>1 DEF Between, AfterStage
  <1>4. {"ESCALATED", "QUARANTINED", "IMPLEMENTING"} \subseteq TaskState
    BY DEF TaskState, ActiveStates, TerminalStates
  <1>5. CASE ~run.held
    BY <1>1, <1>2, <1>3, <1>4, <1>5, ReturnKeeps, Types DEF StartTask
  <1>6. CASE run.held /\ run.task \in plane.quarantines
    <2>1. TaskReturns("QUARANTINED") /\ st' = [st EXCEPT ![run.task] = "QUARANTINED"]
      BY <1>6 DEF StartTask
    <2>2. st' \in StateTable
      BY <1>2, <1>4, <2>1, Types DEF StateTable
    <2>3. QED
      BY <1>1, <1>2, <1>3, <1>4, <2>1, <2>2, ReturnKeeps, Types
  <1>7. CASE run.held /\ run.task \notin plane.quarantines
    <2>1. Proceed("loop") /\ Here /\ st' = [st EXCEPT ![run.task] = "IMPLEMENTING"]
      BY <1>7 DEF StartTask
    <2>2. st' \in StateTable
      BY <1>2, <1>4, <2>1, Types DEF StateTable
    <2>3. run' \in RunType /\ run'.at = "loop" /\ run'.task = run.task /\ run'.held = run.held
      BY <1>2, <2>1, Types, ProceedEffect DEF Places, Awaiting
    <2>4. run'.at \notin Between \cup AfterStage \cup {"stage"} \cup Deployment
      BY <2>3 DEF Between, AfterStage, Deployment
    <2>5. QED
      BY <1>1, <1>2, <1>3, <2>1, <2>2, <2>3, <2>4, MoveKeeps, Types DEF Here
  <1>8. QED
    BY <1>5, <1>6, <1>7

LEMMA LoopBoundaryKeeps == RunInv /\ LoopBoundary => RunInv'
  <1> SUFFICES ASSUME RunInv, LoopBoundary PROVE RunInv'
    OBVIOUS
  <1>1. UNCHANGED <<opts, decided, stage, merged>> /\ run.at = "loop"
    BY DEF LoopBoundary, NoRequest
  <1>2. SupervisedTypeOK /\ run.task \in Tasks
    BY <1>1 DEF RunInv, TaskFollowsRun, Between
  <1>3. run.at \notin Between \cup {"rejected"} \cup AfterStage \cup {"stage"}
    BY <1>1 DEF Between, AfterStage
  <1>4. {"CANCELLED", "PAUSED", "IMPLEMENTING", "REPAIRING"} \subseteq TaskState
    BY DEF TaskState, ActiveStates, TerminalStates
  <1>5. CASE TaskReturns("CANCELLED") /\ st' = [st EXCEPT ![run.task] = "CANCELLED"] /\ UNCHANGED plane
    <2>1. st' \in StateTable
      BY <1>2, <1>4, <1>5, Types DEF StateTable
    <2>2. QED
      BY <1>1, <1>2, <1>3, <1>4, <1>5, <2>1, ReturnKeeps, Types
  <1>6. CASE /\ Proceed("paused") /\ st' = [st EXCEPT ![run.task] = "PAUSED"]
             /\ UNCHANGED plane /\ Here
    <2>1. st' \in StateTable
      BY <1>2, <1>4, <1>6, Types DEF StateTable
    <2>2. run' \in RunType /\ run'.at = "paused" /\ run'.task = run.task /\ run'.held = run.held
      BY <1>2, <1>6, Types, ProceedEffect DEF Places, Awaiting
    <2>3. run'.at \notin Between \cup AfterStage \cup {"stage"} \cup Deployment
      BY <2>2 DEF Between, AfterStage, Deployment
    <2>4. QED
      BY <1>1, <1>2, <1>3, <1>6, <2>1, <2>2, <2>3, MoveKeeps, Types DEF Here
  <1>7. CASE /\ Proceed("round") /\ plane' = [plane EXCEPT !.guidance = 0] /\ Here
             /\ st' = [st EXCEPT ![run.task] = run.loop]
    <2>1. st' \in StateTable
      BY <1>2, <1>4, <1>7, Types DEF StateTable, RunType
    <2>2. run' \in RunType /\ run'.at = "round" /\ run'.task = run.task /\ run'.held = run.held
      BY <1>2, <1>7, Types, ProceedEffect DEF Places, Awaiting
    <2>3. run'.at \notin Between \cup AfterStage \cup {"stage"} \cup Deployment
      BY <2>2 DEF Between, AfterStage, Deployment
    <2>4. /\ plane' \in PlaneType /\ plane'.signal = plane.signal
          /\ plane'.killed = plane.killed /\ plane'.manual = plane.manual
      BY <1>2, <1>7, Types DEF PlaneType
    <2>5. QED
      BY <1>1, <1>2, <1>3, <1>7, <2>1, <2>2, <2>3, <2>4, MoveKeeps, Types DEF Here
  <1>8. QED
    BY <1>5, <1>6, <1>7 DEF LoopBoundary

LEMMA RoundEndsKeeps == RunInv /\ RoundEnds => RunInv'
  <1> SUFFICES ASSUME RunInv, RoundEnds PROVE RunInv'
    OBVIOUS
  <1>1. UNCHANGED <<opts, decided, stage, merged, plane>> /\ run.at = "round"
    BY DEF RoundEnds, NoRequest, KeepPlane
  <1>2. SupervisedTypeOK /\ run.task \in Tasks
    BY <1>1 DEF RunInv, TaskFollowsRun, Between
  <1>3. run.at \notin Between \cup {"rejected"} \cup AfterStage \cup {"stage"}
    BY <1>1 DEF Between, AfterStage
  <1>4. {"BLOCKED", "ESCALATED", "REVIEWING", "REPAIRING"} \subseteq TaskState
    BY DEF TaskState, ActiveStates, TerminalStates
  <1>5. CASE /\ run.rounds < MaxRounds /\ Here
             /\ run' = [run EXCEPT !.at = "loop", !.loop = "REPAIRING", !.rounds = @ + 1]
             /\ st' = [st EXCEPT ![run.task] = "REPAIRING"]
    <2>1. st' \in StateTable
      BY <1>2, <1>4, <1>5, Types DEF StateTable
    <2>2. run' \in RunType /\ run'.at = "loop" /\ run'.task = run.task /\ run'.held = run.held
      <3>1. run \in RunType /\ MaxRounds \in Nat /\ "loop" \in Places
        BY <1>2, Types, RunAssumption DEF Places, Awaiting
      <3>2. run.rounds + 1 \in 0..MaxRounds
        BY <1>5, <3>1 DEF RunType
      <3>3. QED
        BY <1>5, <3>1, <3>2 DEF RunType
    <2>3. run'.at \notin Between \cup AfterStage \cup {"stage"} \cup Deployment
      BY <2>2 DEF Between, AfterStage, Deployment
    <2>4. QED
      BY <1>1, <1>2, <1>3, <1>5, <2>1, <2>2, <2>3, MoveKeeps, Types DEF Here
  <1>6. CASE Here /\ Proceed("auto_merge") /\ st' = [st EXCEPT ![run.task] = "REVIEWING"]
    <2>1. st' \in StateTable
      BY <1>2, <1>4, <1>6, Types DEF StateTable
    <2>2. run' \in RunType /\ run'.at = "auto_merge" /\ run'.task = run.task /\ run'.held = run.held
      BY <1>2, <1>6, Types, ProceedEffect DEF Places, Awaiting
    <2>3. run'.at \notin Between \cup AfterStage \cup {"stage"} \cup Deployment
      BY <2>2 DEF Between, AfterStage, Deployment
    <2>4. QED
      BY <1>1, <1>2, <1>3, <1>6, <2>1, <2>2, <2>3, MoveKeeps, Types DEF Here
  <1>7. ASSUME NEW end \in {"BLOCKED", "ESCALATED"}, TaskReturns(end),
               st' = [st EXCEPT ![run.task] = end]
        PROVE  RunInv'
    <2>1. st' \in StateTable
      BY <1>2, <1>4, <1>7, Types DEF StateTable
    <2>2. QED
      BY <1>1, <1>2, <1>3, <1>4, <1>7, <2>1, ReturnKeeps, Types
  <1>8. QED
    BY <1>5, <1>6, <1>7 DEF RoundEnds

LEMMA AutoMergeKeeps == RunInv /\ AutoMerge => RunInv'
  <1> SUFFICES ASSUME RunInv, AutoMerge PROVE RunInv'
    OBVIOUS
  <1>1. UNCHANGED <<opts, decided, stage>> /\ run.at = "auto_merge"
    BY DEF AutoMerge, NoRequest
  <1>2. SupervisedTypeOK /\ run.task \in Tasks
    BY <1>1 DEF RunInv, TaskFollowsRun, Between
  <1>3. run.at \notin Between \cup {"rejected"} \cup AfterStage \cup {"stage"}
    BY <1>1 DEF Between, AfterStage
  <1>4. {"ESCALATED", "COMPLETED"} \subseteq TaskState
    BY DEF TaskState, TerminalStates
  <1>5. CASE TaskReturns("ESCALATED") /\ KeepWork /\ UNCHANGED plane
    BY <1>1, <1>2, <1>3, <1>4, <1>5, ReturnKeeps, Types DEF KeepWork
  <1>6. CASE /\ merged' = [merged EXCEPT ![run.task] = "auto"]
             /\ st' = [st EXCEPT ![run.task] = "COMPLETED"] /\ MergeFinished("COMPLETED")
    <2>1. st' \in StateTable /\ merged' \in [Tasks -> {"no", "auto", "human"}]
      BY <1>2, <1>4, <1>6, Types DEF StateTable
    <2>2. QED
      BY <1>1, <1>4, <1>6, <2>1, MergeFinishedKeeps
  <1>7. CASE /\ TaskReturns("ESCALATED") /\ UNCHANGED <<merged, plane>>
             /\ st' = [st EXCEPT ![run.task] = "ESCALATED"] \/ st' = Moved(run.task, "escalate")
    <2>1. st' \in StateTable
      BY <1>2, <1>4, <1>7, Types, MovedType DEF StateTable
    <2>2. QED
      BY <1>1, <1>2, <1>3, <1>4, <1>7, <2>1, ReturnKeeps, Types
  <1>8. CASE /\ KeepWork /\ Here
             /\ plane' = [plane EXCEPT !.approvals = @ \cup {run.task}]
             /\ Proceed("approval_wait") \/ Told("decision", "reviewing")
    <2>1. /\ plane' \in PlaneType /\ plane'.signal = plane.signal
          /\ plane'.killed = plane.killed /\ plane'.manual = plane.manual
      BY <1>2, <1>8, Types DEF PlaneType
    <2>2. /\ {"approval_wait", "decision"} \subseteq Places /\ "reviewing" \in Heard
          /\ "approval_wait" \notin Between \cup AfterStage \cup {"stage"} \cup Deployment
          /\ "decision" \notin Between \cup AfterStage \cup {"stage"} \cup Deployment
      BY DEF Places, Awaiting, Microtask, Heard, Between, AfterStage, Deployment
    <2>3. QED
      BY <1>1, <1>2, <1>3, <1>8, <2>1, <2>2, PlaceKeeps, Types DEF KeepWork
  <1>9. QED
    BY <1>5, <1>6, <1>7, <1>8 DEF AutoMerge

LEMMA ApprovalTimerKeeps == RunInv /\ ApprovalTimer => RunInv'
  <1> SUFFICES ASSUME RunInv, ApprovalTimer PROVE RunInv'
    OBVIOUS
  <1>1. /\ run.at = "approval_wait" /\ Told("decision", "timeout") /\ Here
        /\ UNCHANGED <<opts, decided, stage, plane, st, merged>>
    BY DEF ApprovalTimer, NoRequest, KeepPlane, KeepWork
  <1>2. /\ run.at \notin Between \cup {"rejected"} \cup AfterStage \cup {"stage"}
        /\ "decision" \in Places /\ "timeout" \in Heard
        /\ "decision" \notin Between \cup AfterStage \cup {"stage"} \cup Deployment
    BY <1>1 DEF Places, Microtask, Heard, Between, AfterStage, Deployment
  <1>3. QED
    BY <1>1, <1>2, PlaceKeeps, Types DEF RunInv

LEMMA DeployTimerKeeps == RunInv /\ DeployTimer => RunInv'
  <1> SUFFICES ASSUME RunInv, DeployTimer PROVE RunInv'
    OBVIOUS
  <1>1. /\ run.at = "deploy_wait" /\ Told("deploy_decision", "timeout") /\ Here
        /\ UNCHANGED <<opts, decided, stage, plane, st, merged>>
    BY DEF DeployTimer, NoRequest, KeepPlane, KeepWork
  <1>2. /\ run.at \notin Between \cup {"rejected"} \cup AfterStage \cup {"stage"}
        /\ "deploy_decision" \in Places /\ "timeout" \in Heard
        /\ "deploy_decision" \notin Between \cup AfterStage \cup {"stage"}
    BY <1>1 DEF Places, Microtask, Heard, Between, AfterStage
  <1>3. opts.deploy
    BY <1>1 DEF RunInv, DeployFollowsRun, Deployment
  <1>4. QED
    BY <1>1, <1>2, <1>3, PlaceKeeps, Types DEF RunInv

LEMMA ActOnDecisionKeeps == RunInv /\ ActOnDecision => RunInv'
  <1> SUFFICES ASSUME RunInv, ActOnDecision PROVE RunInv'
    OBVIOUS
  <1>1. UNCHANGED <<opts, decided, stage, merged>> /\ run.at = "decision"
    BY DEF ActOnDecision, NoRequest
  <1>2. SupervisedTypeOK /\ run.task \in Tasks
    BY <1>1 DEF RunInv, TaskFollowsRun, Between
  <1>3. run.at \notin Between \cup {"rejected"} \cup AfterStage \cup {"stage"}
    BY <1>1 DEF Between, AfterStage
  <1>4. CASE Proceed("approved_merge") /\ Here /\ UNCHANGED <<st, plane>>
    <2>1. /\ "approved_merge" \in Places /\ "none" \in Heard
          /\ "approved_merge" \notin Between \cup AfterStage \cup {"stage"} \cup Deployment
      BY DEF Places, Awaiting, Heard, Between, AfterStage, Deployment
    <2>2. QED
      BY <1>1, <1>2, <1>3, <1>4, <2>1, PlaceKeeps, Types
  <1>5. ASSUME ~(Proceed("approved_merge") /\ Here /\ UNCHANGED <<st, plane>>) PROVE RunInv'
    <2>1. PICK s \in {"ESCALATED", "REVIEWING", "CHANGES_REQUESTED", "CANCELLED"} : TaskReturns(s)
      BY <1>5 DEF ActOnDecision
    <2>2. s \in TaskState
      BY <2>1 DEF TaskState, ActiveStates, TerminalStates
    <2>3. /\ st' \in {st, Moved(run.task, "cancel"), Moved(run.task, "escalate")}
          /\ plane' \in {plane, [plane EXCEPT !.approvals = @ \ {run.task}]}
      BY <1>5 DEF ActOnDecision
    <2>4. st' \in StateTable
      BY <1>2, <2>3, Types, MovedType
    <2>5. /\ plane' \in PlaneType /\ plane'.signal = plane.signal
          /\ plane'.killed = plane.killed /\ plane'.manual = plane.manual
      BY <1>2, <2>3, Types DEF PlaneType
    <2>6. QED
      BY <1>1, <1>2, <1>3, <2>1, <2>2, <2>4, <2>5, ReturnKeeps, Types
  <1>6. QED
    BY <1>4, <1>5

LEMMA ApprovedMergeKeeps == RunInv /\ ApprovedMerge => RunInv'
  <1> SUFFICES ASSUME RunInv, ApprovedMerge PROVE RunInv'
    OBVIOUS
  <1>1. UNCHANGED <<opts, decided, stage>> /\ run.at = "approved_merge"
    BY DEF ApprovedMerge, NoRequest
  <1>2. SupervisedTypeOK /\ run.task \in Tasks
    BY <1>1 DEF RunInv, TaskFollowsRun, Between
  <1>3. run.at \notin Between \cup {"rejected"} \cup AfterStage \cup {"stage"}
    BY <1>1 DEF Between, AfterStage
  <1> DEFINE entry == currentState(run.task)
             queued == After(entry, "merge_queued")
             completed == After(After(queued, "audited"), "completed")
  <1>4. "ESCALATED" \in TaskState /\ entry \in TaskState
    BY <1>2, Types DEF TaskState, ActiveStates, TerminalStates, currentState, StateTable
  <1>5. queued \in TaskState /\ completed \in TaskState
    BY <1>4, AfterType
  <1>6. After(entry, "escalate") \in TaskState /\ After(queued, "escalate") \in TaskState
    BY <1>4, <1>5, AfterType
  <1>7. \/ TaskReturns("ESCALATED") /\ KeepWork /\ UNCHANGED plane
        \/ \E s \in {After(entry, "escalate"), After(queued, "escalate"), completed} :
              /\ st' = [st EXCEPT ![run.task] = s] /\ MergeFinished(s)
              /\ merged' \in {merged, [merged EXCEPT ![run.task] = "human"]}
    BY DEF ApprovedMerge
  <1> HIDE DEF entry, queued, completed
  <1>8. CASE TaskReturns("ESCALATED") /\ KeepWork /\ UNCHANGED plane
    BY <1>1, <1>2, <1>3, <1>4, <1>8, ReturnKeeps, Types DEF KeepWork
  <1>9. ASSUME NEW s \in TaskState, st' = [st EXCEPT ![run.task] = s], MergeFinished(s),
               merged' \in {merged, [merged EXCEPT ![run.task] = "human"]}
        PROVE  RunInv'
    <2>1. st' \in StateTable /\ merged' \in [Tasks -> {"no", "auto", "human"}]
      BY <1>2, <1>9, Types DEF StateTable
    <2>2. QED
      BY <1>1, <1>9, <2>1, MergeFinishedKeeps
  <1>10. QED
    BY <1>5, <1>6, <1>7, <1>8, <1>9

LEMMA TaskThrowsKeeps == RunInv /\ TaskThrows => RunInv'
  <1> SUFFICES ASSUME RunInv, TaskThrows PROVE RunInv'
    OBVIOUS
  <1>1. /\ UNCHANGED <<opts, decided, stage, plane>> /\ Proceed("rejected") /\ Here
        /\ run.at \in {"start", "loop", "round", "auto_merge", "approved_merge"}
    BY DEF TaskThrows, NoRequest, KeepPlane
  <1>2. SupervisedTypeOK /\ run.task \in Tasks
    BY <1>1 DEF RunInv, TaskFollowsRun, Between
  <1>3. run.at \notin Between \cup {"rejected"} \cup AfterStage \cup {"stage"}
    BY <1>1 DEF Between, AfterStage
  <1>4. /\ "rejected" \in Places /\ "none" \in Heard
        /\ "rejected" \notin Between \cup AfterStage \cup {"stage"} \cup Deployment
    BY DEF Places, Heard, Between, AfterStage, Deployment
  <1>5. st' \in StateTable /\ merged' \in [Tasks -> {"no", "auto", "human"}]
    <2>1. CASE KeepWork
      BY <1>2, <2>1, Types DEF KeepWork
    <2>2. CASE ~KeepWork
      <3>1. PICK basis \in {"auto", "human"} :
              LET entry == IF basis = "auto" THEN After(currentState(run.task), "auto_approved")
                           ELSE currentState(run.task)
                  queued == After(entry, "merge_queued")
              IN  \/ UNCHANGED merged /\ st' = [st EXCEPT ![run.task] = queued]
                  \/ /\ merged' = [merged EXCEPT ![run.task] = basis]
                     /\ \E logged \in {queued, After(queued, "audited")} :
                            st' = [st EXCEPT ![run.task] = logged]
        BY <2>2 DEF TaskThrows
      <3> DEFINE entry == IF basis = "auto" THEN After(currentState(run.task), "auto_approved")
                          ELSE currentState(run.task)
                 queued == After(entry, "merge_queued")
                 audited == After(queued, "audited")
      <3>2. currentState(run.task) \in TaskState
        BY <1>2, Types DEF currentState, StateTable, TaskState, ActiveStates
      <3>3. entry \in TaskState
        BY <3>2, AfterType
      <3>4. queued \in TaskState /\ audited \in TaskState
        BY <3>3, AfterType
      <3>5. \E logged \in {queued, audited} :
               /\ st' = [st EXCEPT ![run.task] = logged]
               /\ merged' \in {merged, [merged EXCEPT ![run.task] = basis]}
        BY <3>1
      <3> HIDE DEF entry, queued, audited
      <3>6. QED
        BY <1>2, <3>4, <3>5, Types DEF StateTable
    <2>3. QED
      BY <2>1, <2>2
  <1>6. QED
    BY <1>1, <1>2, <1>3, <1>4, <1>5, PlaceKeeps, Types

------------------------------------------------------------------------------
\* The commands of the stage.
Ended == {"EXPANDED", "ROLLED_BACK", "ESCALATED"}
LEMMA RecordedEffect ==
    ASSUME stage \in Stage, StageCounts, NEW s \in DeployState \ {"EXPANDED"},
           NEW at \in Commands \ {"canary", "observe"}, Recorded(s, at)
    PROVE  /\ stage' \in Stage /\ StageCounts'
           /\ stage'.at = at /\ stage'.ended = stage.ended /\ stage'.state = s
  BY StageAssumption DEF Stage, StageCounts, Recorded, Commands
LEMMA SettledEffect ==
    ASSUME stage \in Stage, StageCounts, NEW s \in Ended, StageSettled(s)
    PROVE  /\ stage' \in Stage /\ StageCounts' /\ Settled' /\ stage'.ended = s
           /\ stage'.at = "idle" /\ stage'.state = s
  BY DEF Stage, StageCounts, StageSettled, Ended, Settled, DeployState
LEMMA BrokenEffect ==
    ASSUME stage \in Stage, StageCounts, NEW how \in {"fenced", "thrown"}, Broken(how)
    PROVE  /\ stage' \in Stage /\ StageCounts' /\ stage'.ended = how /\ stage'.at = "idle"
           /\ stage'.state = stage.state
  BY DEF Stage, StageCounts, Broken

\* One command of the stage: the next is awaited, or the stage has settled.
StageMoved ==
    /\ stage' \in Stage /\ StageCounts'
    /\ stage'.at = "idle" => stage'.ended # "no" /\ (stage'.ended = "thrown" \/ Settled')
LEMMA StageStep ==
    ASSUME stage \in Stage, StageCounts, NEW owns_ \in BOOLEAN, runDeployStage(owns_)
    PROVE  StageMoved
  <1>1. ASSUME Broken("fenced") \/ Broken("thrown") PROVE StageMoved
    BY <1>1, BrokenEffect DEF StageMoved, Settled
  <1>2. ASSUME NEW s \in Ended, StageSettled(s) PROVE StageMoved
    BY <1>2, SettledEffect DEF StageMoved, Ended
  <1>3. ASSUME runRollback PROVE StageMoved
    <2>1. /\ "ROLLING_BACK" \in DeployState \ {"EXPANDED"} /\ "rollback" # "idle"
          /\ "rollback" \in Commands \ {"canary", "observe"}
      BY DEF DeployState, Commands
    <2>2. Recorded("ROLLING_BACK", "rollback")
      BY <1>3 DEF runRollback
    <2>3. QED
      BY <2>1, <2>2, RecordedEffect DEF StageMoved
  <1>4. ASSUME NEW ok \in BOOLEAN, CanaryRan(owns_, ok) PROVE StageMoved
    <2>1. CASE Recorded("OBSERVING", "observe")
      <3>1. /\ stage.at = "canary" /\ stage.ran = 0 /\ 0 < Probes /\ stage.failed <= stage.ran
            /\ stage' = [stage EXCEPT !.state = "OBSERVING", !.at = "observe"]
        BY <1>4, <2>1, StageAssumption DEF CanaryRan, Recorded, StageCounts
      <3>2. stage' \in Stage
        BY <3>1 DEF Stage, DeployState, Commands
      <3>3. /\ stage'.at = "observe" /\ stage'.state = "OBSERVING" /\ stage'.ran = 0
            /\ stage'.failed = stage.failed
        BY <3>1 DEF Stage
      <3>4. StageCounts'
        BY <3>1, <3>3 DEF StageCounts
      <3>5. QED
        BY <3>2, <3>3, <3>4 DEF StageMoved
    <2>2. QED
      BY <1>1, <1>3, <1>4, <2>1 DEF CanaryRan
  <1>5. ASSUME NEW ok \in BOOLEAN, ProbeRan(owns_, ok) PROVE StageMoved
    <2>1. /\ stage.at = "observe" /\ stage.ran < Probes /\ stage.failed <= stage.ran
          /\ stage.ran \in 0..Probes /\ stage.failed \in 0..Probes /\ Probes \in Nat
      BY <1>5, StageAssumption DEF ProbeRan, StageCounts, Stage
    <2> DEFINE failed == stage.failed + (IF ok THEN 0 ELSE 1)
               probed == [stage EXCEPT !.ran = @ + 1, !.failed = failed]
    <2>2. failed \in 0..Probes /\ failed <= stage.ran + 1 /\ stage.ran + 1 \in 0..Probes
      BY <2>1
    <2>3. \/ Broken("fenced")
          \/ probed.ran < Probes /\ stage' = probed
          \/ stage' = [probed EXCEPT !.state = "ROLLING_BACK", !.at = "rollback"]
          \/ stage' = [probed EXCEPT !.at = "expand"]
      BY <1>5 DEF ProbeRan
    <2> HIDE DEF failed
    <2>4. CASE probed.ran < Probes /\ stage' = probed
      BY <2>1, <2>2, <2>4 DEF Stage, StageCounts, StageMoved
    <2>5. CASE stage' = [probed EXCEPT !.state = "ROLLING_BACK", !.at = "rollback"]
      BY <2>1, <2>2, <2>5 DEF Stage, StageCounts, StageMoved, DeployState, Commands
    <2>6. CASE stage' = [probed EXCEPT !.at = "expand"]
      BY <2>1, <2>2, <2>6 DEF Stage, StageCounts, StageMoved, Commands
    <2>7. QED
      BY <1>1, <2>3, <2>4, <2>5, <2>6
  <1>6. ASSUME NEW ok \in BOOLEAN, ExpandRan(owns_, ok) PROVE StageMoved
    BY <1>1, <1>2, <1>3, <1>6 DEF ExpandRan, Ended
  <1>7. ASSUME NEW ok \in BOOLEAN, RollbackRan(owns_, ok) PROVE StageMoved
    BY <1>1, <1>2, <1>7 DEF RollbackRan, Ended
  <1>8. ASSUME CommandThrows PROVE StageMoved
    BY <1>1, <1>8 DEF CommandThrows
  <1>9. QED
    BY <1>4, <1>5, <1>6, <1>7, <1>8 DEF runDeployStage

LEMMA ActOnDeployDecisionKeeps == RunInv /\ ActOnDeployDecision => RunInv'
  <1> SUFFICES ASSUME RunInv, ActOnDeployDecision PROVE RunInv'
    OBVIOUS
  <1>1. UNCHANGED <<opts, decided, st, merged>> /\ run.at = "deploy_decision"
    BY DEF ActOnDeployDecision, NoRequest, KeepWork
  <1>2. SupervisedTypeOK /\ run.task \in Tasks
    BY <1>1 DEF RunInv, TaskFollowsRun, Between
  <1>3. run.at \notin Between \cup {"rejected"} \cup AfterStage \cup {"stage"}
    BY <1>1 DEF Between, AfterStage
  <1>4. {"ESCALATED", "COMPLETED"} \subseteq TaskState
    BY DEF TaskState, TerminalStates
  <1>5. /\ plane' \in {plane, [plane EXCEPT !.deployPending = FALSE]}
        /\ \/ UNCHANGED stage /\ TaskReturns("ESCALATED")
           \/ UNCHANGED stage /\ TaskReturns("COMPLETED")
           \/ Proceed("stage") /\ Here /\ \E valid \in BOOLEAN : StartStage(TRUE, valid)
    BY DEF ActOnDeployDecision, KeepPlane
  <1>6. /\ plane' \in PlaneType /\ plane'.signal = plane.signal
        /\ plane'.killed = plane.killed /\ plane'.manual = plane.manual
    BY <1>2, <1>5, Types DEF PlaneType
  <1>7. CASE UNCHANGED stage /\ (TaskReturns("ESCALATED") \/ TaskReturns("COMPLETED"))
    BY <1>1, <1>2, <1>3, <1>4, <1>6, <1>7, ReturnKeeps, Types
  <1>8. CASE Proceed("stage") /\ Here /\ \E valid \in BOOLEAN : StartStage(TRUE, valid)
    <2>1. run' \in RunType /\ run'.at = "stage" /\ run'.task = run.task /\ run'.held = run.held
      BY <1>2, <1>8, Types, ProceedEffect DEF Places, Awaiting
    <2>2. /\ stage \in Stage /\ StageCounts /\ opts.deploy /\ ~opts.graph /\ plane.manual = "none"
          /\ stage.at = "idle" /\ stage.ended = "no"
      BY <1>1, <1>2, Types DEF RunInv, DeployFollowsRun, Deployment, AfterStage, AtEnd
    <2>3. Recorded("CANARY", "canary") \/ StageSettled("ESCALATED")
      BY <1>8 DEF StartStage
    <2>4. StageMoved
      <3>1. CASE Recorded("CANARY", "canary")
        BY <2>2, <3>1 DEF Recorded, Stage, StageCounts, StageMoved, DeployState, Commands
      <3>2. CASE StageSettled("ESCALATED")
        BY <2>2, <3>2, SettledEffect DEF StageMoved, Ended
      <3>3. QED
        BY <2>3, <3>1, <3>2
    <2>5. SupervisedTypeOK'
      BY <1>1, <1>2, <1>6, <1>8, <2>1, <2>4, Types, TypesBack DEF Here, StageMoved
    <2>6. TaskFollowsRun' /\ KillSticks' /\ StageCounts'
      BY <1>1, <1>2, <1>6, <2>1, <2>4 DEF RunInv, TaskFollowsRun, KillSticks, Between, StageMoved
    <2>7. run'.task # NoActive
      BY <1>2, <2>1, RunAssumption DEF Tasks
    <2>8. DeployFollowsRun'
      BY <1>1, <1>6, <2>1, <2>2, <2>4, <2>7 DEF DeployFollowsRun, Deployment, AfterStage, AtEnd, StageMoved
    <2>9. QED
      BY <2>5, <2>6, <2>8 DEF RunInv
  <1>9. QED
    BY <1>5, <1>7, <1>8

LEMMA StageRunsKeeps == RunInv /\ StageRuns => RunInv'
  <1> SUFFICES ASSUME RunInv, StageRuns PROVE RunInv'
    OBVIOUS
  <1>1. /\ UNCHANGED <<opts, decided, st, merged, run, plane, returned, closed>>
        /\ run.at = "stage" /\ runDeployStage(run.held)
    BY DEF StageRuns, NoRequest, KeepWork
  <1>2. SupervisedTypeOK /\ run.task \in Tasks /\ run.held \in BOOLEAN
    BY <1>1, Types DEF RunInv, TaskFollowsRun, Between, RunType
  <1>3. StageMoved
    BY <1>1, <1>2, StageStep, Types DEF RunInv
  <1>4. SupervisedTypeOK'
    BY <1>1, <1>2, <1>3, Types, TypesBack DEF StageMoved
  <1>5. TaskFollowsRun' /\ KillSticks' /\ StageCounts'
    BY <1>1, <1>3 DEF RunInv, TaskFollowsRun, KillSticks, StageMoved
  <1>6. run.task # NoActive
    BY <1>2, RunAssumption DEF Tasks
  <1>7. DeployFollowsRun'
    BY <1>1, <1>3, <1>6 DEF RunInv, DeployFollowsRun, Deployment, AfterStage, AtEnd, StageMoved
  <1>8. QED
    BY <1>4, <1>5, <1>7 DEF RunInv

\* The window after EXPANDED: a move of the run from a settled or rolled back stage.
LEMMA WindowKeeps ==
    ASSUME RunInv, run.at \in AfterStage \cup {"stage"}, NEW p \in AfterStage \cup {"rejected"},
           Proceed(p), UNCHANGED <<opts, decided, st, merged, plane, stage, returned, closed>>,
           p \in AfterStage =>
               /\ plane.manual = "running" \/ Settled
               /\ plane.manual = "running" => p # "window",
           p = "rejected" => plane.manual # "running"
    PROVE  RunInv'
  <1>1. SupervisedTypeOK /\ p \in Places
    BY DEF RunInv, Places, Awaiting, Microtask, AfterStage
  <1>2. run' \in RunType /\ run'.at = p /\ run'.task = run.task /\ run'.held = run.held
    BY <1>1, Types, ProceedEffect
  <1>3. SupervisedTypeOK'
    BY <1>1, <1>2, Types, TypesBack
  <1>4. TaskFollowsRun' /\ KillSticks' /\ StageCounts'
    BY <1>2 DEF RunInv, TaskFollowsRun, KillSticks, StageCounts, Between, AfterStage
  <1>5. DeployFollowsRun'
    BY <1>2 DEF RunInv, DeployFollowsRun, Settled, Deployment, AfterStage, AtEnd
  <1>6. QED
    BY <1>3, <1>4, <1>5 DEF RunInv

LEMMA StageEndsKeeps == RunInv /\ StageEnds => RunInv'
  <1> SUFFICES ASSUME RunInv, StageEnds PROVE RunInv'
    OBVIOUS
  <1>1. /\ UNCHANGED <<opts, decided, st, merged, plane, stage>>
        /\ run.at = "stage" /\ stage.at = "idle"
    BY DEF StageEnds, NoRequest, KeepPlane, KeepWork
  <1>2. SupervisedTypeOK /\ run.at \notin Between \cup {"rejected"}
    BY <1>1 DEF RunInv, Between
  <1>3. plane.manual = "none" /\ stage.ended # "no" /\ (stage.ended = "thrown" \/ Settled)
    BY <1>1 DEF RunInv, DeployFollowsRun
  <1>4. {"ESCALATED", "COMPLETED"} \subseteq TaskState
    BY DEF TaskState, TerminalStates
  <1>5. CASE stage.ended = "thrown"
    <2>1. Proceed("rejected") /\ Here
      BY <1>5 DEF StageEnds
    <2>2. QED
      BY <1>1, <1>3, <2>1, WindowKeeps DEF Here, AfterStage
  <1>6. CASE stage.ended = "EXPANDED"
    <2>1. Here /\ (Proceed("window_over") \/ Proceed("window"))
      BY <1>6 DEF StageEnds
    <2>2. QED
      BY <1>1, <1>3, <1>6, <2>1, WindowKeeps DEF Here, AfterStage
  <1>7. CASE stage.ended \notin {"thrown", "EXPANDED"}
    <2>1. TaskReturns("ESCALATED") \/ TaskReturns("COMPLETED")
      BY <1>7 DEF StageEnds
    <2>2. QED
      BY <1>1, <1>2, <1>3, <1>4, <1>7, <2>1, ReturnKeeps, Types
  <1>8. QED
    BY <1>5, <1>6, <1>7

LEMMA WindowTimerKeeps == RunInv /\ WindowTimer => RunInv'
  <1> SUFFICES ASSUME RunInv, WindowTimer PROVE RunInv'
    OBVIOUS
  <1>1. /\ run.at = "window" /\ Proceed("window_over")
        /\ UNCHANGED <<opts, decided, st, merged, plane, stage, returned, closed>>
    BY DEF WindowTimer, NoRequest, KeepPlane, KeepWork, Here
  <1>2. plane.manual = "running" \/ Settled
    BY <1>1 DEF RunInv, DeployFollowsRun, AfterStage
  <1>3. QED
    BY <1>1, <1>2, WindowKeeps DEF AfterStage

LEMMA WindowClosesKeeps == RunInv /\ WindowCloses => RunInv'
  <1> SUFFICES ASSUME RunInv, WindowCloses PROVE RunInv'
    OBVIOUS
  <1>1. /\ run.at \in {"window_over", "rollback_wait"}
        /\ UNCHANGED <<opts, decided, st, merged, plane, stage>>
    BY DEF WindowCloses, NoRequest, KeepPlane, KeepWork
  <1>2. plane.manual = "running" \/ Settled
    BY <1>1 DEF RunInv, DeployFollowsRun, AfterStage
  <1>3. CASE plane.manual = "running"
    <2>1. Proceed("rollback_wait") /\ Here
      BY <1>3 DEF WindowCloses
    <2>2. QED
      BY <1>1, <1>2, <1>3, <2>1, WindowKeeps DEF AfterStage, Here
  <1>4. CASE plane.manual # "running"
    <2>1. TaskReturns("COMPLETED")
      BY <1>4 DEF WindowCloses
    <2>2. SupervisedTypeOK /\ run.at \notin Between \cup {"rejected"} /\ "COMPLETED" \in TaskState
      BY <1>1 DEF RunInv, Between, TaskState, TerminalStates
    <2>3. QED
      BY <1>1, <1>2, <1>4, <2>1, <2>2, ReturnKeeps, Types
  <1>5. QED
    BY <1>3, <1>4

LEMMA ManualRollbackRunsKeeps == RunInv /\ ManualRollbackRuns => RunInv'
  <1> SUFFICES ASSUME RunInv, ManualRollbackRuns PROVE RunInv'
    OBVIOUS
  <1>1. /\ plane.manual = "running" /\ plane' = [plane EXCEPT !.manual = "settled"]
        /\ UNCHANGED <<opts, decided, st, merged, run, returned, closed>>
        /\ \/ Broken("fenced")
           \/ \E s \in Ended : StageSettled(s)
    BY DEF ManualRollbackRuns, NoRequest, KeepWork, RollbackRan, Ended
  <1>2. /\ SupervisedTypeOK /\ StageCounts
        /\ run.at \in {"window_over", "rollback_wait"} /\ run.task \in Tasks
    BY <1>1 DEF RunInv, DeployFollowsRun, TaskFollowsRun, Between
  <1>3. stage' \in Stage /\ StageCounts' /\ Settled'
    BY <1>1, <1>2, BrokenEffect, SettledEffect, Types DEF Settled
  <1>4. /\ plane' \in PlaneType /\ plane'.manual = "settled"
        /\ plane'.signal = plane.signal /\ plane'.killed = plane.killed
    BY <1>1, <1>2, Types DEF PlaneType
  <1>5. SupervisedTypeOK'
    BY <1>1, <1>2, <1>3, <1>4, Types, TypesBack
  <1>6. TaskFollowsRun' /\ KillSticks'
    BY <1>1, <1>4 DEF RunInv, TaskFollowsRun, KillSticks
  <1>7. run.task # NoActive
    BY <1>2, RunAssumption DEF Tasks
  <1>8. DeployFollowsRun'
    BY <1>1, <1>2, <1>3, <1>4, <1>7 DEF RunInv, DeployFollowsRun, Deployment, AfterStage, AtEnd
  <1>9. QED
    BY <1>3, <1>5, <1>6, <1>8 DEF RunInv

LEMMA CloseServerKeeps == RunInv /\ CloseServer => RunInv'
  <1> SUFFICES ASSUME RunInv, CloseServer PROVE RunInv'
    OBVIOUS
  <1>1. /\ run.at = "closing" /\ Proceed("done")
        /\ UNCHANGED <<opts, decided, st, merged, plane, stage, returned, closed>>
    BY DEF CloseServer, NoRequest, KeepPlane, KeepWork, Here
  <1>2. SupervisedTypeOK /\ "done" \in Places
    BY DEF RunInv, Places
  <1>3. run' \in RunType /\ run'.at = "done" /\ run'.task = run.task /\ run'.held = run.held
    BY <1>1, <1>2, Types, ProceedEffect
  <1>4. SupervisedTypeOK'
    BY <1>1, <1>2, <1>3, Types, TypesBack
  <1>5. TaskFollowsRun' /\ KillSticks' /\ StageCounts'
    BY <1>1, <1>3 DEF RunInv, TaskFollowsRun, KillSticks, StageCounts, Between
  <1>6. DeployFollowsRun'
    BY <1>1, <1>3 DEF RunInv, DeployFollowsRun, Settled, Deployment, AfterStage, AtEnd
  <1>7. QED
    BY <1>4, <1>5, <1>6 DEF RunInv

LEMMA LoseLeaseKeeps == RunInv /\ LoseLease => RunInv'
  <1> SUFFICES ASSUME RunInv, LoseLease PROVE RunInv'
    OBVIOUS
  <1>1. /\ run' = [run EXCEPT !.held = FALSE]
        /\ UNCHANGED <<opts, decided, st, merged, plane, stage, returned, closed>>
    BY DEF LoseLease, KeepPlane, KeepWork, Here
  <1>2. SupervisedTypeOK
    BY DEF RunInv
  <1>3. run' \in RunType /\ run'.at = run.at /\ run'.task = run.task /\ ~run'.held
    BY <1>1, <1>2, Types DEF RunType
  <1>4. SupervisedTypeOK'
    BY <1>1, <1>2, <1>3, Types, TypesBack
  <1>5. TaskFollowsRun' /\ KillSticks' /\ StageCounts' /\ DeployFollowsRun'
    BY <1>1, <1>3 DEF RunInv, TaskFollowsRun, KillSticks, StageCounts, DeployFollowsRun, Settled
  <1>6. QED
    BY <1>4, <1>5 DEF RunInv

------------------------------------------------------------------------------
(* The human plane.  A request changes where the run is only by waking a   *)
(* wait; what it leaves of the invariant is stated once.                   *)
Woke ==
    \/ UNCHANGED run
    \/ /\ run' \in RunType /\ run'.task = run.task /\ run'.held = run.held
       /\ \/ run.at = "approval_wait" /\ run'.at = "decision"
          \/ run.at = "deploy_wait" /\ run'.at = "deploy_decision"
          \/ run.at = "window" /\ run'.at = "window_over"
          \/ run.at = "paused" /\ run'.at = "loop"

LEMMA RequestKeeps ==
    ASSUME RunInv, Woke, run.at # "open", UNCHANGED <<opts, merged, returned, closed>>,
           stage' \in {stage, [stage EXCEPT !.state = "ESCALATED"]}, st' \in StateTable,
           decided' \in [Tasks -> SUBSET {"approve", "reject"}], plane' \in PlaneType,
           plane'.manual = plane.manual, plane'.killed => plane'.signal = "kill",
           plane'.killed = plane.killed \/ (plane'.killed /\ (run.at \notin Microtask))
    PROVE  RunInv'
  <1>1. SupervisedTypeOK
    BY DEF RunInv
  <1>2. /\ run' \in RunType /\ run'.task = run.task /\ run'.held = run.held
    BY <1>1, Types DEF Woke
  <1>3. /\ stage' \in Stage /\ StageCounts' /\ stage'.at = stage.at /\ stage'.ended = stage.ended
        /\ stage'.state = stage.state \/ stage'.state = "ESCALATED"
    BY <1>1, Types DEF RunInv, StageCounts, Stage, DeployState
  <1>4. SupervisedTypeOK'
    BY <1>1, <1>2, <1>3, Types, TypesBack
  <1>5. TaskFollowsRun'
    BY <1>2 DEF RunInv, TaskFollowsRun, Woke, Between
  <1>6. KillSticks'
    BY DEF RunInv, KillSticks, Woke, Microtask
  <1>7. DeployFollowsRun'
    BY <1>2, <1>3 DEF RunInv, DeployFollowsRun, Settled, Woke, Deployment, AfterStage, AtEnd
  <1>8. QED
    BY <1>3, <1>4, <1>5, <1>6, <1>7 DEF RunInv

LEMMA WokenWakes ==
    ASSUME run \in RunType, NEW p, NEW q \in Places, NEW h \in Heard, Woken(p, q, h),
           <<p, q>> \in {<<"approval_wait", "decision">>, <<"deploy_wait", "deploy_decision">>,
                         <<"window", "window_over">>}
    PROVE  Woke
  BY ToldEffect DEF Woken, Woke

LEMMA DecideKeeps == RunInv /\ Decide => RunInv'
  <1> SUFFICES ASSUME RunInv, Decide PROVE RunInv'
    OBVIOUS
  <1>1. /\ run.at \in Awaiting /\ UNCHANGED <<opts, merged, returned, closed, stage>>
        /\ SupervisedTypeOK /\ (plane.killed => plane.signal = "kill")
    BY DEF Decide, Request, RunInv, KillSticks
  <1>2. PICK t \in plane.approvals, decision \in {"approve", "reject"} :
            onEvidenceInvalid(t) \/ onDecision(t, decision)
    BY DEF Decide
  <1>3. t \in Tasks /\ "decision" \in Places /\ {"evidence_invalid", "approve", "reject"} \subseteq Heard
    BY <1>1, <1>2, Types DEF PlaneType, Places, Microtask, Heard
  <1>4. run.at # "open"
    BY <1>1 DEF Awaiting
  <1>5. CASE onEvidenceInvalid(t)
    <2>1. st' \in StateTable /\ UNCHANGED <<plane, decided>>
      BY <1>1, <1>3, <1>5, MovedType, Types DEF onEvidenceInvalid
    <2>2. Woke
      BY <1>1, <1>3, <1>5, WokenWakes, Types DEF onEvidenceInvalid
    <2>3. QED
      BY <1>1, <1>4, <2>1, <2>2, RequestKeeps, Types
  <1>6. CASE onDecision(t, decision)
    <2>1. /\ st' = Moved(t, IF decision = "approve" THEN "human_approved" ELSE "changes_requested")
          /\ decided' = [decided EXCEPT ![t] = @ \cup {decision}]
          /\ plane' = [plane EXCEPT !.approvals = @ \ {t}]
          /\ Woken("approval_wait", "decision", decision)
      BY <1>6 DEF onDecision
    <2>2. st' \in StateTable
      BY <1>1, <1>3, <2>1, MovedType, Types
    <2>3. decided' \in [Tasks -> SUBSET {"approve", "reject"}]
      BY <1>1, <1>2, <1>3, <2>1, Types
    <2>4. /\ plane' \in PlaneType /\ plane'.signal = plane.signal
          /\ plane'.killed = plane.killed /\ plane'.manual = plane.manual
      BY <1>1, <2>1, Types DEF PlaneType
    <2>5. Woke
      BY <1>1, <1>2, <1>3, <2>1, WokenWakes, Types
    <2>6. QED
      BY <1>1, <1>4, <2>2, <2>3, <2>4, <2>5, RequestKeeps
  <1>7. QED
    BY <1>2, <1>5, <1>6

LEMMA KillKeeps == RunInv /\ Kill => RunInv'
  <1> SUFFICES ASSUME RunInv, Kill PROVE RunInv'
    OBVIOUS
  <1>1. /\ run.at \in Awaiting /\ UNCHANGED <<opts, merged, returned, closed, st, stage, decided>>
        /\ plane' = [plane EXCEPT !.signal = "kill", !.killed = TRUE,
                          !.released = @ \/ run.at \in {"stage", "window"}]
        /\ SupervisedTypeOK
    BY DEF Kill, Request, RunInv
  <1>2. run.at # "open" /\ run.at \notin Microtask
    BY <1>1 DEF Awaiting, Microtask
  <1>3. (plane.released \/ run.at \in {"stage", "window"}) \in BOOLEAN
    OBVIOUS
  <1>4. /\ plane' \in PlaneType /\ plane'.signal = "kill" /\ plane'.killed
        /\ plane'.manual = plane.manual
    BY <1>1, <1>3, Types DEF PlaneType
  <1>5. {"decision", "deploy_decision", "window_over", "loop"} \subseteq Places /\ "killed" \in Heard
    BY DEF Places, Awaiting, Microtask, Heard
  <1>6. Woke
    BY <1>1, <1>5, Types, ToldEffect, ProceedEffect DEF Kill, Woke
  <1>7. QED
    BY <1>1, <1>2, <1>4, <1>6, RequestKeeps, Types

LEMMA PauseKeeps == RunInv /\ Pause => RunInv'
  <1> SUFFICES ASSUME RunInv, Pause PROVE RunInv'
    OBVIOUS
  <1>1. /\ run.at \in Awaiting /\ plane.signal # "kill"
        /\ UNCHANGED <<opts, merged, returned, closed, run, st, stage, decided>>
        /\ plane' = [plane EXCEPT !.signal = "pause"]
        /\ SupervisedTypeOK /\ ~plane.killed /\ plane.killed \in BOOLEAN
    BY Types DEF Pause, Request, RunInv, KillSticks, PlaneType
  <1>2. /\ plane' \in PlaneType /\ plane'.killed = plane.killed /\ plane'.manual = plane.manual
    BY <1>1, Types DEF PlaneType
  <1>3. run.at # "open"
    BY <1>1 DEF Awaiting
  <1>4. QED
    BY <1>1, <1>2, <1>3, RequestKeeps, Types DEF Woke

LEMMA ResumeKeeps == RunInv /\ Resume => RunInv'
  <1> SUFFICES ASSUME RunInv, Resume PROVE RunInv'
    OBVIOUS
  <1>1. /\ run.at \in Awaiting /\ UNCHANGED <<opts, merged, returned, closed, st, stage, decided>>
        /\ plane' = [plane EXCEPT !.signal = requestResume(plane.signal)]
        /\ IF run.at = "paused" THEN Proceed("loop") ELSE UNCHANGED run
        /\ SupervisedTypeOK /\ (plane.killed => plane.signal = "kill")
    BY DEF Resume, Request, RunInv, KillSticks
  <1>2. requestResume(plane.signal) \in {"none", "kill"}
    BY DEF requestResume
  <1>3. /\ plane' \in PlaneType /\ plane'.killed = plane.killed /\ plane'.manual = plane.manual
        /\ plane'.signal = requestResume(plane.signal)
    BY <1>1, <1>2, Types DEF PlaneType
  <1>4. plane'.killed => plane'.signal = "kill"
    BY <1>1, <1>3 DEF requestResume
  <1>5. Woke
    BY <1>1, Types, ProceedEffect DEF Woke, Places, Awaiting
  <1>6. run.at # "open"
    BY <1>1 DEF Awaiting
  <1>7. QED
    BY <1>1, <1>3, <1>4, <1>5, <1>6, RequestKeeps, Types

LEMMA InjectKeeps == RunInv /\ Inject => RunInv'
  <1> SUFFICES ASSUME RunInv, Inject PROVE RunInv'
    OBVIOUS
  <1>1. /\ run.at \in Awaiting
        /\ UNCHANGED <<opts, merged, returned, closed, run, st, stage, decided>>
        /\ plane' = [plane EXCEPT !.guidance = @ + 1]
        /\ SupervisedTypeOK /\ (plane.killed => plane.signal = "kill")
    BY DEF Inject, Request, RunInv, KillSticks
  <1>2. plane.guidance + 1 \in Nat
    BY <1>1, Types DEF PlaneType
  <1>3. /\ plane' \in PlaneType /\ plane'.killed = plane.killed /\ plane'.manual = plane.manual
        /\ plane'.signal = plane.signal
    BY <1>1, <1>2, Types DEF PlaneType
  <1>4. run.at # "open"
    BY <1>1 DEF Awaiting
  <1>5. QED
    BY <1>1, <1>3, <1>4, RequestKeeps, Types DEF Woke

LEMMA QuarantineKeeps == RunInv /\ Quarantine => RunInv'
  <1> SUFFICES ASSUME RunInv, Quarantine PROVE RunInv'
    OBVIOUS
  <1>1. /\ run.at \in Awaiting
        /\ UNCHANGED <<opts, merged, returned, closed, run, stage, decided>>
        /\ SupervisedTypeOK /\ (plane.killed => plane.signal = "kill")
    BY DEF Quarantine, Request, RunInv, KillSticks
  <1>2. PICK t \in Tasks : /\ plane' = [plane EXCEPT !.quarantines = @ \cup {t}]
                           /\ st' = Moved(t, "quarantine")
    BY DEF Quarantine
  <1>3. st' \in StateTable
    BY <1>1, <1>2, MovedType, Types
  <1>4. /\ plane' \in PlaneType /\ plane'.killed = plane.killed /\ plane'.manual = plane.manual
        /\ plane'.signal = plane.signal
    BY <1>1, <1>2, Types DEF PlaneType
  <1>5. run.at # "open"
    BY <1>1 DEF Awaiting
  <1>6. QED
    BY <1>1, <1>3, <1>4, <1>5, RequestKeeps, Types DEF Woke

LEMMA DeployDecideKeeps == RunInv /\ DeployDecide => RunInv'
  <1> SUFFICES ASSUME RunInv, DeployDecide PROVE RunInv'
    OBVIOUS
  <1>1. /\ run.at \in Awaiting
        /\ UNCHANGED <<opts, merged, returned, closed, st, plane, decided>>
        /\ stage' \in {stage, [stage EXCEPT !.state = "ESCALATED"]}
        /\ \E h \in {"evidence_invalid", "approve", "reject"} : Woken("deploy_wait", "deploy_decision", h)
        /\ SupervisedTypeOK /\ (plane.killed => plane.signal = "kill")
    BY DEF DeployDecide, Request, RunInv, KillSticks
  <1>2. "deploy_decision" \in Places /\ {"evidence_invalid", "approve", "reject"} \subseteq Heard
    BY DEF Places, Microtask, Heard
  <1>3. Woke
    BY <1>1, <1>2, WokenWakes, Types
  <1>4. run.at # "open"
    BY <1>1 DEF Awaiting
  <1>5. QED
    BY <1>1, <1>3, <1>4, RequestKeeps, Types

LEMMA ManualRollbackKeeps == RunInv /\ ManualRollback => RunInv'
  <1> SUFFICES ASSUME RunInv, ManualRollback PROVE RunInv'
    OBVIOUS
  <1>1. /\ run.at \in Awaiting /\ stage.state = "EXPANDED"
        /\ run.at = "stage" => stage.at # "idle"
        /\ UNCHANGED <<opts, merged, returned, closed, st, decided>>
        /\ IF owns THEN runRollback ELSE UNCHANGED stage
        /\ plane' = [plane EXCEPT !.released = TRUE, !.manual = IF owns THEN "running" ELSE "settled"]
        /\ Woken("window", "window_over", "none")
        /\ SupervisedTypeOK
    BY DEF ManualRollback, Request, RunInv
  <1>2. /\ stage.at = "idle" /\ run.at \in {"window", "rollback_wait", "closing"}
        /\ run.task # NoActive
    BY <1>1 DEF RunInv, StageCounts, DeployFollowsRun, Awaiting, AfterStage, AtEnd
  <1>3. run.at = "closing" => ~owns
    BY <1>2 DEF RunInv, TaskFollowsRun, Between, owns
  <1>4. /\ plane' \in PlaneType /\ plane'.manual = IF owns THEN "running" ELSE "settled"
        /\ plane'.signal = plane.signal /\ plane'.killed = plane.killed
    BY <1>1, Types DEF PlaneType
  <1>5. /\ stage' \in Stage /\ StageCounts'
        /\ owns => stage'.at = "rollback" /\ stage'.state = "ROLLING_BACK"
        /\ ~owns => stage' = stage
    <2>1. CASE owns
      <3>1. /\ "ROLLING_BACK" \in DeployState \ {"EXPANDED"}
            /\ "rollback" \in Commands \ {"canary", "observe"}
        BY DEF DeployState, Commands
      <3>2. Recorded("ROLLING_BACK", "rollback") /\ stage \in Stage /\ StageCounts
        BY <1>1, <2>1, Types DEF runRollback, RunInv
      <3>3. QED
        BY <2>1, <3>1, <3>2, RecordedEffect
    <2>2. CASE ~owns
      BY <1>1, <2>2, Types DEF RunInv, StageCounts
    <2>3. QED
      BY <2>1, <2>2
  <1>6. /\ run' \in RunType /\ run'.task = run.task /\ run'.held = run.held
        /\ run'.at = IF run.at = "window" THEN "window_over" ELSE run.at
    BY <1>1, ToldEffect, Types DEF Woken, Places, Microtask, Heard
  <1>7. SupervisedTypeOK'
    BY <1>1, <1>4, <1>5, <1>6, Types, TypesBack
  <1>8. TaskFollowsRun' /\ KillSticks'
    BY <1>2, <1>4, <1>6 DEF RunInv, TaskFollowsRun, KillSticks, Between
  <1>9. Settled
    BY <1>1, <1>2 DEF Settled
  <1>10. DeployFollowsRun'
    <2>1. CASE owns
      BY <1>1, <1>2, <1>3, <1>4, <1>5, <1>6, <2>1
      DEF RunInv, DeployFollowsRun, Deployment, AfterStage, AtEnd
    <2>2. CASE ~owns
      BY <1>1, <1>2, <1>4, <1>5, <1>6, <1>9, <2>2
      DEF RunInv, DeployFollowsRun, Settled, Deployment, AfterStage, AtEnd
    <2>3. QED
      BY <2>1, <2>2
  <1>11. QED
    BY <1>5, <1>7, <1>8, <1>10 DEF RunInv

------------------------------------------------------------------------------
(* Before the first step no task has run and no request has come. *)
LEMMA RunInitInv == SupervisedInit => RunInv
  <1> SUFFICES ASSUME SupervisedInit PROVE RunInv
    OBVIOUS
  <1>1. /\ run = [at |-> "open", task |-> NoActive, loop |-> "IMPLEMENTING", rounds |-> 0,
                  held |-> FALSE, heard |-> "none", result |-> "none"]
        /\ opts \in [graph : BOOLEAN, interactive : BOOLEAN, deploy : BOOLEAN]
        /\ ~(opts.graph /\ opts.deploy)
        /\ st = [t \in Tasks |-> "none"] /\ returned = [t \in Tasks |-> "none"] /\ closed = {}
        /\ plane \in [signal : {"none"}, killed : {FALSE}, approvals : {{}}, guidance : {0},
                      quarantines : {{}, {Head(Order)}}, deployPending : {FALSE},
                      released : {FALSE}, manual : {"none"}]
        /\ decided = [t \in Tasks |-> {}] /\ merged = [t \in Tasks |-> "no"]
        /\ stage = [state |-> "none", at |-> "idle", ran |-> 0, failed |-> 0, ended |-> "no"]
    BY DEF SupervisedInit, StageInit
  <1>2. run \in RunType
    <2>1. "open" \in Places /\ "none" \in Heard /\ 0 \in 0..MaxRounds
      BY RunAssumption DEF Places, Heard
    <2>2. QED
      BY <1>1, <2>1 DEF RunType
  <1>3. st \in StateTable /\ returned \in StateTable
    BY <1>1 DEF StateTable
  <1>4. plane \in PlaneType /\ ~plane.killed /\ plane.manual = "none"
    <2>1. {} \in SUBSET Tasks /\ {Head(Order)} \in SUBSET Tasks /\ 0 \in Nat
      BY Head1
    <2>2. /\ plane = [plane EXCEPT !.manual = "none"]
          /\ plane.signal = "none" /\ plane.killed = FALSE /\ plane.approvals = {}
          /\ plane.guidance = 0 /\ plane.quarantines \in {{}, {Head(Order)}}
          /\ plane.deployPending = FALSE /\ plane.released = FALSE /\ plane.manual = "none"
      BY <1>1
    <2>3. QED
      BY <1>1, <2>1, <2>2 DEF PlaneType
  <1>5. stage \in Stage
    BY <1>1, StageAssumption DEF Stage, DeployState
  <1>6. SupervisedTypeOK
    BY <1>1, <1>2, <1>3, <1>4, <1>5 DEF SupervisedTypeOK, RunType, PlaneType, StateTable, Places
  <1>7. TaskFollowsRun /\ KillSticks
    BY <1>1, <1>4 DEF TaskFollowsRun, KillSticks, Between
  <1>8. StageCounts
    BY <1>1, StageAssumption DEF StageCounts
  <1>9. DeployFollowsRun
    BY <1>1, <1>4 DEF DeployFollowsRun, Deployment, AfterStage, AtEnd
  <1>10. QED
    BY <1>6, <1>7, <1>8, <1>9 DEF RunInv

(* Every step of the run, of its timers and of the human plane keeps it. *)
THEOREM RunStepInv == RunInv /\ [SupervisedNext]_supervisedVars => RunInv'
  <1> SUFFICES ASSUME RunInv, [SupervisedNext]_supervisedVars PROVE RunInv'
    OBVIOUS
  <1>1. CASE HumanPlane
    BY <1>1, DecideKeeps, KillKeeps, PauseKeeps, ResumeKeeps, InjectKeeps, QuarantineKeeps,
       DeployDecideKeeps, ManualRollbackKeeps DEF HumanPlane
  <1>2. CASE OpenRun \/ SelectTask \/ StartTask \/ LoopBoundary \/ RoundEnds
    BY <1>2, OpenRunKeeps, SelectTaskKeeps, StartTaskKeeps, LoopBoundaryKeeps, RoundEndsKeeps
  <1>3. CASE AutoMerge \/ ApprovalTimer \/ ActOnDecision \/ ApprovedMerge \/ TaskThrows
    BY <1>3, AutoMergeKeeps, ApprovalTimerKeeps, ActOnDecisionKeeps, ApprovedMergeKeeps, TaskThrowsKeeps
  <1>4. CASE DeployTimer \/ ActOnDeployDecision \/ StageRuns \/ StageEnds \/ WindowTimer
             \/ WindowCloses \/ ManualRollbackRuns \/ CloseServer \/ LoseLease
    BY <1>4, DeployTimerKeeps, ActOnDeployDecisionKeeps, StageRunsKeeps, StageEndsKeeps,
       WindowTimerKeeps, WindowClosesKeeps, ManualRollbackRunsKeeps, CloseServerKeeps, LoseLeaseKeeps
  <1>5. CASE UNCHANGED supervisedVars
    BY <1>5 DEF supervisedVars, RunInv, SupervisedTypeOK, TaskFollowsRun, KillSticks, StageCounts,
                DeployFollowsRun, Settled
  <1>6. QED
    BY <1>1, <1>2, <1>3, <1>4, <1>5 DEF SupervisedNext

(* The invariant holds in every state of every supervised run.             *)
THEOREM RunAlwaysInv == SupervisedSpec => []RunInv
  BY RunInitInv, RunStepInv, PTL DEF SupervisedSpec

(* Every variable of a supervised run stays in its range, for any tasks,   *)
(* dependencies, probes and threshold.                                     *)
THEOREM RunTypeCorrect == SupervisedSpec => []SupervisedTypeOK
  <1>1. RunInv => SupervisedTypeOK
    BY DEF RunInv
  <1>2. QED
    BY <1>1, RunAlwaysInv, PTL

(* The log never ends with a deployment half done: when the run is over    *)
(* and did not lose its lease, the last DEPLOY_STATE is a final one.       *)
(* (loop-run.ts executeTask, deploy/stage.ts.)                             *)
THEOREM DeploymentSettles == SupervisedSpec => []DeploySettles
  <1>1. RunInv => DeploySettles
    BY DEF RunInv, DeployFollowsRun, DeploySettles, Settled, AfterStage, AtEnd
  <1>2. QED
    BY <1>1, RunAlwaysInv, PTL

\* The step of anything but the selection, once the run is killed: the task stays,
\* no round begins and a selection in progress is left where it is.
StaysInTask ==
    /\ run'.task = run.task
    /\ run'.at = "round" => run.at = "round"
    /\ run.at = "select" => run'.at = "select"

LEMMA KilledStaysWhereItIs ==
    ASSUME run \in RunType, plane.signal = "kill", run.at # "open", SupervisedNext, ~SelectTask
    PROVE  StaysInTask
  <1>1. CASE StartTask \/ RoundEnds
    BY <1>1 DEF StartTask, RoundEnds, Proceed, TaskReturns, RunType, StaysInTask
  <1>2. CASE LoopBoundary
    BY <1>2 DEF LoopBoundary, Proceed, TaskReturns, RunType, StaysInTask
  <1>3. CASE AutoMerge
    BY <1>3 DEF AutoMerge, MergeFinished, Proceed, Told, TaskReturns, RunType, StaysInTask
  <1>4. CASE ApprovalTimer \/ DeployTimer \/ WindowTimer \/ CloseServer
    BY <1>4 DEF ApprovalTimer, DeployTimer, WindowTimer, CloseServer, Proceed, Told, RunType, StaysInTask
  <1>5. CASE ActOnDecision
    BY <1>5 DEF ActOnDecision, Proceed, TaskReturns, RunType, StaysInTask
  <1>6. CASE ApprovedMerge
    BY <1>6 DEF ApprovedMerge, MergeFinished, Proceed, Told, TaskReturns, RunType, StaysInTask
  <1>7. CASE ActOnDeployDecision
    BY <1>7 DEF ActOnDeployDecision, Proceed, TaskReturns, RunType, StaysInTask
  <1>8. CASE StageEnds
    BY <1>8 DEF StageEnds, Proceed, TaskReturns, RunType, StaysInTask
  <1>9. CASE WindowCloses
    BY <1>9 DEF WindowCloses, Proceed, TaskReturns, RunType, StaysInTask
  <1>10. CASE StageRuns \/ ManualRollbackRuns \/ LoseLease
    BY <1>10 DEF StageRuns, ManualRollbackRuns, LoseLease, RunType, StaysInTask
  <1>11. CASE HumanPlane
    <2>1. CASE Decide
      BY <2>1 DEF Decide, onEvidenceInvalid, onDecision, Woken, Told, RunType, StaysInTask
    <2>2. CASE Kill
      BY <2>2 DEF Kill, Proceed, Told, RunType, StaysInTask
    <2>3. CASE Pause \/ Resume \/ Inject \/ Quarantine
      BY <2>3 DEF Pause, Resume, Inject, Quarantine, Proceed, RunType, StaysInTask
    <2>4. CASE DeployDecide \/ ManualRollback
      BY <2>4 DEF DeployDecide, ManualRollback, Woken, Told, RunType, StaysInTask
    <2>5. QED
      BY <1>11, <2>1, <2>2, <2>3, <2>4 DEF HumanPlane
  <1>12. CASE OpenRun
    BY <1>12 DEF OpenRun
  <1>13. CASE TaskThrows
    BY <1>13 DEF TaskThrows, Proceed, RunType, StaysInTask
  <1>14. QED
    BY <1>1, <1>2, <1>3, <1>4, <1>5, <1>6, <1>7, <1>8, <1>9, <1>10, <1>11, <1>12, <1>13 DEF SupervisedNext

\* What follows a kill, of one step.
KillStep ==
    plane.killed =>
        /\ run'.task = run.task
        /\ run'.at = "round" => run.at = "round"
        /\ opts.graph /\ run.at = "select" /\ run'.at = "closing" => run'.result = "CANCELLED"

(* After a kill no task is selected and no round begins, and a graph ends  *)
(* CANCELLED.  (human/api.ts, loop-run.ts.)                                *)
THEOREM KillEndsTheRun == SupervisedSpec => KillIsFinal
  <1>1. RunInv /\ [SupervisedNext]_supervisedVars => [KillStep]_supervisedVars
    <2> SUFFICES ASSUME RunInv, SupervisedNext, plane.killed
                 PROVE  /\ run'.task = run.task
                        /\ run'.at = "round" => run.at = "round"
                        /\ opts.graph /\ run.at = "select" /\ run'.at = "closing"
                             => run'.result = "CANCELLED"
      BY DEF KillStep
    <2>1. SupervisedTypeOK /\ run \in RunType /\ plane.signal = "kill" /\ run.at # "open"
      BY Types DEF RunInv, KillSticks
    <2>2. CASE SelectTask
      <3>1. /\ run.at = "select" /\ opts.graph
            /\ run' = [run EXCEPT !.at = "closing", !.result = runStateResult(plane.signal = "kill")]
        BY <2>1, <2>2 DEF SelectTask, RunInv, KillSticks
      <3>2. runStateResult(plane.signal = "kill") = "CANCELLED"
        BY <2>1, RunResult
      <3>3. QED
        BY <2>1, <3>1, <3>2 DEF RunType
    <2>3. CASE ~SelectTask
      BY <2>1, <2>3, KilledStaysWhereItIs DEF StaysInTask
    <2>4. QED
      BY <2>2, <2>3
  <1>2. QED
    BY <1>1, RunAlwaysInv, PTL DEF SupervisedSpec, KillIsFinal, KillStep

-----------------------------------------------------------------------------
(***************************************************************************)
(* Proofs about PrGate for any number of runs, reviewer slots, pushes and  *)
(* concurrent overrides, any repository policies and any answers.          *)
(*                                                                         *)
(* A check becomes green two awaits after the decision, and the decision   *)
(* is made from what the run gathered several awaits before.  RunFacts     *)
(* carries this along the places of a run: what is determined from the     *)
(* checks on, that the usage stays within the policy's cap, that a PASS on *)
(* its way to GitHub is earned, and that a green check without an approval *)
(* belongs to a run that nothing can move any more.  CallFacts says that   *)
(* an override is published only after its decision is in the log.         *)
(***************************************************************************)

Conclusions == {"none", "in_progress", "success", "action_required", "failure", "cancelled"}
HumanDecision == [key : Keys, action : {"APPROVE", "REJECT"}, published : BOOLEAN]
AnyCall == Call \cup [at : {"idle", "over"}]

Determinate == {"head_review", "panel", "judge", "head_decide", "decide"}
Reporting == {"head_report", "publish", "published", "publish_failed"}
PassStates == {"PASS", "PASS_WITH_WARNINGS"}

RunFacts(rec, check, approved) ==
    /\ rec.at = "none" <=> rec.state = "none"
    /\ rec.usage <= rec.policy.cap /\ rec.policy.cap <= Slots
    /\ rec.at = "acquire" => rec.usage = 0
    /\ rec.at \in Determinate => rec.det # "none"
    /\ rec.at \in Reporting /\ rec.decision \in PassStates => Earned(rec)
    /\ check = "success" /\ ~approved => Earned(rec) /\ rec.at \in {"published", "publish_failed", "ended"}

Decided(log, key, action) == \E i \in DOMAIN log : log[i].key = key /\ log[i].action = action
CallFacts ==
    \A c \in Calls : calls[c].at = "publish" =>
        Decided(overrides[calls[c].run], calls[c].key, calls[c].action)

PrInv ==
    /\ PrGateTypeOK
    /\ \A r \in RunIds : RunFacts(runs[r], checks[r], Approved(r))
    /\ CallFacts
    /\ OneDecisionPerKey

-----------------------------------------------------------------------------
LEMMA PrTypes ==
    ASSUME PrInv
    PROVE  /\ prHead \in Heads /\ runs \in [RunIds -> Run] /\ checks \in [RunIds -> Conclusions]
           /\ overrides \in [RunIds -> Seq(HumanDecision)] /\ calls \in [Calls -> AnyCall]
           /\ \A r \in RunIds : runs[r] \in Run /\ RunFacts(runs[r], checks[r], Approved(r))
  BY DEF PrInv, PrGateTypeOK, Conclusions, HumanDecision, AnyCall

\* One run is written, its check may be, and overrides and calls are left alone.
LEMMA RunsOnly ==
    ASSUME PrInv, prHead' \in Heads, runs' \in [RunIds -> Run], checks' \in [RunIds -> Conclusions],
           UNCHANGED <<overrides, calls>>,
           \A q \in RunIds : RunFacts(runs'[q], checks'[q], Approved(q))
    PROVE  PrInv'
  <1>1. PrGateTypeOK'
    BY PrTypes DEF PrGateTypeOK, Conclusions, HumanDecision, AnyCall
  <1>2. \A q \in RunIds : Approved(q)' = Approved(q)
    BY DEF Approved
  <1>3. \A q \in RunIds : RunFacts(runs[q], checks[q], Approved(q))'
    BY <1>2
  <1>4. CallFacts' /\ OneDecisionPerKey'
    BY DEF PrInv, CallFacts, OneDecisionPerKey
  <1>5. QED
    BY <1>1, <1>3, <1>4 DEF PrInv

LEMMA OneRun ==
    ASSUME PrInv, NEW r \in RunIds, NEW record \in Run, NEW check \in Conclusions,
           Put(r, record), checks' = [checks EXCEPT ![r] = check], prHead' \in Heads,
           UNCHANGED <<overrides, calls>>,
           RunFacts(record, check, Approved(r))
    PROVE  PrInv'
  <1>1. /\ runs' \in [RunIds -> Run] /\ checks' \in [RunIds -> Conclusions]
        /\ runs'[r] = record /\ checks'[r] = check
        /\ \A q \in RunIds : q # r => runs'[q] = runs[q] /\ checks'[q] = checks[q]
    BY PrTypes DEF Put
  <1>2. ASSUME NEW q \in RunIds PROVE RunFacts(runs'[q], checks'[q], Approved(q))
    BY <1>1, PrTypes
  <1>3. QED
    BY <1>1, <1>2, RunsOnly

LEMMA OneRunAlone ==
    ASSUME PrInv, NEW r \in RunIds, NEW record \in Run, Put(r, record), KeepGitHub,
           RunFacts(record, checks[r], Approved(r))
    PROVE  PrInv'
  <1>1. checks' = [checks EXCEPT ![r] = checks[r]] /\ checks[r] \in Conclusions
    BY PrTypes DEF KeepGitHub
  <1>2. QED
    BY <1>1, PrTypes, OneRun DEF KeepGitHub

-----------------------------------------------------------------------------
\* What a run is earned by is what it gathered, not where it is.
LEMMA SameEarned ==
    ASSUME NEW a, NEW b, a.det = b.det, a.available = b.available, a.judged = b.judged,
           a.findings = b.findings, a.policy = b.policy, a.usage = b.usage
    PROVE  Earned(a) <=> Earned(b)
  BY DEF Earned, Blocking

LEMMA NoGateRunType ==
    /\ NoGateRun \in Run /\ organizationPolicy \in Policy /\ organizationPolicy.cap = Slots
    /\ NoGateRun.usage = 0 /\ NoGateRun.policy = organizationPolicy /\ NoGateRun.det = "none"
  <1>1. organizationPolicy \in Policy /\ organizationPolicy.cap = Slots
    BY PrGateAssumption DEF organizationPolicy, Policy, Grades
  <1>2. /\ 0 \in Availability /\ {} \in JudgedFindings /\ 1 \in Grades /\ NoHead \in PrHeads
        /\ "none" \in RunStates /\ "none" \in AnyPlace /\ "none" \in Determinations
        /\ "FULL" \in Coverages /\ "none" \in Decisions
    BY PrGateAssumption DEF Grades, PrHeads, Availability, JudgedFindings, RunStates, AnyPlace,
                            Determinations, Coverages, Decisions
  <1>3. QED
    BY <1>1, <1>2 DEF NoGateRun, Run

LEMMA PolicyCap == ASSUME NEW p \in Policy PROVE p.cap \in Nat /\ Slots \in Nat
  BY PrGateAssumption DEF Policy

\* A run whose catch, or whose stale head, forgets what it knew.
LEMMA ForgottenFacts ==
    ASSUME NEW rec \in Run
    PROVE  /\ Forgotten(rec) \in Run /\ Forgotten(rec).usage = 0
           /\ Forgotten(rec).policy = organizationPolicy /\ Forgotten(rec).state = rec.state
           /\ Forgotten(rec).at = "ended"
  <1>1. "ended" \in AnyPlace
    BY DEF AnyPlace
  <1>2. NoGateRun \in Run /\ NoGateRun.usage = 0 /\ NoGateRun.policy = organizationPolicy
    BY NoGateRunType
  <1>3. /\ rec.state \in RunStates
        /\ rec.head \in PrHeads /\ rec.verified \in BOOLEAN
        /\ rec.decision \in Decisions /\ rec.effective \in Decisions /\ rec.reported \in BOOLEAN
    BY DEF Run
  <1>4. Forgotten(rec) \in Run
    BY <1>1, <1>2, <1>3 DEF Forgotten, Run
  <1>5. QED
    BY <1>2, <1>4 DEF Forgotten, Run

LEMMA CaughtFacts ==
    ASSUME NEW rec \in Run, rec.state # "none", NEW check, NEW approved \in BOOLEAN,
           ~(check = "success" /\ ~approved)
    PROVE  Caught(rec) \in Run /\ RunFacts(Caught(rec), check, approved)
  <1>1. /\ {"cancel", "cancel_failed"} \subseteq AnyPlace /\ "FAILED_INFRASTRUCTURE" \in RunStates
        /\ {"FAIL", "INFRASTRUCTURE_FAILURE"} \subseteq Decisions
    BY DEF PrPlaces, AnyPlace, RunStates, TERMINAL, Decisions
  <1>2. /\ Caught(rec) \in Run /\ Caught(rec).usage = 0 /\ Caught(rec).policy = organizationPolicy
        /\ Caught(rec).state # "none" /\ Caught(rec).at \in {"cancel", "cancel_failed"}
    <2>1. CASE rec.cancelled
      BY <1>1, <2>1, ForgottenFacts DEF Caught, Run
    <2>2. CASE ~rec.cancelled
      <3>1. PICK d \in {"FAIL", "INFRASTRUCTURE_FAILURE"} :
              Caught(rec) = [Forgotten(rec) EXCEPT !.state = "FAILED_INFRASTRUCTURE", !.at = "cancel_failed",
                                                   !.decision = d, !.effective = d]
        BY <2>2 DEF Caught
      <3> DEFINE forgotten == Forgotten(rec)
                 failed == [forgotten EXCEPT !.state = "FAILED_INFRASTRUCTURE", !.at = "cancel_failed"]
                 over == [failed EXCEPT !.decision = d, !.effective = d]
      <3>2. d \in Decisions /\ "FAILED_INFRASTRUCTURE" \in RunStates /\ "cancel_failed" \in AnyPlace
        BY <1>1
      <3>3. Caught(rec) = over /\ forgotten \in Run
        BY <3>1, ForgottenFacts
      <3> HIDE DEF forgotten
      <3>4. /\ failed \in Run /\ failed.state = "FAILED_INFRASTRUCTURE" /\ failed.at = "cancel_failed"
            /\ failed.usage = forgotten.usage /\ failed.policy = forgotten.policy
        BY <3>2, <3>3 DEF Run
      <3> HIDE DEF failed
      <3>5. /\ over \in Run /\ over.state = failed.state /\ over.at = failed.at
            /\ over.usage = failed.usage /\ over.policy = failed.policy
        BY <3>2, <3>4 DEF Run
      <3> HIDE DEF over
      <3>6. QED
        BY <3>3, <3>4, <3>5, ForgottenFacts DEF forgotten
    <2>3. QED
      BY <2>1, <2>2
  <1>3. QED
    BY <1>2, NoGateRunType, PrGateAssumption DEF RunFacts, Determinate, Reporting

LEMMA BegunFacts ==
    ASSUME NEW verified \in BOOLEAN, NEW expected \in PrHeads, NEW approved \in BOOLEAN,
           NEW check, ~(check = "success" /\ ~approved)
    PROVE  /\ Begun(verified, expected) \in Run
           /\ RunFacts(Begun(verified, expected), check, approved)
  <1>1. "acquire" \in AnyPlace /\ "ACQUIRING" \in RunStates
    BY DEF PrPlaces, AnyPlace, PrActive, RunStates
  <1>2. /\ Begun(verified, expected) \in Run /\ Begun(verified, expected).usage = 0
        /\ Begun(verified, expected).policy = organizationPolicy
        /\ Begun(verified, expected).at = "acquire" /\ Begun(verified, expected).state = "ACQUIRING"
    BY <1>1, NoGateRunType DEF Begun, Run
  <1>3. QED
    BY <1>2, NoGateRunType, PrGateAssumption DEF RunFacts, Determinate, Reporting

LEMMA LeastPlace ==
    ASSUME NEW S \in SUBSET Nat, S # {}
    PROVE  Min(S) \in S
  <1>1. PICK x \in S : \A y \in S : ~(<<y, x>> \in OpToRel(<, Nat))
    BY NatLessThanWellFounded, WFMin
  <1>2. ASSUME NEW y \in S PROVE x <= y
    <2>1. ~(y < x)
      BY <1>1 DEF OpToRel
    <2>2. QED
      BY <2>1
  <1>3. QED
    BY <1>1, <1>2 DEF Min

\* An identifier that is given out belongs to a run that has not begun.
LEMMA UnusedRun == Unused # 0 => Runs[Unused] \in RunIds /\ runs[Runs[Unused]].state = "none"
  <1> DEFINE I == {i \in 1..Len(Runs) : runs[Runs[i]].state = "none"}
  <1>1. Unused = IF I # {} THEN Min(I) ELSE 0
    BY DEF Unused, SelectInSeq
  <1>2. Len(Runs) \in Nat /\ DOMAIN Runs = 1..Len(Runs) /\ I \in SUBSET Nat
    BY PrGateAssumption
  <1>3. I # {} => Min(I) \in I
    BY <1>2, LeastPlace
  <1>4. QED
    BY <1>1, <1>2, <1>3 DEF RunIds, Range

\* The decision under a key, if the log has one.
LEMMA ReplayFinds ==
    ASSUME NEW call, overrides[call.run] \in Seq(HumanDecision)
    PROVE  IF Replay(call) # 0
           THEN /\ Replay(call) \in DOMAIN overrides[call.run]
                /\ overrides[call.run][Replay(call)].key = call.key
           ELSE \A i \in DOMAIN overrides[call.run] : overrides[call.run][i].key # call.key
  <1> DEFINE log == overrides[call.run]
             I == {i \in 1..Len(log) : log[i].key = call.key}
  <1>1. Replay(call) = IF I # {} THEN Min(I) ELSE 0
    BY DEF Replay, SelectInSeq
  <1>2. Len(log) \in Nat /\ DOMAIN log = 1..Len(log) /\ I \in SUBSET Nat
    OBVIOUS
  <1>3. I # {} => Min(I) \in I
    BY <1>2, LeastPlace
  <1>4. QED
    BY <1>1, <1>2, <1>3

\* A run that is under way is no longer "none" and has no unearned green check.
LEMMA UnderWay ==
    ASSUME PrInv, NEW r \in RunIds, runs[r].at \in PrPlaces \ {"published", "publish_failed"}
    PROVE  /\ runs[r] \in Run /\ runs[r].state # "none" /\ Approved(r) \in BOOLEAN
           /\ ~(checks[r] = "success" /\ ~Approved(r))
           /\ runs[r].usage <= runs[r].policy.cap /\ runs[r].policy.cap <= Slots
  <1>1. "none" \notin PrPlaces /\ "ended" \notin PrPlaces
    BY DEF PrPlaces
  <1>2. QED
    BY <1>1, PrTypes DEF RunFacts, Approved

\* A step within a run that keeps what it gathered, or gathers more before the decision.
LEMMA StepFacts ==
    ASSUME NEW rec \in Run, NEW next \in Run, NEW check, NEW approved \in BOOLEAN,
           next.state # "none", next.at \in PrPlaces \ {"acquire"},
           next.usage <= next.policy.cap, next.policy.cap <= Slots,
           ~(check = "success" /\ ~approved),
           next.at \in Determinate => next.det # "none",
           next.at \in Reporting /\ next.decision \in PassStates => Earned(next)
    PROVE  RunFacts(next, check, approved)
  BY DEF RunFacts, PrPlaces

LEMMA Unbegun ==
    ASSUME PrInv, NEW r \in RunIds, runs[r].state = "none"
    PROVE  Approved(r) \in BOOLEAN /\ ~(checks[r] = "success" /\ ~Approved(r))
  BY PrTypes DEF RunFacts, Approved

LEMMA StartRunKeeps == PrInv /\ StartRun => PrInv'
  <1> SUFFICES ASSUME PrInv, StartRun PROVE PrInv'
    OBVIOUS
  <1> DEFINE r == Runs[Unused]
  <1>1. PICK verified \in BOOLEAN : runs' = [runs EXCEPT ![r] = Begun(verified, NoHead)]
    BY DEF StartRun
  <1>2. /\ UNCHANGED <<prHead, checks, overrides, calls>> /\ r \in RunIds
        /\ ~(checks[r] = "success" /\ ~Approved(r)) /\ Approved(r) \in BOOLEAN
    BY UnusedRun, Unbegun DEF StartRun
  <1>3. NoHead \in PrHeads
    BY DEF PrHeads
  <1>4. QED
    BY <1>1, <1>2, <1>3, BegunFacts, OneRunAlone DEF Put, KeepGitHub

-----------------------------------------------------------------------------
LEMMA CaughtKeeps ==
    ASSUME PrInv, NEW r \in RunIds, runs[r].at \in PrPlaces \ {"published", "publish_failed"},
           Put(r, Caught(runs[r])), KeepGitHub
    PROVE  PrInv'
  BY UnderWay, CaughtFacts, OneRunAlone

LEMMA PortFailsKeeps == \A r \in RunIds : PrInv /\ PortFails(r) => PrInv'
  <1> SUFFICES ASSUME NEW r \in RunIds, PrInv, PortFails(r) PROVE PrInv'
    OBVIOUS
  <1>1. runs[r].at \in PrPlaces \ {"published", "publish_failed"}
    BY DEF PortFails, PrPlaces
  <1>2. QED
    BY <1>1, CaughtKeeps DEF PortFails, Throw

\* What the pinned policy may be: never more generous than the organization's.
LEMMA EffectivePolicy ==
    ASSUME NEW repository \in loadPinnedRepositoryPolicy
    PROVE  LET policy == mergeEffectivePolicy(organizationPolicy, repository)
           IN  policy \in Policy /\ policy.cap <= Slots
  <1>1. repository \in Policy /\ repository.cap <= Slots
    BY PrGateAssumption DEF loadPinnedRepositoryPolicy, Tightens, organizationPolicy
  <1>2. QED
    BY <1>1 DEF mergeEffectivePolicy, organizationPolicy, Policy

LEMMA AcquireKeeps == \A r \in RunIds : PrInv /\ Acquire(r) => PrInv'
  <1> SUFFICES ASSUME NEW r \in RunIds, PrInv, Acquire(r) PROVE PrInv'
    OBVIOUS
  <1>1. PICK repository \in loadPinnedRepositoryPolicy :
          Put(r, [runs[r] EXCEPT !.at = "head_pinned", !.head = prHead,
                          !.policy = mergeEffectivePolicy(organizationPolicy, repository)])
    BY DEF Acquire
  <1> DEFINE policy == mergeEffectivePolicy(organizationPolicy, repository)
             next == [runs[r] EXCEPT !.at = "head_pinned", !.head = prHead, !.policy = policy]
  <1>2. policy \in Policy /\ policy.cap <= Slots /\ policy.cap \in Nat
    BY EffectivePolicy, PolicyCap
  <1>3. prHead \in PrHeads /\ "head_pinned" \in AnyPlace /\ "head_pinned" \in PrPlaces \ {"acquire"}
    BY PrTypes DEF PrHeads, AnyPlace, PrPlaces
  <1>4. /\ runs[r] \in Run /\ runs[r].state # "none" /\ runs[r].usage = 0
        /\ Approved(r) \in BOOLEAN /\ "in_progress" \in Conclusions
    BY PrTypes DEF Acquire, RunFacts, Conclusions, Approved
  <1> HIDE DEF policy
  <1>5. next \in Run
    BY <1>2, <1>3, <1>4 DEF Run
  <1>6. /\ next.state # "none" /\ next.at = "head_pinned" /\ next.usage = 0 /\ next.policy = policy
    BY <1>4 DEF Run
  <1> HIDE DEF next
  <1>7. RunFacts(next, "in_progress", Approved(r))
    BY <1>2, <1>3, <1>4, <1>5, <1>6 DEF RunFacts, Determinate, Reporting
  <1>8. /\ Put(r, next) /\ checks' = [checks EXCEPT ![r] = "in_progress"]
        /\ prHead' \in Heads /\ UNCHANGED <<overrides, calls>>
    BY <1>1, PrTypes DEF Acquire, KeepOthers, next, policy
  <1>9. QED
    BY <1>4, <1>5, <1>7, <1>8, OneRun

\* A step within a run that is under way and keeps it so.
LEMMA StepKeeps ==
    ASSUME PrInv, NEW r \in RunIds, runs[r].at \in PrPlaces \ {"published", "publish_failed"}, NEW next \in Run,
           next.state # "none", next.at \in PrPlaces \ {"acquire"},
           next.usage <= next.policy.cap, next.policy.cap <= Slots,
           next.at \in Determinate => next.det # "none",
           next.at \in Reporting /\ next.decision \in PassStates => Earned(next),
           Put(r, next), KeepGitHub
    PROVE  PrInv'
  <1>1. RunFacts(next, checks[r], Approved(r))
    BY UnderWay, StepFacts
  <1>2. QED
    BY <1>1, OneRunAlone

LEMMA AfterHeadFacts ==
    ASSUME NEW rec \in Run,
           rec.at \in {"head_pinned", "head_snapshot", "head_review", "head_decide", "head_report"}
    PROVE  LET next == AfterHead(rec)
           IN  /\ next \in Run /\ (rec.state # "none" => next.state # "none")
               /\ <<rec.at, next.at>> \in {<<"head_pinned", "classify">>, <<"head_snapshot", "checks">>,
                       <<"head_review", "panel">>, <<"head_decide", "decide">>, <<"head_report", "publish">>}
               /\ next.det = rec.det /\ next.available = rec.available /\ next.judged = rec.judged
               /\ next.findings = rec.findings /\ next.policy = rec.policy /\ next.usage = rec.usage
               /\ next.decision = rec.decision
  <1>1. /\ {"classify", "checks", "panel", "decide", "publish"} \subseteq AnyPlace
        /\ {"CLASSIFYING", "CHECKING"} \subseteq RunStates
    BY DEF AnyPlace, PrPlaces, RunStates, PrActive
  <1>2. CASE rec.at = "head_pinned"
    BY <1>1, <1>2 DEF AfterHead, Run
  <1>3. CASE rec.at = "head_snapshot"
    BY <1>1, <1>3 DEF AfterHead, Run
  <1>4. CASE rec.at = "head_review"
    BY <1>1, <1>4 DEF AfterHead, Run
  <1>5. CASE rec.at = "head_decide"
    BY <1>1, <1>5 DEF AfterHead, Run
  <1>6. CASE rec.at = "head_report"
    BY <1>1, <1>6 DEF AfterHead, Run
  <1>7. QED
    BY <1>2, <1>3, <1>4, <1>5, <1>6

LEMMA AssertCurrentHeadKeeps == \A r \in RunIds : PrInv /\ assertCurrentHead(r) => PrInv'
  <1> SUFFICES ASSUME NEW r \in RunIds, PrInv, assertCurrentHead(r) PROVE PrInv'
    OBVIOUS
  <1>1. /\ runs[r].at \in {"head_pinned", "head_snapshot", "head_review", "head_decide", "head_report"}
        /\ runs[r].at \in PrPlaces \ {"published", "publish_failed"} /\ KeepGitHub
    BY DEF assertCurrentHead, PrPlaces
  <1>2. /\ runs[r] \in Run /\ runs[r].state # "none" /\ runs[r].usage <= runs[r].policy.cap
        /\ runs[r].policy.cap <= Slots /\ RunFacts(runs[r], checks[r], Approved(r))
    BY <1>1, UnderWay, PrTypes
  <1>3. CASE Put(r, AfterHead(runs[r]))
    <2> DEFINE next == AfterHead(runs[r])
    <2>1. /\ next \in Run /\ next.state # "none" /\ next.usage = runs[r].usage
          /\ next.policy = runs[r].policy /\ next.det = runs[r].det /\ next.decision = runs[r].decision
          /\ (Earned(next) <=> Earned(runs[r]))
      BY <1>1, <1>2, AfterHeadFacts, SameEarned
    <2>2. <<runs[r].at, next.at>> \in {<<"head_pinned", "classify">>, <<"head_snapshot", "checks">>,
              <<"head_review", "panel">>, <<"head_decide", "decide">>, <<"head_report", "publish">>}
      BY <1>1, <1>2, AfterHeadFacts
    <2> HIDE DEF next
    <2>3. next.at \in PrPlaces \ {"acquire"}
      BY <2>2 DEF PrPlaces
    <2>4. next.at \in Determinate => next.det # "none"
      BY <1>2, <2>1, <2>2 DEF RunFacts, Determinate
    <2>5. next.at \in Reporting /\ next.decision \in PassStates => Earned(next)
      BY <1>2, <2>1, <2>2 DEF RunFacts, Reporting
    <2>6. Put(r, next)
      BY <1>3 DEF next
    <2>7. QED
      BY <1>1, <1>2, <2>1, <2>3, <2>4, <2>5, <2>6, StepKeeps
  <1>4. CASE Put(r, [Forgotten(runs[r]) EXCEPT !.at = "cancel_stale", !.expected = prHead])
    <2> DEFINE next == [Forgotten(runs[r]) EXCEPT !.at = "cancel_stale", !.expected = prHead]
    <2>1. "cancel_stale" \in AnyPlace /\ "cancel_stale" \in PrPlaces \ {"acquire"} /\ prHead \in PrHeads
      BY PrTypes DEF AnyPlace, PrPlaces, PrHeads
    <2>2. next \in Run
      BY <1>2, <2>1, ForgottenFacts DEF Run
    <2>3. /\ next.state # "none" /\ next.usage = 0 /\ next.policy = organizationPolicy
          /\ next.at = "cancel_stale"
      BY <1>2, ForgottenFacts DEF Run
    <2> HIDE DEF next
    <2>4. /\ next.usage <= next.policy.cap /\ next.policy.cap <= Slots
          /\ next.at \notin Determinate /\ next.at \notin Reporting
      BY <2>3, NoGateRunType, PrGateAssumption DEF Determinate, Reporting
    <2>5. Put(r, next)
      BY <1>4 DEF next
    <2>6. QED
      BY <1>1, <2>1, <2>2, <2>3, <2>4, <2>5, StepKeeps
  <1>5. CASE Put(r, Caught(runs[r]))
    BY <1>1, <1>5, CaughtKeeps
  <1>6. QED
    BY <1>3, <1>4, <1>5 DEF assertCurrentHead

LEMMA GreatestGrade == ASSUME NEW S \in SUBSET Grades, S # {} PROVE Max(S) \in S
  <1>1. \E x \in S : \A y \in S : x >= y
    <2>1. CASE 4 \in S
      BY <2>1 DEF Grades
    <2>2. CASE 4 \notin S /\ 3 \in S
      BY <2>2 DEF Grades
    <2>3. CASE 4 \notin S /\ 3 \notin S /\ 2 \in S
      BY <2>3 DEF Grades
    <2>4. CASE 4 \notin S /\ 3 \notin S /\ 2 \notin S
      <3>1. \A y \in S : y \in 1 .. 4 /\ y # 2 /\ y # 3 /\ y # 4
        BY <2>4 DEF Grades
      <3>2. \A y \in S : y = 1
        BY <3>1
      <3>3. QED
        BY <3>2
    <2>5. QED
      BY <2>1, <2>2, <2>3, <2>4
  <1>2. QED
    BY <1>1 DEF Max

LEMMA ClassifyKeeps == \A r \in RunIds : PrInv /\ Classify(r) => PrInv'
  <1> SUFFICES ASSUME NEW r \in RunIds, PrInv, Classify(r) PROVE PrInv'
    OBVIOUS
  <1>1. /\ runs[r].at = "classify" /\ runs[r].at \in PrPlaces \ {"published", "publish_failed"} /\ KeepGitHub
        /\ runs[r] \in Run /\ runs[r].policy \in Policy
    BY PrTypes DEF Classify, PrPlaces, Run
  <1>2. PICK change \in Changes :
          Put(r, [runs[r] EXCEPT !.state = "SNAPSHOT_ATTESTING", !.at = "snapshot",
                     !.risk = classifyPinnedChange(change, runs[r].policy).risk,
                     !.coverage = classifyPinnedChange(change, runs[r].policy).coverage])
    BY DEF Classify
  <1> DEFINE risk == classifyPinnedChange(change, runs[r].policy).risk
             coverage == classifyPinnedChange(change, runs[r].policy).coverage
             next == [runs[r] EXCEPT !.state = "SNAPSHOT_ATTESTING", !.at = "snapshot",
                                     !.risk = risk, !.coverage = coverage]
             grades == {runs[r].policy.floor} \cup {fragment(kind) : kind \in change}
  <1>3. risk \in Grades /\ coverage \in Coverages
    <2>1. runs[r].policy.floor \in Grades
      BY <1>1 DEF Policy
    <2>2. \A kind : fragment(kind) \in Grades
      BY DEF fragment, Grades
    <2>3. grades \in SUBSET Grades /\ grades # {}
      BY <2>1, <2>2
    <2>4. Max(grades) \in Grades
      BY <2>3, GreatestGrade
    <2>5. QED
      BY <2>4 DEF classifyPinnedChange, mergeChangeAnalysis, Coverages
  <1>4. "snapshot" \in AnyPlace /\ "snapshot" \in PrPlaces \ {"acquire"} /\ "SNAPSHOT_ATTESTING" \in RunStates
    BY DEF AnyPlace, PrPlaces, RunStates, PrActive
  <1> HIDE DEF risk, coverage
  <1>5. next \in Run
    BY <1>1, <1>3, <1>4 DEF Run
  <1>6. /\ next.state # "none" /\ next.at = "snapshot" /\ next.usage = runs[r].usage
        /\ next.policy = runs[r].policy
    BY <1>1 DEF Run
  <1> HIDE DEF next
  <1>7. Put(r, next)
    BY <1>2 DEF next, risk, coverage
  <1>8. next.at \notin Determinate /\ next.at \notin Reporting
    BY <1>6 DEF Determinate, Reporting
  <1>9. QED
    BY <1>1, <1>4, <1>5, <1>6, <1>7, <1>8, UnderWay, StepKeeps

LEMMA AttestKeeps == \A r \in RunIds : PrInv /\ Attest(r) => PrInv'
  <1> SUFFICES ASSUME NEW r \in RunIds, PrInv, Attest(r) PROVE PrInv'
    OBVIOUS
  <1> DEFINE next == [runs[r] EXCEPT !.state = runs[r].state, !.at = "head_snapshot"]
  <1>1. /\ runs[r].at \in PrPlaces \ {"published", "publish_failed"} /\ KeepGitHub /\ runs[r] \in Run /\ Put(r, next)
    BY PrTypes DEF Attest, PrGoto, PrPlaces
  <1>2. "head_snapshot" \in AnyPlace /\ "head_snapshot" \in PrPlaces \ {"acquire"}
    BY DEF AnyPlace, PrPlaces
  <1>3. next \in Run
    BY <1>1, <1>2 DEF Run
  <1>4. /\ next.state = runs[r].state /\ next.at = "head_snapshot" /\ next.usage = runs[r].usage
        /\ next.policy = runs[r].policy
    BY <1>1 DEF Run
  <1> HIDE DEF next
  <1>5. next.at \notin Determinate /\ next.at \notin Reporting
    BY <1>4 DEF Determinate, Reporting
  <1>6. QED
    BY <1>1, <1>2, <1>3, <1>4, <1>5, UnderWay, StepKeeps

LEMMA RunChecksKeeps == \A r \in RunIds : PrInv /\ RunChecks(r) => PrInv'
  <1> SUFFICES ASSUME NEW r \in RunIds, PrInv, RunChecks(r) PROVE PrInv'
    OBVIOUS
  <1>1. PICK ended \in CheckOutcomes :
          Put(r, [runs[r] EXCEPT !.state = "REVIEWING", !.at = "head_review",
                                 !.det = Determined(runPlannedChecks(ended))])
    BY DEF RunChecks
  <1> DEFINE det == Determined(runPlannedChecks(ended))
             next == [runs[r] EXCEPT !.state = "REVIEWING", !.at = "head_review", !.det = det]
  <1>2. runs[r].at \in PrPlaces \ {"published", "publish_failed"} /\ KeepGitHub /\ runs[r] \in Run
    BY PrTypes DEF RunChecks, PrPlaces
  <1>3. /\ "head_review" \in AnyPlace /\ "head_review" \in PrPlaces \ {"acquire"}
        /\ "REVIEWING" \in RunStates /\ det \in Determinations /\ det # "none"
    BY DEF AnyPlace, PrPlaces, RunStates, PrActive, Determinations, Determined
  <1> HIDE DEF det
  <1>4. next \in Run
    BY <1>2, <1>3 DEF Run
  <1>5. /\ next.state # "none" /\ next.at = "head_review" /\ next.usage = runs[r].usage
        /\ next.policy = runs[r].policy /\ next.det = det
    BY <1>2 DEF Run
  <1> HIDE DEF next
  <1>6. next.at \notin Reporting
    BY <1>5 DEF Reporting
  <1>7. Put(r, next)
    BY <1>1 DEF next, det
  <1>8. QED
    BY <1>2, <1>3, <1>4, <1>5, <1>6, <1>7, UnderWay, StepKeeps

-----------------------------------------------------------------------------
(* The panel and the judge: what is accounted stays within the cap.        *)
LEMMA ChargedWithin ==
    ASSUME NEW usage \in Nat, NEW cap \in Nat, NEW cost \in {0, 1}
    PROVE  Charged(usage, cap, cost) \in Nat /\ Charged(usage, cap, cost) <= cap
  BY DEF Charged, Affordable

LEMMA AccountFacts ==
    ASSUME NEW n \in 0 .. Slots, NEW panel, DOMAIN panel = 1 .. n, Len(panel) = n, NEW cap \in Nat
    PROVE  /\ Account(panel, cap).usage \in Nat /\ Account(panel, cap).usage <= cap
           /\ Account(panel, cap).available \in Availability
  <1> DEFINE paid == {i \in 1 .. n : panel[i].cost = 1}
             accepted == {i \in DOMAIN panel : /\ panel[i].status = "SUCCEEDED"
                              /\ Affordable(UsageAfter(panel, i - 1, cap), cap, panel[i].cost)}
  <1>1. n \in Nat /\ Slots \in Nat /\ n <= Slots
    BY PrGateAssumption
  <1>2. IsFiniteSet(1 .. n) /\ Cardinality(1 .. n) = n
    BY <1>1, FS_Interval
  <1>3. /\ Cardinality(paid) \in Nat /\ Cardinality(accepted) \in Nat /\ Cardinality(accepted) <= n
    <2>1. paid \subseteq 1 .. n /\ accepted \subseteq 1 .. n
      OBVIOUS
    <2> HIDE DEF paid, accepted
    <2>2. IsFiniteSet(paid) /\ IsFiniteSet(accepted) /\ Cardinality(accepted) <= Cardinality(1 .. n)
      BY <1>2, <2>1, FS_Subset
    <2>3. QED
      BY <1>2, <2>2, FS_CardinalityType
  <1>4. Account(panel, cap).usage = Charged(Cardinality(paid), cap, 0)
    BY DEF Account, UsageAfter
  <1>5. Account(panel, cap).available = Cardinality(accepted)
    BY DEF Account
  <1> HIDE DEF paid, accepted
  <1>6. Charged(Cardinality(paid), cap, 0) \in Nat /\ Charged(Cardinality(paid), cap, 0) <= cap
    BY <1>3, ChargedWithin
  <1>7. Cardinality(accepted) \in 0 .. Slots
    BY <1>1, <1>3
  <1>8. QED
    BY <1>4, <1>5, <1>6, <1>7 DEF Availability

LEMMA PanelShape ==
    ASSUME PrInv, NEW r \in RunIds, NEW panel \in PanelAnswersFor(r)
    PROVE  \E n \in 0 .. Slots : DOMAIN panel = 1 .. n /\ Len(panel) = n
  <1>1. Slots \in Nat /\ \A answers \in Panels : answers \in [1 .. Slots -> ReviewerAnswer]
    BY PrGateAssumption
  <1>2. CASE panel = << >>
    <2>1. DOMAIN panel = 1 .. 0 /\ Len(panel) = 0
      BY <1>2
    <2>2. QED
      BY <1>1, <2>1
  <1>3. CASE panel \in [1 .. Slots -> ReviewerAnswer]
    <2>1. DOMAIN panel = 1 .. Slots /\ Len(panel) = Slots
      BY <1>1, <1>3, LenProperties
    <2>2. QED
      BY <1>1, <2>1
  <1>4. [i \in 1 .. Slots |-> [status |-> "CANCELLED", cost |-> 0]] \in [1 .. Slots -> ReviewerAnswer]
    BY DEF ReviewerAnswer, Statuses
  <1>5. QED
    BY <1>1, <1>2, <1>3, <1>4 DEF PanelAnswersFor

LEMMA ReviewPanelKeeps == \A r \in RunIds : PrInv /\ ReviewPanel(r) => PrInv'
  <1> SUFFICES ASSUME NEW r \in RunIds, PrInv, ReviewPanel(r) PROVE PrInv'
    OBVIOUS
  <1>1. PICK panel \in PanelAnswersFor(r) :
          LET account == Account(panel, runs[r].policy.cap)
              reviewed == [runs[r] EXCEPT !.usage = account.usage, !.available = account.available]
              asked == ~reviewed.expired /\ reviewed.usage < reviewed.policy.cap
          IN  IF reviewed.cancelled THEN Put(r, Caught(reviewed))
              ELSE IF asked THEN Put(r, [reviewed EXCEPT !.state = "JUDGING", !.at = "judge"])
              ELSE Put(r, [reviewed EXCEPT !.state = "DECIDING",
                               !.at = IF reviewed.expired THEN "decide" ELSE "head_decide"])
    BY DEF ReviewPanel
  <1> DEFINE usage == Account(panel, runs[r].policy.cap).usage
             available == Account(panel, runs[r].policy.cap).available
             reviewed == [runs[r] EXCEPT !.usage = usage, !.available = available]
  <1>2. /\ runs[r].at = "panel" /\ runs[r].at \in PrPlaces \ {"published", "publish_failed"} /\ KeepGitHub
        /\ runs[r] \in Run /\ runs[r].policy \in Policy
    BY PrTypes DEF ReviewPanel, PrPlaces, Run
  <1>3. runs[r].policy.cap \in Nat
    BY <1>2, PolicyCap
  <1>4. usage \in Nat /\ usage <= runs[r].policy.cap /\ available \in Availability
    BY <1>3, PanelShape, AccountFacts
  <1>5. /\ runs[r].state # "none" /\ runs[r].det # "none" /\ runs[r].policy.cap <= Slots
        /\ Approved(r) \in BOOLEAN /\ ~(checks[r] = "success" /\ ~Approved(r))
    BY <1>2, UnderWay, PrTypes DEF RunFacts, Determinate
  <1>6. \/ Put(r, Caught(reviewed))
        \/ Put(r, [reviewed EXCEPT !.state = "JUDGING", !.at = "judge"])
        \/ Put(r, [reviewed EXCEPT !.state = "DECIDING", !.at = "decide"])
        \/ Put(r, [reviewed EXCEPT !.state = "DECIDING", !.at = "head_decide"])
    BY <1>1
  <1> HIDE DEF usage, available
  <1>7. /\ reviewed \in Run /\ reviewed.usage = usage /\ reviewed.policy = runs[r].policy
        /\ reviewed.det = runs[r].det /\ reviewed.state = runs[r].state
    BY <1>2, <1>4 DEF Run
  <1> HIDE DEF reviewed
  <1>8. CASE Put(r, Caught(reviewed))
    BY <1>2, <1>5, <1>7, <1>8, CaughtFacts, OneRunAlone
  <1>9. ASSUME NEW state \in {"JUDGING", "DECIDING"}, NEW at \in {"judge", "decide", "head_decide"},
               Put(r, [reviewed EXCEPT !.state = state, !.at = at])
        PROVE  PrInv'
    <2> DEFINE next == [reviewed EXCEPT !.state = state, !.at = at]
    <2>1. /\ at \in AnyPlace /\ at \in PrPlaces \ {"acquire"} /\ state \in RunStates /\ state # "none"
          /\ at \in Determinate /\ at \notin Reporting
      BY DEF AnyPlace, PrPlaces, RunStates, PrActive, Determinate, Reporting
    <2>2. /\ next \in Run /\ next.state = state /\ next.at = at /\ next.usage = usage
          /\ next.policy = runs[r].policy /\ next.det = runs[r].det
      BY <1>7, <2>1 DEF Run
    <2>3. Put(r, next)
      BY <1>9
    <2> HIDE DEF next
    <2>4. QED
      BY <1>2, <1>4, <1>5, <2>1, <2>2, <2>3, StepKeeps
  <1>10. QED
    BY <1>6, <1>8, <1>9

LEMMA JudgeFindingsKeeps == \A r \in RunIds : PrInv /\ JudgeFindings(r) => PrInv'
  <1> SUFFICES ASSUME NEW r \in RunIds, PrInv, JudgeFindings(r) PROVE PrInv'
    OBVIOUS
  <1>1. PICK answer \in runEvidenceJudge(r) :
          LET within == Affordable(runs[r].usage, runs[r].policy.cap, answer.cost)
          IN  Put(r, [runs[r] EXCEPT
                          !.state = "DECIDING",
                          !.at = IF runs[r].expired THEN "decide" ELSE "head_decide",
                          !.usage = Charged(@, runs[r].policy.cap, answer.cost),
                          !.judged = within /\ answer.ok,
                          !.findings = IF within THEN answer.findings ELSE {}])
    BY DEF JudgeFindings
  <1> DEFINE within == Affordable(runs[r].usage, runs[r].policy.cap, answer.cost)
             at == IF runs[r].expired THEN "decide" ELSE "head_decide"
             usage == Charged(runs[r].usage, runs[r].policy.cap, answer.cost)
             judged == within /\ answer.ok
             findings == IF within THEN answer.findings ELSE {}
             next == [runs[r] EXCEPT !.state = "DECIDING", !.at = at, !.usage = usage,
                                     !.judged = judged, !.findings = findings]
  <1>2. /\ runs[r].at = "judge" /\ runs[r].at \in PrPlaces \ {"published", "publish_failed"} /\ KeepGitHub
        /\ runs[r] \in Run /\ runs[r].policy \in Policy /\ runs[r].usage \in Nat
    BY PrTypes DEF JudgeFindings, PrPlaces, Run
  <1>3. answer.cost \in {0, 1} /\ answer.findings \in JudgedFindings /\ answer.ok \in BOOLEAN
    <2>1. \A f \in JudgeResults : f \in JudgedFindings
      BY PrGateAssumption DEF JudgedFindings
    <2>2. {} \in JudgedFindings
      BY DEF JudgedFindings
    <2>3. \/ \E c \in {0, 1} : answer = [ok |-> FALSE, findings |-> {}, cost |-> c]
          \/ \E f \in JudgeResults : answer = [ok |-> TRUE, findings |-> f, cost |-> 1]
      BY Zenon DEF runEvidenceJudge
    <2>4. CASE \E c \in {0, 1} : answer = [ok |-> FALSE, findings |-> {}, cost |-> c]
      <3>1. PICK c \in {0, 1} : answer = [ok |-> FALSE, findings |-> {}, cost |-> c]
        BY <2>4
      <3>2. answer.ok = FALSE /\ answer.findings = {} /\ answer.cost = c
        BY <3>1
      <3>3. QED
        BY <2>2, <3>2
    <2>5. CASE \E f \in JudgeResults : answer = [ok |-> TRUE, findings |-> f, cost |-> 1]
      <3>1. PICK f \in JudgeResults : answer = [ok |-> TRUE, findings |-> f, cost |-> 1]
        BY <2>5
      <3>2. answer.ok = TRUE /\ answer.findings = f /\ answer.cost = 1
        BY <3>1
      <3>3. QED
        BY <2>1, <3>2
    <2>6. QED
      BY <2>3, <2>4, <2>5
  <1>4. usage \in Nat /\ usage <= runs[r].policy.cap
    BY <1>2, <1>3, PolicyCap, ChargedWithin
  <1>5. judged \in BOOLEAN /\ findings \in JudgedFindings
    BY <1>3 DEF Affordable, JudgedFindings
  <1>6. /\ at \in AnyPlace /\ at \in PrPlaces \ {"acquire"} /\ at \in Determinate /\ at \notin Reporting
        /\ "DECIDING" \in RunStates
    BY DEF AnyPlace, PrPlaces, Determinate, Reporting, RunStates, PrActive
  <1>7. Put(r, next)
    BY <1>1
  <1>8. runs[r].det # "none"
    BY <1>2, PrTypes DEF RunFacts, Determinate
  <1> HIDE DEF at, usage, judged, findings, within
  <1>9. next \in Run
    BY <1>2, <1>4, <1>5, <1>6 DEF Run
  <1>10. /\ next.state # "none" /\ next.at = at /\ next.usage = usage /\ next.policy = runs[r].policy
         /\ next.det = runs[r].det
    BY <1>2 DEF Run
  <1> HIDE DEF next
  <1>11. QED
    BY <1>2, <1>4, <1>6, <1>7, <1>8, <1>9, <1>10, UnderWay, StepKeeps

-----------------------------------------------------------------------------
(* The decision: what decideQuality calls a pass is earned.                *)
LEMMA PassesAreEarned ==
    ASSUME NEW rec \in Run, rec.det # "none", rec.usage <= rec.policy.cap, rec.policy.cap <= Slots,
           SystemDecision(rec) \in PassStates
    PROVE  Earned(rec)
  <1>1. decideQuality(rec) \in PassStates
    BY DEF SystemDecision, PassStates
  <1>2. /\ rec.det # "FAILED" /\ ~Blocking(rec, {"VERIFIED"}) /\ rec.det # "INFRASTRUCTURE_FAILURE"
        /\ reviewerCoverage(rec.available) # "INFRASTRUCTURE_FAILURE" /\ ~NeedsHuman(rec)
    BY <1>1 DEF decideQuality, PassStates
  <1>3. rec.det = "PASSED"
    BY <1>2 DEF Run, Determinations
  <1>4. rec.judged /\ ~rec.policy.human /\ ~Blocking(rec, {"UNVERIFIED"})
        /\ reviewerCoverage(rec.available) # "INSUFFICIENT"
    BY <1>2 DEF NeedsHuman
  <1>5. rec.available >= 3
    <2>1. rec.available \in Nat
      BY PrGateAssumption DEF Run, Availability
    <2>2. rec.available >= 4 \/ rec.available = 3
      BY <1>2, <1>4, <2>1 DEF reviewerCoverage
    <2>3. QED
      BY <2>1, <2>2
  <1>6. ~Blocking(rec, {"VERIFIED", "UNVERIFIED"})
    BY <1>2, <1>4 DEF Blocking
  <1>7. rec.usage <= organizationPolicy.cap
    <2>1. rec.usage \in Nat /\ rec.policy.cap \in Nat /\ Slots \in Nat
      BY PrGateAssumption DEF Run, Policy
    <2>2. QED
      BY <2>1, NoGateRunType
  <1>8. QED
    BY <1>3, <1>4, <1>5, <1>6, <1>7 DEF Earned

LEMMA DecisionTyped == \A rec : SystemDecision(rec) \in Decisions
  BY DEF SystemDecision, decideQuality, Decisions

LEMMA DecideRunKeeps == \A r \in RunIds : PrInv /\ DecideRun(r) => PrInv'
  <1> SUFFICES ASSUME NEW r \in RunIds, PrInv, DecideRun(r) PROVE PrInv'
    OBVIOUS
  <1> DEFINE decision == SystemDecision(runs[r])
             next == [runs[r] EXCEPT !.state = "REPORTING", !.at = "head_report", !.reported = TRUE,
                                     !.expired = FALSE, !.decision = decision, !.effective = decision]
  <1>1. Put(r, next) /\ KeepGitHub
    BY DEF DecideRun
  <1>2. /\ runs[r].at \in PrPlaces \ {"published", "publish_failed"} /\ runs[r] \in Run /\ runs[r].det # "none"
    BY PrTypes DEF DecideRun, PrPlaces, RunFacts, Determinate
  <1>3. runs[r].usage <= runs[r].policy.cap /\ runs[r].policy.cap <= Slots
    BY <1>2, UnderWay
  <1>4. decision \in PassStates => Earned(runs[r])
    BY <1>2, <1>3, PassesAreEarned
  <1>5. /\ "head_report" \in AnyPlace /\ "head_report" \in PrPlaces \ {"acquire"}
        /\ "REPORTING" \in RunStates /\ decision \in Decisions
    BY DecisionTyped DEF AnyPlace, PrPlaces, RunStates, PrActive
  <1> HIDE DEF decision
  <1>6. next \in Run
    BY <1>2, <1>5 DEF Run
  <1>7. /\ next.state # "none" /\ next.at = "head_report" /\ next.usage = runs[r].usage
        /\ next.policy = runs[r].policy /\ next.det = runs[r].det /\ next.decision = decision
        /\ next.available = runs[r].available /\ next.judged = runs[r].judged
        /\ next.findings = runs[r].findings
    BY <1>2 DEF Run
  <1> HIDE DEF next
  <1>8. next.decision \in PassStates => Earned(next)
    BY <1>4, <1>7, SameEarned
  <1>9. QED
    BY <1>1, <1>2, <1>3, <1>5, <1>6, <1>7, <1>8, StepKeeps

-----------------------------------------------------------------------------
(* The report, and the ends of a run.                                      *)
LEMMA SendReportKeeps == \A r \in RunIds : PrInv /\ SendReport(r) => PrInv'
  <1> SUFFICES ASSUME NEW r \in RunIds, PrInv, SendReport(r) PROVE PrInv'
    OBVIOUS
  <1> DEFINE conclusion == decisionConclusion(runs[r].decision)
  <1>0. PICK place \in {"published", "publish_failed"} :
          /\ PrGoto(r, runs[r].state, place)
          /\ checks' \in {checks, [checks EXCEPT ![r] = conclusion]}
    BY DEF SendReport
  <1> DEFINE next == [runs[r] EXCEPT !.state = runs[r].state, !.at = place]
  <1>1. /\ Put(r, next) /\ KeepOthers /\ runs[r].at = "publish" /\ runs[r].at \in PrPlaces \ {"published", "publish_failed"}
        /\ checks' \in {checks, [checks EXCEPT ![r] = conclusion]}
        /\ runs[r] \in Run /\ RunFacts(runs[r], checks[r], Approved(r))
    BY <1>0, PrTypes DEF SendReport, PrGoto, PrPlaces
  <1>2. /\ place \in AnyPlace /\ place \in PrPlaces /\ place \in {"published", "publish_failed"}
        /\ checks[r] \in Conclusions /\ conclusion \in Conclusions
        /\ (conclusion = "success" => runs[r].decision \in PassStates)
    BY <1>0, PrTypes DEF AnyPlace, PrPlaces, Conclusions, decisionConclusion, PassStates
  <1>3. PICK check \in {checks[r], conclusion} : checks' = [checks EXCEPT ![r] = check]
    BY <1>1, PrTypes
  <1>4. check \in Conclusions /\ (check = "success" /\ ~Approved(r) => runs[r].decision \in PassStates)
    BY <1>1, <1>2, UnderWay
  <1> HIDE DEF conclusion
  <1>5. next \in Run
    BY <1>1, <1>2 DEF Run
  <1>6. /\ next.state = runs[r].state /\ next.at = place /\ next.usage = runs[r].usage
        /\ next.policy = runs[r].policy /\ next.det = runs[r].det /\ next.decision = runs[r].decision
        /\ next.available = runs[r].available /\ next.judged = runs[r].judged
        /\ next.findings = runs[r].findings
    BY <1>1 DEF Run
  <1> HIDE DEF next
  <1>7. Earned(next) <=> Earned(runs[r])
    BY <1>6, SameEarned
  <1>8. RunFacts(next, check, Approved(r))
    BY <1>1, <1>2, <1>4, <1>6, <1>7 DEF RunFacts, Determinate, Reporting
  <1>9. QED
    BY <1>1, <1>3, <1>4, <1>5, <1>8, OneRun, PrTypes DEF KeepOthers

\* A run that ends keeps what it gathered, and GitHub what it was told.
LEMMA OverFacts ==
    ASSUME NEW rec \in Run, NEW state \in RunStates, state # "none", NEW check, NEW approved \in BOOLEAN,
           rec.usage <= rec.policy.cap, rec.policy.cap <= Slots,
           check = "success" /\ ~approved => Earned(rec)
    PROVE  /\ Over(rec, state) \in Run /\ RunFacts(Over(rec, state), check, approved)
           /\ Over(rec, state).state = state /\ Over(rec, state).at = "ended"
  <1>1. "ended" \in AnyPlace /\ "ended" \notin Determinate /\ "ended" \notin Reporting
    BY DEF AnyPlace, Determinate, Reporting
  <1>2. Over(rec, state) \in Run
    BY <1>1 DEF Over, Run
  <1>3. /\ Over(rec, state).state = state /\ Over(rec, state).at = "ended"
        /\ Over(rec, state).usage = rec.usage /\ Over(rec, state).policy = rec.policy
        /\ Over(rec, state).det = rec.det /\ Over(rec, state).available = rec.available
        /\ Over(rec, state).judged = rec.judged /\ Over(rec, state).findings = rec.findings
    BY DEF Over, Run
  <1>4. Earned(Over(rec, state)) <=> Earned(rec)
    BY <1>3, SameEarned
  <1>5. RunFacts(Over(rec, state), check, approved)
    BY <1>1, <1>3, <1>4 DEF RunFacts
  <1>6. QED
    BY <1>2, <1>3, <1>5

LEMMA ReportAnsweredKeeps == \A r \in RunIds : PrInv /\ ReportAnswered(r) => PrInv'
  <1> SUFFICES ASSUME NEW r \in RunIds, PrInv, ReportAnswered(r) PROVE PrInv'
    OBVIOUS
  <1>1. /\ runs[r] \in Run /\ runs[r].state \in RunStates /\ runs[r].state # "none" /\ KeepGitHub
        /\ Approved(r) \in BOOLEAN /\ runs[r].usage <= runs[r].policy.cap /\ runs[r].policy.cap <= Slots
        /\ (checks[r] = "success" /\ ~Approved(r) => Earned(runs[r]))
    BY PrTypes DEF ReportAnswered, RunFacts, Approved, Run
  <1>2. PICK state \in {"AWAITING_HUMAN", "COMPLETED", runs[r].state, "REPORTING_FAILED"} :
          Put(r, Over(runs[r], state))
    BY Zenon DEF ReportAnswered
  <1>3. state \in RunStates /\ state # "none"
    BY <1>1 DEF RunStates, TERMINAL
  <1>4. QED
    BY <1>1, <1>2, <1>3, OverFacts, OneRunAlone

\* The check run of a run under way, which is cancelled or not.
LEMMA CancelledCheck ==
    ASSUME PrInv, NEW r \in RunIds, runs[r].at \in PrPlaces \ {"published", "publish_failed"}, CancelCheck(r)
    PROVE  \E check \in Conclusions :
               checks' = [checks EXCEPT ![r] = check] /\ ~(check = "success" /\ ~Approved(r))
  <1>1. checks' = [checks EXCEPT ![r] = checks[r]] \/ checks' = [checks EXCEPT ![r] = "cancelled"]
    BY PrTypes DEF CancelCheck
  <1>2. checks[r] \in Conclusions /\ "cancelled" \in Conclusions
    BY PrTypes DEF Conclusions
  <1>3. QED
    BY <1>1, <1>2, UnderWay

LEMMA EndedKeeps == \A r \in RunIds : PrInv /\ (CancelledByOperator(r) \/ Failed(r)) => PrInv'
  <1> SUFFICES ASSUME NEW r \in RunIds, PrInv, CancelledByOperator(r) \/ Failed(r) PROVE PrInv'
    OBVIOUS
  <1>1. /\ runs[r].at \in PrPlaces \ {"published", "publish_failed"} /\ CancelCheck(r) /\ KeepOthers
        /\ \E state \in {"CANCELLED", "FAILED_INFRASTRUCTURE"} : Put(r, Over(runs[r], state))
    BY DEF CancelledByOperator, Failed, PrPlaces
  <1>2. PICK state \in {"CANCELLED", "FAILED_INFRASTRUCTURE"} : Put(r, Over(runs[r], state))
    BY <1>1
  <1>3. PICK check \in Conclusions :
          checks' = [checks EXCEPT ![r] = check] /\ ~(check = "success" /\ ~Approved(r))
    BY <1>1, CancelledCheck
  <1>4. state \in RunStates /\ state # "none"
    BY DEF RunStates, TERMINAL
  <1>5. Over(runs[r], state) \in Run /\ RunFacts(Over(runs[r], state), check, Approved(r))
    BY <1>1, <1>3, <1>4, UnderWay, OverFacts
  <1>6. QED
    BY <1>1, <1>2, <1>3, <1>5, OneRun, PrTypes DEF KeepOthers

\* A stale run ends, and its replacement may begin.
LEMMA CancelStaleKeeps == \A r \in RunIds : PrInv /\ CancelStale(r) => PrInv'
  <1> SUFFICES ASSUME NEW r \in RunIds, PrInv, CancelStale(r) PROVE PrInv'
    OBVIOUS
  <1> DEFINE q == Runs[Unused]
             over == [Over(runs[r], "CANCELLED_STALE") EXCEPT !.expected = NoHead]
             begun == Begun(FALSE, runs[r].expected)
  <1>1. /\ runs[r].at = "cancel_stale" /\ runs[r].at \in PrPlaces \ {"published", "publish_failed"}
        /\ CancelCheck(r) /\ KeepOthers
        /\ \/ runs' = [runs EXCEPT ![r] = over]
           \/ Unused # 0 /\ runs' = [[runs EXCEPT ![r] = over] EXCEPT ![q] = begun]
    BY DEF CancelStale, PrPlaces
  <1>2. PICK check \in Conclusions :
          checks' = [checks EXCEPT ![r] = check] /\ ~(check = "success" /\ ~Approved(r))
    BY <1>1, CancelledCheck
  <1>3. /\ runs[r] \in Run /\ runs[r].state # "none" /\ runs[r].expected \in PrHeads
        /\ Approved(r) \in BOOLEAN /\ runs \in [RunIds -> Run] /\ checks \in [RunIds -> Conclusions]
        /\ runs[r].usage <= runs[r].policy.cap /\ runs[r].policy.cap <= Slots
    BY <1>1, UnderWay, PrTypes DEF Run
  <1>4. "CANCELLED_STALE" \in RunStates /\ NoHead \in PrHeads
    BY DEF RunStates, TERMINAL, PrHeads
  <1>5. /\ over \in Run /\ RunFacts(over, check, Approved(r))
    <2> DEFINE ended == Over(runs[r], "CANCELLED_STALE")
    <2>1. /\ ended \in Run /\ RunFacts(ended, check, Approved(r))
          /\ ended.state = "CANCELLED_STALE" /\ ended.at = "ended"
      BY <1>2, <1>3, <1>4, OverFacts
    <2> HIDE DEF ended
    <2>2. [ended EXCEPT !.expected = NoHead] \in Run
      BY <1>4, <2>1 DEF Run
    <2> DEFINE last == [ended EXCEPT !.expected = NoHead]
    <2>3. /\ last.state = ended.state /\ last.at = ended.at /\ last.usage = ended.usage
          /\ last.policy = ended.policy
      BY <2>1 DEF Run
    <2> HIDE DEF last
    <2>4. RunFacts(last, check, Approved(r))
      BY <1>2, <2>1, <2>3 DEF RunFacts, Determinate, Reporting
    <2>5. QED
      BY <2>2, <2>4 DEF last, ended
  <1> HIDE DEF over, begun
  <1>6. CASE runs' = [runs EXCEPT ![r] = over]
    BY <1>1, <1>2, <1>5, <1>6, OneRun, PrTypes DEF KeepOthers, Put
  <1>7. CASE Unused # 0 /\ runs' = [[runs EXCEPT ![r] = over] EXCEPT ![q] = begun]
    <2>1. q \in RunIds /\ runs[q].state = "none" /\ q # r
      BY <1>3, <1>7, UnusedRun
    <2> HIDE DEF q
    <2>2. begun \in Run /\ RunFacts(begun, checks[q], Approved(q))
      BY <1>3, <2>1, Unbegun, BegunFacts DEF begun
    <2>3. /\ runs' \in [RunIds -> Run] /\ checks' \in [RunIds -> Conclusions]
          /\ runs'[r] = over /\ checks'[r] = check /\ runs'[q] = begun /\ checks'[q] = checks[q]
          /\ \A p \in RunIds : p # r /\ p # q => runs'[p] = runs[p] /\ checks'[p] = checks[p]
      BY <1>2, <1>3, <1>5, <1>7, <2>1, <2>2
    <2>4. ASSUME NEW p \in RunIds PROVE RunFacts(runs'[p], checks'[p], Approved(p))
      BY <1>5, <2>2, <2>3, PrTypes
    <2>5. QED
      BY <1>1, <2>3, <2>4, RunsOnly, PrTypes DEF KeepOthers
  <1>8. QED
    BY <1>1, <1>6, <1>7

\* The signal of a run, set from outside.
LEMMA SignalledKeeps == \A r \in RunIds : PrInv /\ (CancelRun(r) \/ Deadline(r)) => PrInv'
  <1> SUFFICES ASSUME NEW r \in RunIds, PrInv, CancelRun(r) \/ Deadline(r) PROVE PrInv'
    OBVIOUS
  <1>1. runs[r] \in Run /\ RunFacts(runs[r], checks[r], Approved(r)) /\ KeepGitHub
    BY PrTypes DEF CancelRun, Deadline
  <1>2. ASSUME NEW next \in Run, Put(r, next), next.state = runs[r].state, next.at = runs[r].at,
               next.usage = runs[r].usage, next.policy = runs[r].policy, next.det = runs[r].det,
               next.decision = runs[r].decision, next.available = runs[r].available,
               next.judged = runs[r].judged, next.findings = runs[r].findings
        PROVE  PrInv'
    <2>1. Earned(next) <=> Earned(runs[r])
      BY <1>2, SameEarned
    <2>2. RunFacts(next, checks[r], Approved(r))
      BY <1>1, <1>2, <2>1 DEF RunFacts
    <2>3. QED
      BY <1>1, <1>2, <2>2, OneRunAlone
  <1>3. CASE CancelRun(r)
    <2> DEFINE next == [runs[r] EXCEPT !.cancelled = TRUE]
    <2>1. /\ next \in Run /\ next.state = runs[r].state /\ next.at = runs[r].at
          /\ next.usage = runs[r].usage /\ next.policy = runs[r].policy /\ next.det = runs[r].det
          /\ next.decision = runs[r].decision /\ next.available = runs[r].available
          /\ next.judged = runs[r].judged /\ next.findings = runs[r].findings
      BY <1>1 DEF Run
    <2>2. Put(r, next)
      BY <1>3 DEF CancelRun
    <2> HIDE DEF next
    <2>3. QED
      BY <1>2, <2>1, <2>2
  <1>4. CASE Deadline(r)
    <2> DEFINE next == [runs[r] EXCEPT !.expired = TRUE]
    <2>1. /\ next \in Run /\ next.state = runs[r].state /\ next.at = runs[r].at
          /\ next.usage = runs[r].usage /\ next.policy = runs[r].policy /\ next.det = runs[r].det
          /\ next.decision = runs[r].decision /\ next.available = runs[r].available
          /\ next.judged = runs[r].judged /\ next.findings = runs[r].findings
      BY <1>1 DEF Run
    <2>2. Put(r, next)
      BY <1>4 DEF Deadline
    <2> HIDE DEF next
    <2>3. QED
      BY <1>2, <2>1, <2>2
  <1>5. QED
    BY <1>3, <1>4

LEMMA PushKeeps == PrInv /\ Push => PrInv'
  <1> SUFFICES ASSUME PrInv, Push PROVE PrInv'
    OBVIOUS
  <1>1. prHead' \in Heads
    BY PrTypes, PrGateAssumption DEF Push, Heads
  <1>2. runs' = runs /\ checks' = checks /\ UNCHANGED <<overrides, calls>>
    BY DEF Push
  <1>3. QED
    BY <1>1, <1>2, PrTypes, RunsOnly

LEMMA ExecuteRunKeeps == \A r \in RunIds : PrInv /\ ExecuteRun(r) => PrInv'
  BY PortFailsKeeps, AcquireKeeps, AssertCurrentHeadKeeps, ClassifyKeeps, AttestKeeps, RunChecksKeeps,
     ReviewPanelKeeps, JudgeFindingsKeeps, DecideRunKeeps, SendReportKeeps, ReportAnsweredKeeps,
     CancelStaleKeeps, EndedKeeps DEF ExecuteRun

-----------------------------------------------------------------------------
(* Overrides, and the end of the process.                                  *)
LEMMA CallTypes ==
    ASSUME PrInv, NEW c \in Calls, calls[c].at \in {"head", "publish"}
    PROVE  /\ calls[c] \in Call /\ calls[c].run \in RunIds /\ calls[c].key \in Keys
           /\ calls[c].action \in {"APPROVE", "REJECT"} /\ calls[c].send \in BOOLEAN
           /\ overrides[calls[c].run] \in Seq(HumanDecision)
  <1>1. calls[c] \in Call
    BY PrTypes DEF AnyCall
  <1>2. QED
    BY <1>1, PrTypes DEF Call

\* A call that is over, or has not published, claims nothing.
LEMMA CallsKept ==
    ASSUME PrInv, NEW c \in Calls, NEW call \in AnyCall, calls' = [calls EXCEPT ![c] = call],
           overrides' \in [RunIds -> Seq(HumanDecision)],
           \A q \in RunIds : \A key, action :
               Decided(overrides[q], key, action) => Decided(overrides'[q], key, action),
           call.at = "publish" => call \in Call /\ Decided(overrides'[call.run], call.key, call.action)
    PROVE  calls' \in [Calls -> AnyCall] /\ CallFacts'
  <1>1. calls' \in [Calls -> AnyCall] /\ calls'[c] = call /\ \A d \in Calls : d # c => calls'[d] = calls[d]
    BY PrTypes
  <1>2. ASSUME NEW d \in Calls, calls'[d].at = "publish"
        PROVE  Decided(overrides'[calls'[d].run], calls'[d].key, calls'[d].action)
    <2>1. CASE d = c
      BY <1>1, <1>2, <2>1
    <2>2. CASE d # c
      <3>1. calls'[d] = calls[d] /\ calls[d].at = "publish" /\ calls[d].run \in RunIds
        BY <1>1, <1>2, <2>2, CallTypes
      <3>2. Decided(overrides[calls[d].run], calls[d].key, calls[d].action)
        BY <3>1 DEF PrInv, CallFacts
      <3>3. QED
        BY <3>1, <3>2
    <2>3. QED
      BY <2>1, <2>2
  <1>3. QED
    BY <1>1, <1>2 DEF CallFacts

LEMMA OverTyped == \A at \in {"idle", "over"} : [at |-> at] \in AnyCall /\ [at |-> at].at = at
  BY DEF AnyCall

LEMMA OverrideKeeps == \A c \in Calls : PrInv /\ Override(c) => PrInv'
  <1> SUFFICES ASSUME NEW c \in Calls, PrInv, Override(c) PROVE PrInv'
    OBVIOUS
  <1>1. PICK r \in RunIds, key \in Keys, action \in {"APPROVE", "REJECT"} :
          calls' = [calls EXCEPT ![c] = [at |-> "head", run |-> r, key |-> key,
                                         action |-> action, send |-> FALSE]]
    BY DEF Override
  <1> DEFINE call == [at |-> "head", run |-> r, key |-> key, action |-> action, send |-> FALSE]
  <1>2. call \in AnyCall /\ call.at # "publish"
    BY DEF AnyCall, Call
  <1>3. prHead' = prHead /\ runs' = runs /\ checks' = checks /\ overrides' = overrides
    BY DEF Override, KeepRunsAnd
  <1> HIDE DEF call
  <1>4. calls' \in [Calls -> AnyCall] /\ CallFacts'
    BY <1>1, <1>2, <1>3, CallsKept, PrTypes DEF call
  <1>5. PrGateTypeOK'
    BY <1>3, <1>4, PrTypes DEF PrGateTypeOK, Conclusions, HumanDecision, AnyCall
  <1>6. (\A r_1 \in RunIds : RunFacts(runs[r_1], checks[r_1], Approved(r_1))') /\ OneDecisionPerKey'
    BY <1>3 DEF PrInv, OneDecisionPerKey, Approved
  <1>7. QED
    BY <1>4, <1>5, <1>6 DEF PrInv

\* One more decision in the log of a run.
LEMMA AppendDecision ==
    ASSUME NEW log \in Seq(HumanDecision), NEW d \in HumanDecision
    PROVE  /\ Append(log, d) \in Seq(HumanDecision)
           /\ DOMAIN Append(log, d) = DOMAIN log \cup {Len(log) + 1} /\ Len(log) + 1 \notin DOMAIN log
           /\ Append(log, d)[Len(log) + 1] = d /\ \A i \in DOMAIN log : Append(log, d)[i] = log[i]
  <1>1. Append(log, d) \in Seq(HumanDecision)
    OBVIOUS
  <1>2. Len(log) \in Nat /\ DOMAIN log = 1 .. Len(log) /\ Len(Append(log, d)) = Len(log) + 1
    OBVIOUS
  <1>3. DOMAIN Append(log, d) = 1 .. (Len(log) + 1)
    BY <1>1, <1>2
  <1>4. QED
    BY <1>1, <1>2, <1>3

LEMMA RecordOverrideKeeps == \A c \in Calls : PrInv /\ RecordOverride(c) => PrInv'
  <1> SUFFICES ASSUME NEW c \in Calls, PrInv, RecordOverride(c) PROVE PrInv'
    OBVIOUS
  <1> DEFINE call == calls[c]
             r == call.run
             replay == Replay(call)
             log == overrides[r]
             sent == replay = 0 \/ ~log[replay].published
             publishing == [call EXCEPT !.at = "publish", !.send = sent]
             decision == [key |-> call.key, action |-> call.action, published |-> FALSE]
  <1>1. /\ call \in Call /\ call.at = "head" /\ r \in RunIds /\ log \in Seq(HumanDecision)
        /\ call.key \in Keys /\ call.action \in {"APPROVE", "REJECT"}
        /\ prHead' = prHead /\ checks' = checks /\ runs[r] \in Run
        /\ overrides \in [RunIds -> Seq(HumanDecision)]
    BY CallTypes, PrTypes DEF RecordOverride, KeepRunsAnd
  <1>2. /\ publishing \in Call /\ publishing \in AnyCall /\ publishing.at = "publish" /\ publishing.run = r
        /\ publishing.key = call.key /\ publishing.action = call.action
    <2>1. sent \in BOOLEAN
      OBVIOUS
    <2> HIDE DEF sent
    <2>2. QED
      BY <1>1, <2>1 DEF Call, AnyCall
  <1>3. \/ calls' = CallOver(c) /\ UNCHANGED <<runs, overrides>>
        \/ /\ calls' = [calls EXCEPT ![c].at = "publish", ![c].send = sent]
           /\ replay # 0 => log[replay].action = call.action
           /\ IF replay # 0 THEN UNCHANGED <<runs, overrides>>
              ELSE /\ overrides' = [overrides EXCEPT ![r] = Append(@, decision)]
                   /\ Put(r, [runs[r] EXCEPT !.effective = IF call.action = "APPROVE" THEN "PASS" ELSE "FAIL"])
    BY DEF RecordOverride
  <1>4. [calls EXCEPT ![c].at = "publish", ![c].send = sent] = [calls EXCEPT ![c] = publishing]
    BY PrTypes
  <1>5. IF replay # 0 THEN replay \in DOMAIN log /\ log[replay].key = call.key
        ELSE \A i \in DOMAIN log : log[i].key # call.key
    BY <1>1, ReplayFinds
  <1> HIDE DEF publishing, replay
  <1>6. CASE UNCHANGED <<runs, overrides>> /\ CallFacts' /\ calls' \in [Calls -> AnyCall]
    <2>1. PrGateTypeOK'
      BY <1>1, <1>6, PrTypes DEF PrGateTypeOK, Conclusions, HumanDecision, AnyCall
    <2>2. (\A q \in RunIds : RunFacts(runs[q], checks[q], Approved(q)))' /\ OneDecisionPerKey'
      BY <1>1, <1>6 DEF PrInv, OneDecisionPerKey, Approved
    <2>3. QED
      BY <1>6, <2>1, <2>2 DEF PrInv
  <1>7. CASE calls' = CallOver(c) /\ UNCHANGED <<runs, overrides>>
    <2> DEFINE ended == [at |-> "over"]
    <2>1. ended \in AnyCall /\ ended.at # "publish"
      BY OverTyped
    <2> HIDE DEF ended
    <2>2. calls' = [calls EXCEPT ![c] = ended]
      BY <1>7 DEF CallOver, ended
    <2>3. CallFacts' /\ calls' \in [Calls -> AnyCall]
      BY <1>1, <1>7, <2>1, <2>2, CallsKept
    <2>4. QED
      BY <1>6, <1>7, <2>3
  <1>8. CASE /\ calls' = [calls EXCEPT ![c] = publishing] /\ replay # 0
             /\ log[replay].action = call.action /\ UNCHANGED <<runs, overrides>>
    <2>1. Decided(overrides'[publishing.run], publishing.key, publishing.action)
      BY <1>2, <1>5, <1>8 DEF Decided
    <2>2. CallFacts' /\ calls' \in [Calls -> AnyCall]
      BY <1>1, <1>2, <1>8, <2>1, CallsKept
    <2>3. QED
      BY <1>6, <1>8, <2>2
  <1>9. CASE /\ calls' = [calls EXCEPT ![c] = publishing] /\ replay = 0
             /\ overrides' = [overrides EXCEPT ![r] = Append(@, decision)]
             /\ Put(r, [runs[r] EXCEPT !.effective = IF call.action = "APPROVE" THEN "PASS" ELSE "FAIL"])
    <2> DEFINE appended == Append(log, decision)
               effective == IF call.action = "APPROVE" THEN "PASS" ELSE "FAIL"
               next == [runs[r] EXCEPT !.effective = effective]
    <2>1. decision \in HumanDecision /\ decision.key = call.key /\ decision.action = call.action
      BY <1>1 DEF HumanDecision
    <2> HIDE DEF decision
    <2>2. /\ appended \in Seq(HumanDecision) /\ DOMAIN appended = DOMAIN log \cup {Len(log) + 1}
          /\ Len(log) + 1 \notin DOMAIN log
          /\ appended[Len(log) + 1] = decision /\ \A i \in DOMAIN log : appended[i] = log[i]
      BY <1>1, <2>1, AppendDecision
    <2> HIDE DEF appended, log
    <2>3. /\ overrides' \in [RunIds -> Seq(HumanDecision)] /\ overrides'[r] = appended
          /\ overrides[r] = log /\ \A q \in RunIds : q # r => overrides'[q] = overrides[q]
      BY <1>1, <1>9, <2>2 DEF appended, log
    <2>4. \A q \in RunIds : \A key, action : Decided(overrides[q], key, action) => Decided(overrides'[q], key, action)
      BY <2>2, <2>3 DEF Decided
    <2>5. Decided(overrides'[publishing.run], publishing.key, publishing.action)
      BY <1>2, <2>1, <2>2, <2>3 DEF Decided
    <2>6. CallFacts' /\ calls' \in [Calls -> AnyCall]
      BY <1>2, <1>9, <2>3, <2>4, <2>5, CallsKept
    <2>7. next \in Run
      <3>1. effective \in Decisions
        BY DEF Decisions
      <3> HIDE DEF effective
      <3>2. QED
        BY <1>1, <3>1 DEF Run
    <2>8. /\ next.state = runs[r].state /\ next.at = runs[r].at
          /\ next.usage = runs[r].usage /\ next.policy = runs[r].policy /\ next.det = runs[r].det
          /\ next.decision = runs[r].decision /\ next.available = runs[r].available
          /\ next.judged = runs[r].judged /\ next.findings = runs[r].findings
      BY <1>1 DEF Run
    <2> HIDE DEF next
    <2>9. runs' = [runs EXCEPT ![r] = next]
      BY <1>9 DEF next, Put
    <2>10. runs' \in [RunIds -> Run] /\ runs'[r] = next /\ \A q \in RunIds : q # r => runs'[q] = runs[q]
      BY <1>1, <2>7, <2>9, PrTypes
    <2>11. \A q \in RunIds : Approved(q) => Approved(q)'
      BY <2>2, <2>3 DEF Approved
    <2>12. ASSUME NEW q \in RunIds PROVE RunFacts(runs'[q], checks'[q], Approved(q)')
      <3>1. RunFacts(runs[q], checks[q], Approved(q)) /\ checks'[q] = checks[q]
        BY <1>1, PrTypes
      <3>2. CASE q = r
        <4>1. Earned(next) <=> Earned(runs[r])
          BY <2>8, SameEarned
        <4>2. QED
          BY <2>8, <2>10, <2>11, <3>1, <3>2, <4>1 DEF RunFacts
      <3>3. CASE q # r
        BY <2>10, <2>11, <3>1, <3>3 DEF RunFacts
      <3>4. QED
        BY <3>2, <3>3
    <2>13. \A q \in RunIds : RunFacts(runs[q], checks[q], Approved(q))'
      BY <2>12
    <2>14. OneDecisionPerKey'
      <3>1. ASSUME NEW q \in RunIds, NEW i \in DOMAIN overrides'[q], NEW j \in DOMAIN overrides'[q],
                   overrides'[q][i].key = overrides'[q][j].key
            PROVE  i = j
        <4>1. CASE q = r
          <5>1. \A k \in DOMAIN log : appended[k].key # call.key
            BY <1>5, <1>9, <2>2 DEF log
          <5>2. CASE i \in DOMAIN log /\ j \in DOMAIN log
            BY <2>2, <2>3, <3>1, <4>1, <5>2 DEF PrInv, OneDecisionPerKey
          <5>3. QED
            BY <2>1, <2>2, <2>3, <3>1, <4>1, <5>1, <5>2
        <4>2. CASE q # r
          BY <2>3, <3>1, <4>2 DEF PrInv, OneDecisionPerKey
        <4>3. QED
          BY <4>1, <4>2
      <3>2. QED
        BY <3>1 DEF OneDecisionPerKey
    <2>15. PrGateTypeOK'
      BY <1>1, <2>3, <2>6, <2>10, PrTypes DEF PrGateTypeOK, Conclusions, HumanDecision, AnyCall
    <2>16. QED
      BY <2>6, <2>13, <2>14, <2>15 DEF PrInv
  <1>10. QED
    BY <1>3, <1>4, <1>7, <1>8, <1>9

LEMMA PublishOverrideKeeps == \A c \in Calls : PrInv /\ PublishOverride(c) => PrInv'
  <1> SUFFICES ASSUME NEW c \in Calls, PrInv, PublishOverride(c) PROVE PrInv'
    OBVIOUS
  <1> DEFINE call == calls[c]
             r == call.run
             replay == Replay(call)
             log == overrides[r]
             green == IF call.action = "APPROVE" THEN "success" ELSE "failure"
             published == [checks EXCEPT ![r] = green]
             ended == [at |-> "over"]
  <1>1. /\ call \in Call /\ call.at = "publish" /\ r \in RunIds /\ log \in Seq(HumanDecision)
        /\ prHead' = prHead /\ runs[r] \in Run /\ overrides \in [RunIds -> Seq(HumanDecision)]
        /\ checks \in [RunIds -> Conclusions] /\ runs \in [RunIds -> Run]
        /\ calls' = [calls EXCEPT ![c] = ended]
    BY CallTypes, PrTypes DEF PublishOverride, CallOver
  <1>2. Decided(log, call.key, call.action)
    BY <1>1 DEF PrInv, CallFacts
  <1>3. call.action = "APPROVE" => Approved(r)
    BY <1>2 DEF Decided, Approved
  <1>4. replay \in DOMAIN log
    BY <1>1, <1>2, ReplayFinds DEF Decided
  <1>5. /\ checks' \in {checks, published}
        /\ \/ UNCHANGED <<runs, overrides>>
           \/ /\ overrides' = [overrides EXCEPT ![r][replay].published = TRUE]
              /\ \/ UNCHANGED runs
                 \/ runs[r].state = "AWAITING_HUMAN" /\ PrGoto(r, "COMPLETED", runs[r].at)
    BY DEF PublishOverride
  <1> HIDE DEF replay
  <1>6. /\ overrides' \in [RunIds -> Seq(HumanDecision)]
        /\ \A q \in RunIds : /\ DOMAIN overrides'[q] = DOMAIN overrides[q]
              /\ \A i \in DOMAIN overrides[q] : /\ overrides'[q][i].key = overrides[q][i].key
                                                /\ overrides'[q][i].action = overrides[q][i].action
    <2>1. CASE UNCHANGED overrides
      BY <1>1, <2>1
    <2>2. CASE overrides' = [overrides EXCEPT ![r][replay].published = TRUE]
      <3> DEFINE marked == [log[replay] EXCEPT !.published = TRUE]
                 new == [log EXCEPT ![replay] = marked]
      <3>1. log[replay] \in HumanDecision
        BY <1>1, <1>4
      <3>2. /\ marked \in HumanDecision /\ marked.key = log[replay].key /\ marked.action = log[replay].action
        BY <3>1 DEF HumanDecision
      <3> HIDE DEF marked
      <3>3. /\ new \in Seq(HumanDecision) /\ DOMAIN new = DOMAIN log
            /\ \A i \in DOMAIN log : new[i] = IF i = replay THEN marked ELSE log[i]
        BY <1>1, <1>4, <3>2
      <3>4. overrides' = [overrides EXCEPT ![r] = new]
        BY <1>1, <2>2 DEF marked
      <3> HIDE DEF new
      <3>5. overrides' \in [RunIds -> Seq(HumanDecision)]
        BY <1>1, <3>3, <3>4
      <3>6. overrides'[r] = new /\ \A q \in RunIds : q # r => overrides'[q] = overrides[q]
        BY <1>1, <3>4
      <3>7. QED
        BY <3>2, <3>3, <3>5, <3>6
    <2>3. QED
      BY <1>5, <2>1, <2>2
  <1>7. /\ checks' \in [RunIds -> Conclusions]
        /\ \A q \in RunIds : \/ checks'[q] = checks[q]
                             \/ q = r /\ checks'[q] = green
    BY <1>1, <1>5 DEF Conclusions
  <1>8. /\ runs' \in [RunIds -> Run]
        /\ \A q \in RunIds : /\ runs'[q].state = "none" <=> runs[q].state = "none"
              /\ runs'[q].at = runs[q].at /\ runs'[q].usage = runs[q].usage
              /\ runs'[q].policy = runs[q].policy /\ runs'[q].det = runs[q].det
              /\ runs'[q].decision = runs[q].decision /\ runs'[q].available = runs[q].available
              /\ runs'[q].judged = runs[q].judged /\ runs'[q].findings = runs[q].findings
    <2>1. CASE UNCHANGED runs
      BY <1>1, <2>1
    <2>2. CASE runs[r].state = "AWAITING_HUMAN" /\ PrGoto(r, "COMPLETED", runs[r].at)
      <3> DEFINE next == [runs[r] EXCEPT !.state = "COMPLETED", !.at = runs[r].at]
      <3>1. "COMPLETED" \in RunStates
        BY DEF RunStates, TERMINAL
      <3>2. /\ next \in Run /\ next.state = "COMPLETED" /\ next.at = runs[r].at
            /\ next.usage = runs[r].usage /\ next.policy = runs[r].policy /\ next.det = runs[r].det
            /\ next.decision = runs[r].decision /\ next.available = runs[r].available
            /\ next.judged = runs[r].judged /\ next.findings = runs[r].findings
        BY <1>1, <3>1 DEF Run
      <3>3. runs' = [runs EXCEPT ![r] = next]
        BY <2>2 DEF PrGoto, Put
      <3> HIDE DEF next
      <3>4. runs' \in [RunIds -> Run] /\ runs'[r] = next /\ \A q \in RunIds : q # r => runs'[q] = runs[q]
        BY <1>1, <3>2, <3>3
      <3>5. QED
        BY <2>2, <3>2, <3>4
    <2>3. QED
      BY <1>5, <2>1, <2>2
  <1>9. ASSUME NEW q \in RunIds PROVE RunFacts(runs'[q], checks'[q], Approved(q)')
    <2>1. RunFacts(runs[q], checks[q], Approved(q))
      BY PrTypes
    <2>2. Approved(q)' <=> Approved(q)
      BY <1>6 DEF Approved
    <2>3. Earned(runs'[q]) <=> Earned(runs[q])
      BY <1>8, SameEarned
    <2>4. checks'[q] = "success" /\ ~Approved(q)' => checks[q] = "success" /\ ~Approved(q)
      BY <1>3, <1>7, <2>2
    <2>5. QED
      BY <1>8, <2>1, <2>3, <2>4 DEF RunFacts
  <1>10. \A q \in RunIds : RunFacts(runs[q], checks[q], Approved(q))'
    BY <1>9
  <1>11. CallFacts' /\ calls' \in [Calls -> AnyCall]
    <2>1. ended \in AnyCall /\ ended.at # "publish"
      BY OverTyped
    <2> HIDE DEF ended
    <2>2. \A q \in RunIds : \A key, action : Decided(overrides[q], key, action) => Decided(overrides'[q], key, action)
      BY <1>6 DEF Decided
    <2>3. QED
      BY <1>1, <1>6, <2>1, <2>2, CallsKept
  <1>12. OneDecisionPerKey'
    BY <1>6 DEF PrInv, OneDecisionPerKey
  <1>13. PrGateTypeOK'
    BY <1>1, <1>6, <1>7, <1>8, <1>11, PrTypes DEF PrGateTypeOK, Conclusions, HumanDecision, AnyCall
  <1>14. QED
    BY <1>10, <1>11, <1>12, <1>13 DEF PrInv

LEMMA EndProcessKeeps == PrInv /\ EndProcess => PrInv'
  <1> SUFFICES ASSUME PrInv, EndProcess PROVE PrInv'
    OBVIOUS
  <1>1. /\ prHead' = prHead /\ checks' = checks /\ overrides' = overrides
        /\ calls' = [c \in Calls |-> IF Overriding(c) THEN [at |-> "over"] ELSE calls[c]]
    BY DEF EndProcess
  <1>2. calls' \in [Calls -> AnyCall] /\ CallFacts'
    <2>1. \A c \in Calls : calls'[c] \in AnyCall /\ calls'[c].at # "publish"
      BY <1>1, OverTyped, PrTypes DEF Overriding
    <2>2. QED
      BY <1>1, <2>1 DEF CallFacts
  <1>3. ASSUME NEW q \in RunIds
        PROVE  runs'[q] \in Run /\ RunFacts(runs'[q], checks[q], Approved(q))
    <2>1. /\ runs[q] \in Run /\ RunFacts(runs[q], checks[q], Approved(q)) /\ Approved(q) \in BOOLEAN
          /\ runs[q].usage <= runs[q].policy.cap /\ runs[q].policy.cap <= Slots
          /\ (checks[q] = "success" /\ ~Approved(q) => Earned(runs[q]))
      BY PrTypes DEF RunFacts, Approved
    <2>2. CASE runs[q].state \in PrActive
      <3> DEFINE over == Over(runs[q], "FAILED_INFRASTRUCTURE")
                 next == [over EXCEPT !.expired = FALSE, !.decision = "INFRASTRUCTURE_FAILURE",
                                      !.effective = "INFRASTRUCTURE_FAILURE"]
      <3>1. "FAILED_INFRASTRUCTURE" \in RunStates /\ "INFRASTRUCTURE_FAILURE" \in Decisions
        BY DEF RunStates, TERMINAL, Decisions
      <3>2. /\ over \in Run /\ RunFacts(over, checks[q], Approved(q))
            /\ over.state = "FAILED_INFRASTRUCTURE" /\ over.at = "ended"
        BY <2>1, <3>1, OverFacts
      <3>3. runs'[q] = next
        BY <2>2 DEF EndProcess
      <3> HIDE DEF over
      <3>4. /\ next \in Run /\ next.state = over.state /\ next.at = over.at /\ next.usage = over.usage
            /\ next.policy = over.policy /\ next.det = over.det /\ next.available = over.available
            /\ next.judged = over.judged /\ next.findings = over.findings
        BY <3>1, <3>2 DEF Run
      <3> HIDE DEF next
      <3>5. Earned(next) <=> Earned(over)
        BY <3>4, SameEarned
      <3>6. RunFacts(next, checks[q], Approved(q))
        BY <3>2, <3>4, <3>5 DEF RunFacts, Reporting
      <3>7. QED
        BY <3>3, <3>4, <3>6
    <2>3. CASE runs[q].state \notin PrActive
      <3> DEFINE at == IF runs[q].at = "none" THEN "none" ELSE "ended"
                 next == [runs[q] EXCEPT !.at = at]
      <3>1. runs'[q] = next
        BY <2>3 DEF EndProcess
      <3>2. at \in AnyPlace /\ (at = "none" <=> runs[q].at = "none") /\ at \in {"none", "ended"}
        BY DEF AnyPlace
      <3> HIDE DEF at
      <3>3. /\ next \in Run /\ next.state = runs[q].state /\ next.at = at
            /\ next.usage = runs[q].usage /\ next.policy = runs[q].policy /\ next.det = runs[q].det
            /\ next.available = runs[q].available /\ next.judged = runs[q].judged
            /\ next.findings = runs[q].findings
        BY <2>1, <3>2 DEF Run
      <3> HIDE DEF next
      <3>4. Earned(next) <=> Earned(runs[q])
        BY <3>3, SameEarned
      <3>5. RunFacts(next, checks[q], Approved(q))
        BY <2>1, <3>2, <3>3, <3>4 DEF RunFacts, Determinate, Reporting
      <3>6. QED
        BY <3>1, <3>3, <3>5
    <2>4. QED
      BY <2>2, <2>3
  <1>4. runs' \in [RunIds -> Run]
    BY <1>3 DEF EndProcess
  <1>5. PrGateTypeOK'
    BY <1>1, <1>2, <1>4, PrTypes DEF PrGateTypeOK, Conclusions, HumanDecision, AnyCall
  <1>6. (\A q \in RunIds : RunFacts(runs[q], checks[q], Approved(q)))' /\ OneDecisionPerKey'
    BY <1>1, <1>3 DEF PrInv, OneDecisionPerKey, Approved
  <1>7. QED
    BY <1>2, <1>5, <1>6 DEF PrInv

-----------------------------------------------------------------------------
LEMMA PrInitInv == PrGateInit => PrInv
  <1> SUFFICES ASSUME PrGateInit PROVE PrInv
    OBVIOUS
  <1>1. /\ prHead = 0 /\ runs = [r \in RunIds |-> NoGateRun] /\ checks = [r \in RunIds |-> "none"]
        /\ overrides = [r \in RunIds |-> << >>] /\ calls = [c \in Calls |-> [at |-> "idle"]]
    BY DEF PrGateInit
  <1>2. /\ prHead \in Heads /\ runs \in [RunIds -> Run] /\ checks \in [RunIds -> Conclusions]
        /\ overrides \in [RunIds -> Seq(HumanDecision)] /\ calls \in [Calls -> AnyCall]
    <2>1. << >> \in Seq(HumanDecision) /\ prHead \in Heads
      BY <1>1, PrGateAssumption DEF Heads
    <2>2. QED
      BY <1>1, <2>1, NoGateRunType, OverTyped DEF Conclusions
  <1>3. PrGateTypeOK
    BY <1>2 DEF PrGateTypeOK, Conclusions, HumanDecision, AnyCall
  <1>4. ASSUME NEW r \in RunIds PROVE RunFacts(runs[r], checks[r], Approved(r))
    <2>1. runs[r] = NoGateRun /\ checks[r] = "none"
      BY <1>1
    <2>2. NoGateRun.state = "none" /\ NoGateRun.at = "none"
      BY DEF NoGateRun
    <2>3. QED
      BY <2>1, <2>2, NoGateRunType, PrGateAssumption DEF RunFacts, Determinate, Reporting
  <1>5. CallFacts
    BY <1>1 DEF CallFacts
  <1>6. OneDecisionPerKey
    BY <1>1 DEF OneDecisionPerKey
  <1>7. QED
    BY <1>3, <1>4, <1>5, <1>6 DEF PrInv

(* Every step of the gate preserves the invariant: a run's own steps, with *)
(* the failures of its ports, pushes, cancellations, deadlines, overrides   *)
(* and the end of the process, in any order.                               *)
THEOREM PrGateStepInv == PrInv /\ [PrGateNext]_prVars => PrInv'
  <1> SUFFICES ASSUME PrInv, [PrGateNext]_prVars PROVE PrInv'
    OBVIOUS
  <1>1. CASE StartRun
    BY <1>1, StartRunKeeps
  <1>2. CASE Push
    BY <1>2, PushKeeps
  <1>3. CASE EndProcess
    BY <1>3, EndProcessKeeps
  <1>4. ASSUME NEW r \in RunIds, ExecuteRun(r) \/ CancelRun(r) \/ Deadline(r) PROVE PrInv'
    BY <1>4, ExecuteRunKeeps, SignalledKeeps
  <1>5. ASSUME NEW c \in Calls, Override(c) \/ RecordOverride(c) \/ PublishOverride(c) PROVE PrInv'
    BY <1>5, OverrideKeeps, RecordOverrideKeeps, PublishOverrideKeeps
  <1>6. CASE UNCHANGED prVars
    BY <1>6 DEF prVars, PrInv, PrGateTypeOK, CallFacts, OneDecisionPerKey, Overriding, Approved
  <1>7. QED
    BY <1>1, <1>2, <1>3, <1>4, <1>5, <1>6 DEF PrGateNext

(* Every reachable state is well typed, whatever the ports answer.         *)
THEOREM GateTypeCorrect == PrGateSpec => []PrGateTypeOK
  <1>1. PrInv => PrGateTypeOK
    BY DEF PrInv
  <1>2. QED
    BY <1>1, PrInitInv, PrGateStepInv, PTL DEF PrGateSpec

(* DecisionsAreEarned holds in every reachable state: a check that shows    *)
(* success was earned by checks, reviewers and a judge or approved by a     *)
(* human, and a retried override is one decision.                          *)
THEOREM GateDecisionsAreEarned == PrGateSpec => []DecisionsAreEarned
  <1>1. PrInv => DecisionsAreEarned
    BY DEF PrInv, RunFacts, DecisionsAreEarned, PassIsEarned
  <1>2. QED
    BY <1>1, PrInitInv, PrGateStepInv, PTL DEF PrGateSpec

------------------------------------------------------------------------------
(***************************************************************************)
(* The services side by side (MCServices): each keeps its own invariant,   *)
(* whichever of them takes the step, so the types of all of them hold.     *)
(***************************************************************************)
ServicesInv ==
    /\ GateInv /\ RunInv /\ PrInv /\ StoreInv /\ GovInv /\ ConsoleInv
    /\ SourceInv /\ SourceTypes
    /\ FusionInv /\ FusionCounts
    /\ PlanInv /\ PlanLeftovers
    /\ OobInv /\ AuditLimits
    /\ AdapterInv /\ SendCounts
    /\ ConformanceInv /\ SuiteCounts

\* Every service starts as it would alone.
LEMMA ServicesStart == MCInit => ServicesInv
  <1> SUFFICES ASSUME MCInit PROVE ServicesInv
    OBVIOUS
  <1>1. /\ GateInit /\ SupervisedInit /\ PrGateInit /\ StoreInit /\ GovernanceInit /\ ConsoleInit
        /\ ProposalInit /\ FusionInit /\ PlanInit /\ OobInit /\ AdapterInit /\ ConformanceInit
    BY DEF MCInit
  <1>2. GateInv /\ RunInv /\ PrInv /\ StoreInv /\ GovInv /\ ConsoleInv
    BY <1>1, GateStarts, RunInitInv, PrInitInv, StoreInitInv, GovInitInv, ConsoleStarts
  <1>3. SourceInv /\ SourceTypes /\ FusionInv /\ FusionCounts /\ PlanInv /\ PlanLeftovers
    BY <1>1, SourceStarts, SourceTypesStart, FusionStarts, CountsStart, StartsEmpty, LeftoversStart
  <1>4. OobInv /\ AuditLimits /\ AdapterInv /\ SendCounts /\ ConformanceInv /\ SuiteCounts
    BY <1>1, AuditStarts, LimitsStart, AdapterStarts, SendCountsStart, ConformanceStarts, SuiteCountsStart
  <1>5. QED
    BY <1>2, <1>3, <1>4 DEF ServicesInv

\* The parts of the console make its steps.
LEMMA ConsoleSteps ==
    ASSUME MCNext, part \in ConsoleParts
    PROVE  ConsoleNext
  BY DEF MCNext, ConsoleParts, ConsoleNext

\* A step of one service is a step of it and leaves the others alone.
LEMMA ServicesStep ==
    ASSUME [MCNext]_<<services, part>>
    PROVE  /\ [GateNext]_gateVars /\ [SupervisedNext]_supervisedVars /\ [PrGateNext]_prVars
           /\ [StoreNext]_storeVars /\ [ProposalNext]_sourceVars /\ [FusionNext]_fusionVars
           /\ [GovernanceNext]_govVars /\ [PlanNext]_planVars /\ [OobNext]_oobVars
           /\ [AdapterNext]_adapterVars /\ [ConformanceNext]_conformanceVars /\ [ConsoleNext]_consoleVars
  <1>1. CASE UNCHANGED <<services, part>>
    BY <1>1 DEF services
  <1>2. CASE MCNext
    <2>1. OthersKept
      BY <1>2 DEF MCNext
    <2>2. [GateNext]_gateVars
      <3>1. CASE part = "gate"
        BY <1>2, <3>1 DEF MCNext
      <3>2. CASE part # "gate"
        BY <2>1, <3>2 DEF OthersKept
      <3>3. QED
        BY <3>1, <3>2
    <2>3. [SupervisedNext]_supervisedVars
      <3>1. CASE part = "run"
        BY <1>2, <3>1 DEF MCNext
      <3>2. CASE part # "run"
        BY <2>1, <3>2 DEF OthersKept
      <3>3. QED
        BY <3>1, <3>2
    <2>4. [PrGateNext]_prVars
      <3>1. CASE part = "pr"
        BY <1>2, <3>1 DEF MCNext
      <3>2. CASE part # "pr"
        BY <2>1, <3>2 DEF OthersKept
      <3>3. QED
        BY <3>1, <3>2
    <2>5. [StoreNext]_storeVars
      <3>1. CASE part = "store"
        BY <1>2, <3>1 DEF MCNext
      <3>2. CASE part # "store"
        BY <2>1, <3>2 DEF OthersKept
      <3>3. QED
        BY <3>1, <3>2
    <2>6. [ProposalNext]_sourceVars
      <3>1. CASE part = "source"
        BY <1>2, <3>1 DEF MCNext
      <3>2. CASE part # "source"
        BY <2>1, <3>2 DEF OthersKept
      <3>3. QED
        BY <3>1, <3>2
    <2>7. [FusionNext]_fusionVars
      <3>1. CASE part = "fusion"
        BY <1>2, <3>1 DEF MCNext
      <3>2. CASE part # "fusion"
        BY <2>1, <3>2 DEF OthersKept
      <3>3. QED
        BY <3>1, <3>2
    <2>8. [GovernanceNext]_govVars
      <3>1. CASE part = "governance"
        BY <1>2, <3>1 DEF MCNext
      <3>2. CASE part # "governance"
        BY <2>1, <3>2 DEF OthersKept
      <3>3. QED
        BY <3>1, <3>2
    <2>9. [PlanNext]_planVars
      <3>1. CASE part = "plan"
        BY <1>2, <3>1 DEF MCNext
      <3>2. CASE part # "plan"
        BY <2>1, <3>2 DEF OthersKept
      <3>3. QED
        BY <3>1, <3>2
    <2>10. [OobNext]_oobVars
      <3>1. CASE part = "audit"
        BY <1>2, <3>1 DEF MCNext
      <3>2. CASE part # "audit"
        BY <2>1, <3>2 DEF OthersKept
      <3>3. QED
        BY <3>1, <3>2
    <2>11. [AdapterNext]_adapterVars
      <3>1. CASE part = "adapter"
        BY <1>2, <3>1 DEF MCNext
      <3>2. CASE part # "adapter"
        BY <2>1, <3>2 DEF OthersKept
      <3>3. QED
        BY <3>1, <3>2
    <2>12. [ConformanceNext]_conformanceVars
      <3>1. CASE part = "conformance"
        BY <1>2, <3>1 DEF MCNext
      <3>2. CASE part # "conformance"
        BY <2>1, <3>2 DEF OthersKept
      <3>3. QED
        BY <3>1, <3>2
    <2>13. [ConsoleNext]_consoleVars
      <3>1. CASE part \in ConsoleParts
        BY <1>2, <3>1, ConsoleSteps
      <3>2. CASE part \notin ConsoleParts
        BY <2>1, <3>2 DEF OthersKept
      <3>3. QED
        BY <3>1, <3>2
    <2>14. QED
      BY <2>2, <2>3, <2>4, <2>5, <2>6, <2>7, <2>8, <2>9, <2>10, <2>11, <2>12, <2>13
  <1>3. QED
    BY <1>1, <1>2

\* What a step does to one service keeps the invariant of that service.
LEMMA ServicesKeepInv == ServicesInv /\ [MCNext]_<<services, part>> => ServicesInv'
  <1> SUFFICES ASSUME ServicesInv, [MCNext]_<<services, part>> PROVE ServicesInv'
    OBVIOUS
  <1>1. GateInv' /\ RunInv' /\ PrInv' /\ StoreInv'
    BY ServicesStep, GateStepInv, RunStepInv, PrGateStepInv, StoreStepInv DEF ServicesInv
  <1>2. GovInv' /\ ConsoleInv' /\ SourceInv' /\ SourceTypes'
    BY ServicesStep, GovernanceStepInv, ConsoleStep, SourceStep, SourceTypesStep DEF ServicesInv
  <1>3. FusionInv' /\ FusionCounts' /\ PlanInv' /\ PlanLeftovers'
    BY ServicesStep, FusionStep, CountsStep, PlanStep, LeftoversStep DEF ServicesInv
  <1>4. OobInv' /\ AuditLimits' /\ AdapterInv' /\ SendCounts'
    BY ServicesStep, AuditStepInv, LimitsStep, AdapterStep, SendCountsStep DEF ServicesInv
  <1>5. ConformanceInv' /\ SuiteCounts'
    BY ServicesStep, ConformanceStep, SuiteCountsStep DEF ServicesInv
  <1>6. QED
    BY <1>1, <1>2, <1>3, <1>4, <1>5 DEF ServicesInv

\* The invariants give every service its types.
LEMMA ServicesTyped == ServicesInv => ServicesTypeOK
  <1> SUFFICES ASSUME ServicesInv PROVE ServicesTypeOK
    OBVIOUS
  <1>1. GateTypeOK /\ SupervisedTypeOK /\ PrGateTypeOK /\ StoreTypeOK
    BY GateTyped DEF ServicesInv, RunInv, PrInv, StoreInv
  <1>2. ProposalTypeOK /\ FusionTypeOK /\ GovernanceTypeOK /\ PlanTypeOK
    BY SourceTyped, FusionTyped, PlanTypes DEF ServicesInv, GovInv
  <1>3. OobTypeOK /\ AdapterTypeOK /\ ConformanceTypeOK /\ ConsoleTypeOK
    BY AuditTypes, AdapterTyped, ConformanceTyped, ConsoleTypes DEF ServicesInv
  <1>4. QED
    BY <1>1, <1>2, <1>3 DEF ServicesTypeOK

(* ServicesTypeOK: every service keeps its state in its types, for any values  *)
(* of the constants and whichever part a behaviour is about.                   *)
THEOREM ServicesAreTyped == MCSpec => []ServicesTypeOK
  <1>1. MCSpec => []ServicesInv
    BY ServicesStart, ServicesKeepInv, PTL DEF MCSpec
  <1>2. QED
    BY <1>1, ServicesTyped, PTL
===============================================================================
