--------------------------- MODULE SupervisedRun ---------------------------
(***************************************************************************)
(* One supervised run: the composition of console/backend/src/loop-run.ts  *)
(* and the Human Plane of core/src/human/api.ts that its operator drives.  *)
(* The run executes one task, or the tasks of a frozen graph one after the *)
(* other; each task loop, merge and deploy stage is awaited, and between   *)
(* two awaits an HTTP request, a timer or the loss of the task's lease may *)
(* come.  TaskLoop and ApprovedMerge hold the detail of what is awaited.   *)
(***************************************************************************)
EXTENDS TaskMachine, DeployStage, FiniteSets, Sequences, SequencesExt

CONSTANTS
    Order,        \* the tasks of the frozen graph, in file order
    DependsOn,    \* task -> the tasks it depends on
    NoActive,     \* activeTask before the first task
    MaxRequests,  \* bound: requests the operator sends
    MaxLosses,    \* bound: leases lost
    MaxRounds     \* bound: iterations of a task loop

ASSUME OrderAssumption == Order \in Seq(Range(Order)) /\ Order # <<>>
ASSUME RunAssumption ==
    /\ NoActive \notin Range(Order)
    /\ DependsOn \in [Range(Order) -> SUBSET Range(Order)]
    /\ {MaxRequests, MaxLosses, MaxRounds} \subseteq Nat

VARIABLES
    opts,       \* graph or single task, whether a human is waited for, deploy configured
    run,        \* the async function: where it is, its task and that task's locals
    st,         \* task -> the last TASK_STATE of the log, "none" before the first
    returned,   \* task -> the finalState executeTask returned, "none" before
    closed,     \* tasks never selectable again in this run
    plane,      \* what the HTTP handlers share with the run; killed: KILL_REQUESTED is logged
    decided,    \* task -> the decisions the plane accepted that name it
    merged,     \* task -> how it got into main
    limits      \* what is left of the bounds

supervisedVars == <<opts, run, st, returned, closed, plane, decided, merged, limits, stage>>

Tasks == Range(Order)
Graph == IF opts.graph THEN Tasks ELSE {Head(Order)}

(* A microtask follows the handler or the timer that resolved its promise: *)
(* no request is served in between.                                        *)
Awaiting == {"loop", "round", "paused", "auto_merge", "approval_wait", "approved_merge",
             "deploy_wait", "stage", "window", "rollback_wait", "closing"}
Microtask == {"select", "start", "decision", "deploy_decision", "window_over"}
Heard == {"none", "reviewing", "skip", "approve", "reject", "timeout", "killed", "evidence_invalid"}

SupervisedTypeOK ==
    /\ opts \in [graph : BOOLEAN, interactive : BOOLEAN, deploy : BOOLEAN]
    /\ run \in [at : Awaiting \cup Microtask \cup {"open", "done", "rejected"},
                task : Tasks \cup {NoActive}, loop : {"IMPLEMENTING", "REPAIRING"},
                rounds : 0 .. MaxRounds, held : BOOLEAN, heard : Heard,
                result : TaskState \cup {"none"}]
    /\ st \in [Tasks -> TaskState \cup {"none"}]
    /\ returned \in [Tasks -> TaskState \cup {"none"}]
    /\ closed \subseteq Tasks
    /\ plane \in [signal : {"none", "pause", "kill"}, killed : BOOLEAN,
                  approvals : SUBSET Tasks, guidance : Nat, quarantines : SUBSET Tasks,
                  deployPending : BOOLEAN, released : BOOLEAN,
                  manual : {"none", "running", "settled"}]
    /\ decided \in [Tasks -> SUBSET {"approve", "reject"}]
    /\ merged \in [Tasks -> {"no", "auto", "human"}]
    /\ stage \in Stage

SupervisedInit ==
    /\ opts \in [graph : BOOLEAN, interactive : BOOLEAN, deploy : BOOLEAN]
    /\ ~(opts.graph /\ opts.deploy)
    /\ run = [at |-> "open", task |-> NoActive, loop |-> "IMPLEMENTING", rounds |-> 0,
              held |-> FALSE, heard |-> "none", result |-> "none"]
    /\ st = [t \in Tasks |-> "none"]
    /\ returned = [t \in Tasks |-> "none"]
    /\ closed = {}
    /\ plane \in [signal : {"none"}, killed : {FALSE}, approvals : {{}}, guidance : {0},
                  quarantines : {{}, {Head(Order)}}, deployPending : {FALSE},
                  released : {FALSE}, manual : {"none"}]
    /\ decided = [t \in Tasks |-> {}]
    /\ merged = [t \in Tasks |-> "no"]
    /\ limits = [requests |-> MaxRequests, losses |-> MaxLosses]
    /\ StageInit

----------------------------------------------------------------------------

currentState(t) == IF st[t] = "none" THEN "PROPOSED" ELSE st[t]
activeState == IF run.task = NoActive THEN "PROPOSED" ELSE currentState(run.task)

(* A transition that is not legal appends no TASK_STATE.                   *)
After(state, trigger) ==
    LET next == transition(state, trigger)
    IN  IF next = IllegalTransition THEN state ELSE next
Moved(t, trigger) ==
    IF transition(currentState(t), trigger) = IllegalTransition THEN st
    ELSE [st EXCEPT ![t] = transition(currentState(t), trigger)]

Proceed(place) == run' = [run EXCEPT !.at = place]
Told(place, what) == run' = [run EXCEPT !.at = place, !.heard = what]

(* executeTask returns: the task is closed and its lease released.         *)
TaskReturns(state) ==
    /\ returned' = [returned EXCEPT ![run.task] = state]
    /\ closed' = closed \cup {run.task}
    /\ run' = [run EXCEPT !.at = IF opts.graph THEN "select" ELSE "closing", !.held = FALSE,
                          !.heard = "none", !.result = IF opts.graph THEN "none" ELSE state]

Here == UNCHANGED <<returned, closed>>
NoRequest == UNCHANGED <<opts, limits, decided>>
KeepPlane == UNCHANGED <<plane, stage>>
KeepWork == UNCHANGED <<st, merged>>

----------------------------------------------------------------------------

(* Before the plane is up: options that do not fit together throw, a lease *)
(* too short or evidence that cannot be authenticated escalates the run,   *)
(* a graph that does not freeze blocks it.                                 *)
OpenRun ==
    /\ run.at = "open" /\ NoRequest /\ KeepPlane /\ KeepWork /\ Here
    /\ \/ Proceed("select") \/ Proceed("rejected")
       \/ run' = [run EXCEPT !.at = "done", !.result = "ESCALATED"]
       \/ opts.graph /\ run' = [run EXCEPT !.at = "done", !.result = "BLOCKED"]

(* selectNextTask: the first task of the file that has not started in this *)
(* run and whose dependencies all reached a satisfied state.               *)
started(t) == t \in closed \/ st[t] # "none"
Selectable(t) == t \in Graph /\ ~started(t) /\ \A d \in DependsOn[t] : st[d] \in DEP_SATISFIED_STATES
nextTask == SelectInSeq(Order, Selectable)

(* A task is SKIPPED when a dependency ended unsatisfied or is SKIPPED;    *)
(* the run reports the worst end, and a kill outranks them all.            *)
SkippedAfter[n \in Nat] ==
    IF n = 0 THEN {}
    ELSE {t \in Tasks : /\ returned[t] = "none"
                        /\ \E d \in DependsOn[t] :
                               \/ d \in SkippedAfter[n - 1]
                               \/ returned[d] # "none" /\ st[d] \notin DEP_SATISFIED_STATES}
Label(t) ==
    IF returned[t] # "none" THEN returned[t]
    ELSE IF t \in SkippedAfter[Len(Order)] THEN "SKIPPED" ELSE "NOT_STARTED"

RUN_STATE_PRECEDENCE == <<"COMPLETED", "REVIEWING", "BLOCKED", "ESCALATED", "CANCELLED">>
runStateRank(state) ==
    IF state \in Range(RUN_STATE_PRECEDENCE)
    THEN SelectInSeq(RUN_STATE_PRECEDENCE, LAMBDA s : s = state) ELSE 3
runStateResult(killed) ==
    RUN_STATE_PRECEDENCE[Max({runStateRank(Label(t)) : t \in Tasks}
                             \cup (IF killed THEN {runStateRank("CANCELLED")} ELSE {}))]

SelectTask ==
    /\ run.at = "select" /\ NoRequest /\ KeepPlane /\ KeepWork /\ UNCHANGED returned
    /\ IF opts.graph /\ (plane.signal = "kill" \/ nextTask = 0)
       THEN /\ run' = [run EXCEPT !.at = "closing",
                                  !.result = runStateResult(plane.signal = "kill")]
            /\ UNCHANGED closed
       ELSE LET t == IF opts.graph THEN Order[nextTask] ELSE Head(Order)
            IN  \/ /\ run' = [run EXCEPT !.at = "start", !.task = t, !.held = TRUE,
                                         !.rounds = 0, !.loop = "IMPLEMENTING"]
                   /\ UNCHANGED closed
                \/ /\ closed' = closed \cup {t}   \* the lease is held by another run
                   /\ run' = IF opts.graph THEN run
                             ELSE [run EXCEPT !.at = "closing", !.result = "BLOCKED"]

(* The head of executeTask: ownership, then a quarantine approved while no *)
(* run was live, then the branch and the task loop.                        *)
StartTask ==
    /\ run.at = "start" /\ NoRequest /\ KeepPlane /\ UNCHANGED merged
    /\ IF ~run.held THEN TaskReturns("ESCALATED") /\ UNCHANGED st
       ELSE IF run.task \in plane.quarantines
            THEN TaskReturns("QUARANTINED") /\ st' = [st EXCEPT ![run.task] = "QUARANTINED"]
            ELSE /\ Proceed("loop") /\ Here
                 /\ st' = [st EXCEPT ![run.task] = "IMPLEMENTING"]

(* The boundary of an iteration: the control signal, then the guidance.    *)
LoopBoundary ==
    /\ run.at = "loop" /\ NoRequest /\ UNCHANGED <<merged, stage>>
    /\ \/ /\ plane.signal = "kill" /\ UNCHANGED plane
          /\ TaskReturns("CANCELLED") /\ st' = [st EXCEPT ![run.task] = "CANCELLED"]
       \/ /\ plane.signal = "pause" /\ UNCHANGED plane /\ Here
          /\ Proceed("paused") /\ st' = [st EXCEPT ![run.task] = "PAUSED"]
       \/ /\ plane.signal = "none" /\ Here
          /\ Proceed("round") /\ plane' = [plane EXCEPT !.guidance = 0]
          /\ st' = [st EXCEPT ![run.task] = run.loop]

(* A round of proposal, execution and gates: another one, the end of the   *)
(* loop in REVIEWING, or a terminal state.  The loop moves from its own    *)
(* state variable and never reads the log back.                            *)
RoundEnds ==
    /\ run.at = "round" /\ NoRequest /\ KeepPlane /\ UNCHANGED merged
    /\ \/ /\ run.held /\ run.rounds < MaxRounds /\ Here
          /\ run' = [run EXCEPT !.at = "loop", !.loop = "REPAIRING", !.rounds = @ + 1]
          /\ st' = [st EXCEPT ![run.task] = "REPAIRING"]
       \/ /\ run.held /\ Here /\ Proceed("auto_merge")
          /\ st' = [st EXCEPT ![run.task] = "REVIEWING"]
       \/ \E end \in {"BLOCKED", "ESCALATED"} :
              TaskReturns(end) /\ st' = [st EXCEPT ![run.task] = end]

(* post_loop, commit and auto_merge, each behind requireTaskLease, then    *)
(* runAutoMerge: it merged, escalated, or leaves the decision to a human;  *)
(* over the diff budget the task is to be split and there is no package.   *)
MergeFinished(state) ==
    IF state = "COMPLETED" /\ opts.deploy
    THEN /\ Here /\ plane' = [plane EXCEPT !.deployPending = TRUE]
         /\ IF opts.interactive THEN Proceed("deploy_wait") ELSE Told("deploy_decision", "skip")
    ELSE TaskReturns(state) /\ UNCHANGED plane

AutoMerge ==
    /\ run.at = "auto_merge" /\ NoRequest /\ UNCHANGED stage
    /\ \/ /\ ~run.held /\ TaskReturns("ESCALATED") /\ KeepWork /\ UNCHANGED plane
       \/ /\ run.held /\ merged' = [merged EXCEPT ![run.task] = "auto"]
          /\ st' = [st EXCEPT ![run.task] = "COMPLETED"] /\ MergeFinished("COMPLETED")
       \/ /\ run.held /\ TaskReturns("ESCALATED") /\ UNCHANGED <<merged, plane>>
          /\ \/ st' = [st EXCEPT ![run.task] = "ESCALATED"]
             \/ st' = Moved(run.task, "escalate")    \* split_required
       \/ /\ run.held /\ KeepWork /\ Here
          /\ plane' = [plane EXCEPT !.approvals = @ \cup {run.task}]
          /\ IF opts.interactive THEN Proceed("approval_wait") ELSE Told("decision", "reviewing")

ApprovalTimer ==
    /\ run.at = "approval_wait" /\ Told("decision", "timeout")
    /\ NoRequest /\ KeepPlane /\ KeepWork /\ Here

(* What executeTask makes of the outcome it waited for.                    *)
ActOnDecision ==
    /\ run.at = "decision" /\ NoRequest /\ UNCHANGED <<stage, merged>>
    /\ IF ~run.held THEN TaskReturns("ESCALATED") /\ UNCHANGED <<st, plane>>
       ELSE CASE run.heard = "reviewing" -> TaskReturns("REVIEWING") /\ UNCHANGED <<st, plane>>
              [] run.heard = "approve" -> Proceed("approved_merge") /\ Here /\ UNCHANGED <<st, plane>>
              [] run.heard = "reject" -> TaskReturns("CHANGES_REQUESTED") /\ UNCHANGED <<st, plane>>
              [] run.heard = "killed" -> /\ TaskReturns("CANCELLED") /\ UNCHANGED plane
                                         /\ st' = Moved(run.task, "cancel")
              [] OTHER -> /\ TaskReturns("ESCALATED")
                          /\ plane' = [plane EXCEPT !.approvals = @ \ {run.task}]
                          /\ st' = IF run.heard = "timeout" THEN Moved(run.task, "escalate") ELSE st

(* runApprovedMerge moves from the state it was given; a move the machine  *)
(* refuses is logged as an ERROR and the merge goes on.                    *)
ApprovedMerge ==
    /\ run.at = "approved_merge" /\ NoRequest /\ UNCHANGED stage
    /\ LET entry == currentState(run.task)
           queued == After(entry, "merge_queued")
           completed == After(After(queued, "audited"), "completed")
           Ends(state) == st' = [st EXCEPT ![run.task] = state] /\ MergeFinished(state)
       IN  \/ ~run.held /\ TaskReturns("ESCALATED") /\ KeepWork /\ UNCHANGED plane
           \/ run.held /\ Ends(After(entry, "escalate")) /\ UNCHANGED merged
           \/ run.held /\ Ends(After(queued, "escalate")) /\ UNCHANGED merged
           \/ run.held /\ Ends(completed) /\ merged' = [merged EXCEPT ![run.task] = "human"]

(* What executeTask does not catch, a git command or a record of the log   *)
(* that fails, an error the task loop or a merge throws that is not the    *)
(* loss of the lease, rejects the run where it stands: nothing is recorded *)
(* of it, and what a merge had already logged and published stays.         *)
TaskThrows ==
    /\ run.at \in {"start", "loop", "round", "auto_merge", "approved_merge"}
    /\ Proceed("rejected") /\ NoRequest /\ KeepPlane /\ Here
    /\ \/ KeepWork
       \/ \E basis \in {"auto", "human"} :
            LET entry == IF basis = "auto" THEN After(currentState(run.task), "auto_approved")
                         ELSE currentState(run.task)
                queued == After(entry, "merge_queued")
            IN  /\ run.at = IF basis = "auto" THEN "auto_merge" ELSE "approved_merge"
                /\ \/ UNCHANGED merged /\ st' = [st EXCEPT ![run.task] = queued]
                   \/ /\ merged' = [merged EXCEPT ![run.task] = basis]
                      /\ \E logged \in {queued, After(queued, "audited")} :
                             st' = [st EXCEPT ![run.task] = logged]

----------------------------------------------------------------------------

DeployTimer ==
    /\ run.at = "deploy_wait" /\ Told("deploy_decision", "timeout")
    /\ NoRequest /\ KeepPlane /\ KeepWork /\ Here

ActOnDeployDecision ==
    /\ run.at = "deploy_decision" /\ NoRequest /\ KeepWork
    /\ \/ /\ ~run.held /\ TaskReturns("ESCALATED") /\ KeepPlane
       \/ /\ run.held /\ plane' = [plane EXCEPT !.deployPending = FALSE]
          /\ IF run.heard = "approve"
             THEN Proceed("stage") /\ Here /\ \E valid \in BOOLEAN : StartStage(TRUE, valid)
             ELSE TaskReturns("COMPLETED") /\ UNCHANGED stage

StageRuns ==
    /\ run.at = "stage" /\ stage.at # "idle" /\ NoRequest /\ KeepWork
    /\ runDeployStage(run.held)
    /\ UNCHANGED <<run, plane, returned, closed>>

(* The promise of the stage settles: a lost lease ends the task, another   *)
(* error rejects the run, EXPANDED opens the window unless it was released *)
(* while the stage still ran.                                              *)
StageEnds ==
    /\ run.at = "stage" /\ stage.at = "idle" /\ NoRequest /\ KeepWork /\ KeepPlane
    /\ CASE stage.ended = "fenced" -> TaskReturns("ESCALATED")
         [] stage.ended = "thrown" -> Proceed("rejected") /\ Here
         [] stage.ended = "EXPANDED" ->
                Proceed(IF plane.released THEN "window_over" ELSE "window") /\ Here
         [] OTHER -> TaskReturns("COMPLETED")

WindowTimer ==
    /\ run.at = "window" /\ Proceed("window_over")
    /\ NoRequest /\ KeepPlane /\ KeepWork /\ Here

(* defect: the run does not wait for a manual rollback in flight *)
WindowClosesAtOnce ==
    /\ \/ run.at = "window_over"
       \/ run.at = "rollback_wait" /\ plane.manual = "settled"
    /\ NoRequest /\ KeepPlane /\ KeepWork
    /\ TaskReturns("COMPLETED")

(* await manualRollback, then DEPLOY_WINDOW_CLOSED.                        *)
WindowCloses ==
    /\ \/ run.at = "window_over"
       \/ run.at = "rollback_wait" /\ plane.manual = "settled"
    /\ NoRequest /\ KeepPlane /\ KeepWork
    /\ IF plane.manual = "running" THEN Proceed("rollback_wait") /\ Here
       ELSE TaskReturns("COMPLETED")

(* The rollback command of a manual rollback; anything but a lost lease    *)
(* that it throws is caught and recorded as a rollback that failed.        *)
ManualRollbackRuns ==
    /\ plane.manual = "running" /\ run.at # "rejected"
    /\ plane' = [plane EXCEPT !.manual = "settled"]
    /\ \/ \E ok \in BOOLEAN : RollbackRan(run.held, ok)
       \/ StageSettled("ESCALATED")
    /\ UNCHANGED <<run, returned, closed>> /\ NoRequest /\ KeepWork

(* server.close waits for the connections that are open.                   *)
CloseServer ==
    /\ run.at = "closing" /\ Proceed("done")
    /\ NoRequest /\ KeepPlane /\ KeepWork /\ Here

LoseLease ==
    /\ run.held /\ limits.losses > 0
    /\ run' = [run EXCEPT !.held = FALSE]
    /\ limits' = [limits EXCEPT !.losses = @ - 1]
    /\ UNCHANGED <<opts, decided>> /\ KeepPlane /\ KeepWork /\ Here

----------------------------------------------------------------------------

(* handleHumanRequest.  A handler runs to its end before anything else;    *)
(* `owns` is activeLeaseOwns, which nobody refuses before the first task.  *)
Request ==
    /\ run.at \in Awaiting /\ limits.requests > 0
    /\ run.at = "stage" => stage.at # "idle"
    /\ limits' = [limits EXCEPT !.requests = @ - 1]
    /\ UNCHANGED <<opts, merged, returned, closed>>
owns == run.task = NoActive \/ run.held

Woken(place, next, what) ==
    IF run.at = place THEN Told(next, what) ELSE UNCHANGED run

(* POST /approvals/<task>, of a package pending, not while the active task *)
(* is PAUSED, with all attestations of an approval.                        *)
onEvidenceInvalid(t) ==
    /\ st' = IF owns THEN Moved(t, "escalate") ELSE st
    /\ Woken("approval_wait", "decision", "evidence_invalid")
    /\ UNCHANGED <<plane, decided>>

onDecision(t, decision) ==
    LET trigger == IF decision = "approve" THEN "human_approved" ELSE "changes_requested"
    IN  /\ owns /\ transition(currentState(t), trigger) # IllegalTransition
        /\ st' = Moved(t, trigger)
        /\ decided' = [decided EXCEPT ![t] = @ \cup {decision}]
        /\ plane' = [plane EXCEPT !.approvals = @ \ {t}]
        /\ Woken("approval_wait", "decision", decision)

Decide ==
    /\ Request /\ activeState # "PAUSED" /\ UNCHANGED stage
    /\ \E t \in plane.approvals, decision \in {"approve", "reject"} :
           onEvidenceInvalid(t) \/ onDecision(t, decision)

Kill ==
    /\ Request /\ UNCHANGED <<st, stage, decided>>
    /\ plane' = [plane EXCEPT !.signal = "kill", !.killed = TRUE,
                          !.released = @ \/ run.at \in {"stage", "window"}]
    /\ CASE run.at = "approval_wait" -> Told("decision", "killed")
         [] run.at = "deploy_wait" -> Told("deploy_decision", "killed")
         [] run.at = "window" -> Proceed("window_over")
         [] run.at = "paused" -> Proceed("loop")
         [] OTHER -> UNCHANGED run

STEERABLE == (ActiveStates \ {"MERGE_QUEUED", "AUDITED"}) \cup {"PAUSED"}

Pause ==
    /\ Request /\ activeState \in STEERABLE /\ plane.signal # "kill"
    /\ plane' = [plane EXCEPT !.signal = "pause"]
    /\ UNCHANGED <<run, st, stage, decided>>

(* defect: a resume replaces a kill *)
resumeAnything(signal) == "none"

requestResume(signal) == IF signal = "kill" THEN "kill" ELSE "none"
Resume ==
    /\ Request
    /\ plane' = [plane EXCEPT !.signal = requestResume(plane.signal)]
    /\ IF run.at = "paused" THEN Proceed("loop") ELSE UNCHANGED run
    /\ UNCHANGED <<st, stage, decided>>

(* Guidance, at once in PAUSED or queued for the next boundary.            *)
Inject ==
    /\ Request /\ owns /\ activeState \in STEERABLE
    /\ plane' = [plane EXCEPT !.guidance = @ + 1]
    /\ UNCHANGED <<run, st, stage, decided>>

(* A flaky_quarantine approved live: the log gets the transition, the loop *)
(* that runs the task is not told.                                         *)
Quarantine ==
    /\ Request
    /\ \E t \in Tasks \ plane.quarantines :
           /\ plane' = [plane EXCEPT !.quarantines = @ \cup {t}]
           /\ st' = Moved(t, "quarantine")
    /\ UNCHANGED <<run, stage, decided>>

(* POST /deploy/decision: only an approval has its evidence checked.       *)
DeployDecide ==
    /\ Request /\ plane.deployPending /\ UNCHANGED <<st, plane, decided>>
    /\ \/ /\ Woken("deploy_wait", "deploy_decision", "evidence_invalid")
          /\ stage' = IF owns THEN [stage EXCEPT !.state = "ESCALATED"] ELSE stage
       \/ /\ owns /\ UNCHANGED stage
          /\ \E decision \in {"approve", "reject"} :
                 Woken("deploy_wait", "deploy_decision", decision)

(* POST /deploy/rollback, from EXPANDED only.  runManualRollback records   *)
(* ROLLING_BACK before it yields; without the lease it does nothing and    *)
(* the answer is still ok.                                                 *)
ManualRollback ==
    /\ Request /\ stage.state = "EXPANDED"
    /\ IF owns THEN runRollback ELSE UNCHANGED stage
    /\ plane' = [plane EXCEPT !.released = TRUE, !.manual = IF owns THEN "running" ELSE "settled"]
    /\ Woken("window", "window_over", "none")
    /\ UNCHANGED <<st, decided>>

HumanPlane ==
    \/ Decide \/ Kill \/ Pause \/ Resume \/ Inject \/ Quarantine \/ DeployDecide \/ ManualRollback

SupervisedNext ==
    \/ OpenRun \/ SelectTask \/ StartTask \/ LoopBoundary \/ RoundEnds
    \/ AutoMerge \/ ApprovalTimer \/ ActOnDecision \/ ApprovedMerge \/ TaskThrows
    \/ DeployTimer \/ ActOnDeployDecision \/ StageRuns \/ StageEnds \/ WindowTimer \/ WindowCloses
    \/ ManualRollbackRuns \/ CloseServer \/ LoseLease \/ HumanPlane

SupervisedSpec == SupervisedInit /\ [][SupervisedNext]_supervisedVars

----------------------------------------------------------------------------

(* What the run says at its end of the deployment: a stage that neither    *)
(* lost its lease nor threw never leaves CANARY, OBSERVING or ROLLING_BACK *)
(* as the last word of the log, a manual rollback in the window included.  *)
DeploySettles ==
    run.at = "done" /\ stage.ended # "fenced" =>
        stage.state \in {"none", "EXPANDED", "ROLLED_BACK", "ESCALATED"}

(* A kill is final: no resume, pause or decision after it lets the run     *)
(* start another task or another round, and a graph then ends CANCELLED.   *)
KillIsFinal ==
    [][plane.killed =>
          /\ run'.task = run.task
          /\ run'.at = "round" => run.at = "round"
          /\ opts.graph /\ run.at = "select" /\ run'.at = "closing" =>
                 run'.result = "CANCELLED"]_supervisedVars

(* loop-run.ts lets a decision reach only the task it names: what a human  *)
(* had merged, that human approved.                                        *)
MergedOnItsOwnApproval ==
    \A t \in Tasks : merged[t] = "human" => "approve" \in decided[t]

=============================================================================
