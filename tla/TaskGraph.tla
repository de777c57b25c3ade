------------------------------- MODULE TaskGraph -------------------------------
(* Planning: a goal contract is frozen (core/contract/contract.ts), a task     *)
(* graph is gated against it and frozen (core/graph/graph.ts), and the run     *)
(* takes the tasks of the frozen graph one by one (core/graph/select.ts).      *)
(*                                                                             *)
(* Strings that only have to be present are a flag of the input (wellFormed);  *)
(* risks are 0..4 for L0..L4; a diff budget or risk left out is Undeclared.    *)
(* Kahn's algorithm is taken step by step, as the code's loop over its queue.  *)
EXTENDS TaskMachine, Integers, Sequences, FiniteSets, SequencesExt

CONSTANTS
    ParsedContracts,  \* contracts as parsed, well formed or not
    ParsedGraphs,     \* graphs as parsed, well formed or not
    Undeclared        \* a risk or diff budget the author left out (not a number in range: -1)

\* A task of a graph that is well formed.
ParsedTask ==
    [id : STRING, branchSafe : BOOLEAN, satisfies : SUBSET STRING, dependsOn : Seq(STRING),
     enabling : BOOLEAN, risk : Int, diffBudget : Int]

ASSUME TaskGraphAssumption ==
    /\ Undeclared \in Int /\ Undeclared < 0
    /\ \A g \in ParsedGraphs :
          /\ DOMAIN g = {"wellFormed", "goal", "tasks", "maxDiff"}
          /\ g.wellFormed => g.tasks \in Seq(ParsedTask) /\ g.maxDiff \in Int
    /\ \A c \in ParsedContracts :
          DOMAIN c = {"wellFormed", "goal", "criteria", "maxTotalTasks", "risk", "deploy"}

VARIABLES
    plan,       \* [pc, contract, graph, reasons, frozen]
    kahn,       \* [queue, at, indegree, ordered]: the loop of unorderableTaskIds
    outcomes    \* task id -> the state it ended in, for the tasks started

planVars == <<plan, kahn, outcomes>>

RISK_LEVELS == 0..4
DefaultRisk == 2

OtherEndStates == {"ESCALATED", "QUARANTINED"}
HeldOut == "held_out"   \* the task's lease was another run's: closed, never started

-----------------------------------------------------------------------------
(* Freezing a contract stops at the first thing wrong with it.                 *)
ProbesCanRollBack(deploy) ==
    \/ deploy = <<>>
    \/ LET d == deploy[1]
       IN  d.probes >= 1 /\ d.failureThreshold >= 0 /\ d.failureThreshold < d.probes

ContractIsValid(c) ==
    /\ c.wellFormed
    /\ c.criteria # {}
    /\ c.maxTotalTasks >= 1
    /\ c.risk \in RISK_LEVELS \cup {Undeclared}
    /\ ProbesCanRollBack(c.deploy)

FrozenContract(c) == [c EXCEPT !.risk = IF @ = Undeclared THEN DefaultRisk ELSE @]

freezeContract ==
    /\ plan.pc = "contract"
    /\ plan' = IF ContractIsValid(plan.contract)
               THEN [plan EXCEPT !.pc = "graph", !.contract = FrozenContract(@)]
               ELSE [plan EXCEPT !.pc = "rejected"]
    /\ UNCHANGED <<kahn, outcomes>>

-----------------------------------------------------------------------------
(* The gate of the graph collects everything that is wrong.                    *)
KnownIds(tasks) == {tasks[i].id : i \in DOMAIN tasks}
Cited(tasks) == UNION {tasks[i].satisfies : i \in DOMAIN tasks}

\* A later task of the same id replaces the edges of an earlier one (a Map).
DeclaredLast(tasks, id) ==
    tasks[CHOOSE i \in DOMAIN tasks : tasks[i].id = id /\ \A j \in DOMAIN tasks : tasks[j].id = id => j <= i]

DepsOf(tasks, id) == DeclaredLast(tasks, id).dependsOn

\* Edges to the task itself or to no task at all are reported on their own; an edge
\* listed twice is two.
Resolvable(tasks, id) ==
    {k \in DOMAIN DepsOf(tasks, id) :
        DepsOf(tasks, id)[k] # id /\ DepsOf(tasks, id)[k] \in KnownIds(tasks)}

OverCeiling(declared, ceiling) == declared # Undeclared /\ declared > ceiling

NamesItself(t) == \E k \in DOMAIN t.dependsOn : t.dependsOn[k] = t.id
NamesNone(tasks, t) == \E k \in DOMAIN t.dependsOn : t.dependsOn[k] \notin KnownIds(tasks)

ReasonIf(found, reason) == IF found THEN {reason} ELSE {}

GateReasons(tasks, g, c) ==
    LET N == DOMAIN tasks
    IN  ReasonIf(\E i, j \in N : tasks[i].id = tasks[j].id /\ i # j, "duplicate_id")
        \cup ReasonIf(\E i \in N : ~tasks[i].branchSafe, "branch_unsafe")
        \cup ReasonIf(g.goal # c.goal, "goal_mismatch")
        \cup ReasonIf(~(Cited(tasks) \subseteq c.criteria), "unknown_criterion")
        \cup ReasonIf(~(c.criteria \subseteq Cited(tasks)), "uncovered_criterion")
        \cup ReasonIf(\E i \in N : tasks[i].satisfies = {} /\ ~tasks[i].enabling, "orphan")
        \cup ReasonIf(\E i \in N : NamesItself(tasks[i]), "self_dependency")
        \cup ReasonIf(\E i \in N : NamesNone(tasks, tasks[i]), "unknown_dependency")
        \cup ReasonIf(Len(tasks) > c.maxTotalTasks, "too_many_tasks")
        \cup ReasonIf(\E i \in N : OverCeiling(tasks[i].diffBudget, g.maxDiff), "diff_budget")
        \cup ReasonIf(\E i \in N : OverCeiling(tasks[i].risk, c.risk), "risk_ceiling")
        \cup ReasonIf(c.deploy # <<>>, "deploy_block")

\* The structure is checked again, and nothing else if it is broken.
declaredGraph(g) == g.wellFormed /\ g.tasks # <<>> /\ g.maxDiff >= 1

(* defect: the in-degree counts a dependency listed twice once *)
UnstartedDistinct(tasks) ==
    LET indegree == [id \in KnownIds(tasks) |->
                        Cardinality({DepsOf(tasks, id)[k] : k \in Resolvable(tasks, id)})]
        free     == SetToSeq({i \in DOMAIN tasks : indegree[tasks[i].id] = 0})
    IN  [queue |-> [j \in DOMAIN free |-> tasks[free[j]].id], at |-> 1,
         indegree |-> indegree, ordered |-> {}]

\* What waits for nothing is queued, an id declared twice twice (the order in the queue
\* makes no difference).
Unstarted(tasks) ==
    LET indegree == [id \in KnownIds(tasks) |-> Cardinality(Resolvable(tasks, id))]
        free     == SetToSeq({i \in DOMAIN tasks : indegree[tasks[i].id] = 0})
    IN  [queue |-> [j \in DOMAIN free |-> tasks[free[j]].id], at |-> 1,
         indegree |-> indegree, ordered |-> {}]

freezeTaskGraph ==
    LET g == plan.graph
    IN  /\ plan.pc = "graph"
        /\ IF declaredGraph(g)
           THEN /\ plan' = [plan EXCEPT !.pc = "ordering", !.reasons = GateReasons(g.tasks, g, plan.contract)]
                /\ kahn' = Unstarted(g.tasks)
           ELSE /\ plan' = [plan EXCEPT !.pc = "rejected"]
                /\ UNCHANGED kahn
        /\ UNCHANGED outcomes

(* defect: an edge listed twice counts once *)
EdgesOnce(tasks, next, id) ==
    IF \E k \in Resolvable(tasks, next) : DepsOf(tasks, next)[k] = id THEN 1 ELSE 0

\* How often task `next` names `id`.
Edges(tasks, next, id) == Cardinality({k \in Resolvable(tasks, next) : DepsOf(tasks, next)[k] = id})

\* One turn of the loop: the next id of the queue is ordered, and what waited for
\* nothing else is queued, once each.
OrderNext ==
    LET tasks == plan.graph.tasks
        id    == kahn.queue[kahn.at]
        left  == [n \in DOMAIN kahn.indegree |-> kahn.indegree[n] - Edges(tasks, n, id)]
        ready == {n \in DOMAIN left : left[n] = 0 /\ kahn.indegree[n] > 0}
    IN  /\ plan.pc = "ordering"
        /\ kahn.at <= Len(kahn.queue)
        /\ kahn' = IF id \in kahn.ordered
                   THEN [kahn EXCEPT !.at = @ + 1]
                   ELSE [queue    |-> kahn.queue \o SetToSeq(ready),
                         at       |-> kahn.at + 1,
                         indegree |-> left,
                         ordered  |-> kahn.ordered \cup {id}]
        /\ UNCHANGED <<plan, outcomes>>

unorderableTaskIds == KnownIds(plan.graph.tasks) \ kahn.ordered

\* Effective risk and diff budget are baked into the frozen graph.
FrozenTask(t, g, c) ==
    [t EXCEPT !.risk = IF @ = Undeclared THEN c.risk ELSE @,
              !.diffBudget = IF @ = Undeclared THEN g.maxDiff ELSE @]

CloseGate ==
    LET g       == plan.graph
        reasons == plan.reasons \cup (IF unorderableTaskIds = {} THEN {} ELSE {"cycle"})
    IN  /\ plan.pc = "ordering"
        /\ kahn.at > Len(kahn.queue)
        /\ plan' = IF reasons # {}
                   THEN [plan EXCEPT !.pc = "rejected", !.reasons = reasons]
                   ELSE [plan EXCEPT !.pc = "running",
                            !.graph.tasks = [i \in DOMAIN g.tasks |-> FrozenTask(g.tasks[i], g, plan.contract)]]
        /\ UNCHANGED <<kahn, outcomes>>

-----------------------------------------------------------------------------
(* The run takes the first task of the file that is not started and whose      *)
(* dependencies are satisfied; the run ends when there is none.  (The lease of *)
(* each task, the kill and the task itself are modelled in SupervisedRun.)     *)
Started(id) == id \in DOMAIN outcomes

Satisfied(t) ==
    \A k \in DOMAIN t.dependsOn :
        Started(t.dependsOn[k]) /\ outcomes[t.dependsOn[k]] \in DEP_SATISFIED_STATES

Eligible(tasks) == {i \in DOMAIN tasks : ~Started(tasks[i].id) /\ Satisfied(tasks[i])}

selectNextTask(tasks) == CHOOSE i \in Eligible(tasks) : \A j \in Eligible(tasks) : i <= j

RunTask ==
    LET tasks == plan.graph.tasks
    IN  /\ plan.pc = "running"
        /\ Eligible(tasks) # {}
        /\ \E state \in {"COMPLETED", "REVIEWING", HeldOut} \cup OtherEndStates :
              outcomes' = [id \in DOMAIN outcomes \cup {tasks[selectNextTask(tasks)].id} |->
                              IF Started(id) THEN outcomes[id] ELSE state]
        /\ UNCHANGED <<plan, kahn>>

NoTaskLeft ==
    /\ plan.pc = "running"
    /\ Eligible(plan.graph.tasks) = {}
    /\ plan' = [plan EXCEPT !.pc = "ended"]
    /\ UNCHANGED <<kahn, outcomes>>

PlanInit ==
    /\ \E c \in ParsedContracts, g \in ParsedGraphs :
          plan = [pc |-> "contract", contract |-> c, graph |-> g, reasons |-> {}]
    /\ kahn = [queue |-> <<>>, at |-> 1, indegree |-> <<>>, ordered |-> {}]
    /\ outcomes = <<>>

PlanNext == freezeContract \/ freezeTaskGraph \/ OrderNext \/ CloseGate \/ RunTask \/ NoTaskLeft

PlanSpec == PlanInit /\ [][PlanNext]_planVars

-----------------------------------------------------------------------------
\* The shape of the plan and of the loop over the queue.
PlanTypeOK ==
    /\ plan.pc \in {"contract", "graph", "ordering", "rejected", "running", "ended"}
    /\ kahn.at \in 1..(Len(kahn.queue) + 1)
    /\ \A id \in DOMAIN kahn.indegree : kahn.indegree[id] >= 0
    /\ \A id \in DOMAIN outcomes : outcomes[id] \in DEP_SATISFIED_STATES \cup OtherEndStates \cup {HeldOut}

\* What the algorithm has to find: the tasks of every set in which each one waits
\* for another of the set, that is, cycles and whatever lies behind them.
CycleBound(tasks) ==
    UNION {S \in SUBSET KnownIds(tasks) :
              \A id \in S : \E k \in Resolvable(tasks, id) : DepsOf(tasks, id)[k] \in S}

\* When the loop is done, exactly the tasks on or behind a cycle are left over,
\* edges listed twice and ids declared twice included.
OrderingIsExact ==
    plan.pc = "ordering" /\ kahn.at > Len(kahn.queue)
        => unorderableTaskIds = CycleBound(plan.graph.tasks)

\* A run over an accepted graph ends with a task never started only because some
\* task it took up ended badly or was held by another run; and if none did, every acceptance criterion of the
\* contract was worked on.
NoTaskIsStranded ==
    plan.pc = "ended" =>
        \/ \E id \in DOMAIN outcomes : outcomes[id] \notin DEP_SATISFIED_STATES
        \/ /\ \A i \in DOMAIN plan.graph.tasks : Started(plan.graph.tasks[i].id)
           /\ plan.contract.criteria \subseteq
                 UNION {plan.graph.tasks[i].satisfies : i \in DOMAIN plan.graph.tasks}

\* Both together.
PlanIsRunnable == OrderingIsExact /\ NoTaskIsStranded
=============================================================================
