------------------------------ MODULE MCServices ------------------------------
(* The services around the task loop for TLC.  They share no variables: they  *)
(* meet through the event log, whose part each models, and through the values *)
(* they hand over.  So one run checks them side by side: `part` says which of *)
(* them a behaviour is about, and the others stay in one initial state.       *)
EXTENDS SupervisedRun, PrGate, EvidenceStore, Proposals, Fusion,
        Governance, TaskGraph, Console, RunRecords, TLC

CONSTANTS call1, call2

VARIABLE part

services ==
    <<gateVars, supervisedVars, prVars, storeVars, sourceVars, fusionVars, govVars,
      planVars, consoleVars, oobVars, adapterVars, conformanceVars>>

------------------------------------------------------------------------------
(* Gate runner: a full ladder, one without full tests, one that does not parse. *)
AllChecks == Key0 \cup Key1
MCLadders ==
    {[parses |-> TRUE, set |-> AllChecks \cup {"build", "fullGolden"}, fallback |-> TRUE,
      t2 |-> "real", convention |-> TRUE],
     [parses |-> TRUE, set |-> AllChecks \ {"fullTests"}, fallback |-> TRUE, t2 |-> "status",
      convention |-> FALSE],
     [parses |-> FALSE, set |-> {}, fallback |-> FALSE, t2 |-> "absent", convention |-> TRUE]}

(* Supervised run: two independent tasks. *)
MCOrder == <<"t1", "t2">>
MCDependsOn == [t \in {"t1", "t2"} |-> {}]

(* PR gate: two runs, two callers of override with one key. *)
MCRuns == <<1, 2>>
MCRepositoryPolicies == {organizationPolicy, [organizationPolicy EXCEPT !.blocking = 4]}
MCChanges == {{"code"}}
MCCheckOutcomes == {{"exit_0"}, {"timed_out"}}
MCJudgeResults == {{}, {[class |-> "UNVERIFIED", severity |-> 3]}}
MCPanels == {[i \in 1..4 |-> [status |-> "SUCCEEDED", cost |-> 0]]}
MCCalls == {call1, call2}

(* Proposal source and fusion: two adapters of two lineages. *)
MCTraits ==
    [x |-> [structured |-> TRUE, lineage |-> "l1", probed |-> TRUE],
     y |-> [structured |-> TRUE, lineage |-> "l2", probed |-> FALSE]]
OneAdapter == Register(EmptyPool, "x", TRUE, 0)
TwoAdapters == Register(OneAdapter, "y", TRUE, 1)
MCPools == {OneAdapter, TwoAdapters}
MCRegistrations == {TwoAdapters}

MCPathList == <<"a", "b", "s">>
MCImports == [a |-> <<>>, b |-> <<>>, s |-> <<"b">>]
MCSeeds == <<"s">>
MCWorktrees ==
    {[a |-> "plain", b |-> "plain", s |-> "plain"], [a |-> "secret", b |-> "secret", s |-> "plain"],
     [a |-> "absent", b |-> "link", s |-> "plain"], [a |-> "plain", b |-> "absent", s |-> "secret"]}
MCRawPolicies == {[cap |-> 1, maxParallel |-> 2, buckets |-> {}, mode |-> "active", epsilon |-> 10]}
MCDataPolicies ==
    [x |-> [allowPaths |-> {"a", "b", "s"}, pathlessKinds |-> {"excerpt", "feedback"}],
     y |-> [allowPaths |-> {"s", "b"}, pathlessKinds |-> {"excerpt"}]]
MCLessons == {[id |-> "l1", secret |-> FALSE], [id |-> "l2", secret |-> TRUE]}
MCRoundInputs ==
    {[role |-> "implementer", untrusted |-> TRUE, excluded |-> {}, feedback |-> FALSE],
     [role |-> "implementer", untrusted |-> FALSE, excluded |-> {}, feedback |-> TRUE]}
ReadFile(p) == [type |-> "READ_FILE", path |-> p]
WriteFile(p) == [type |-> "WRITE_FILE", path |-> p]
MCSendAnswers ==
    {[claim |-> "WORKING", actions |-> <<ReadFile("a"), WriteFile("a")>>],
     [claim |-> "WORKING", actions |-> <<ReadFile("b"), ReadFile("a"), ReadFile("malformed")>>],
     [claim |-> "READY_FOR_VERIFICATION", actions |-> <<WriteFile("s"), WriteFile("a")>>]}

Profile(a, r, div, names, size, est, cap) ==
    [artifact |-> a, resolve |-> r, diversity |-> div, names |-> names, size |-> size,
     estimate |-> est, cap |-> cap]
MCRawProfiles ==
    {Profile("plan", "deliberate_synthesis", "cross_lineage", <<"l1", "l2">>, 2, 1, 3),
     Profile("code_diff", "evidence_tournament", "self", <<"1", "2", "3">>, 3, 1, 2),
     Profile("tests", "union_red_check", "cross_lineage", <<"l1", "l2">>, 2, 1, 2),
     Profile("tests", "evidence_tournament", "cross_lineage", <<"l1", "l2">>, 2, 1, 2)}
MCCeilings == {[maxParallel |-> 3, ceiling |-> 2]}
MCBuckets == [x |-> 1]
MCBudgets == {-1, 3}
PanelWrite(p, c) == [type |-> "WRITE_FILE", path |-> p, content |-> c]
PanelAnswer(k, u, a, i, f) == [kind |-> k, usage |-> u, actions |-> a, items |-> i, fits |-> f]
MCPanelAnswers ==
    {PanelAnswer("ok", 1, {PanelWrite("t", "1")}, {[key |-> "h", weight |-> 1]}, TRUE),
     PanelAnswer("ok", 1, {PanelWrite("t", "2"), PanelWrite("u", "2")}, {[key |-> "h", weight |-> 2]}, FALSE),
     PanelAnswer("transport", 0, {}, {}, FALSE), PanelAnswer("ok", -1, {}, {}, FALSE)}

(* Task graph: three tasks under all shapes of dependencies, unknown, double   *)
(* and cyclic ones included, and graphs and contracts broken in one place.     *)
PlanTask(id, dep, sat, en, r, d) ==
    [id |-> id, branchSafe |-> TRUE, satisfies |-> sat, dependsOn |-> dep, enabling |-> en,
     risk |-> r, diffBudget |-> d]
Dependencies ==
    {<<>>, <<"a">>, <<"b">>, <<"c">>, <<"a", "b">>, <<"b", "b">>, <<"c", "b">>, <<"a", "c">>, <<"x">>}
ThreeTasks ==
    {[wellFormed |-> TRUE, goal |-> "g", maxDiff |-> 5,
      tasks |-> <<PlanTask("a", d1, {"ac1"}, FALSE, -1, -1), PlanTask("b", d2, {"ac1"}, FALSE, 1, 4),
                  PlanTask("c", d3, {}, TRUE, -1, -1)>>]
     : d1 \in Dependencies, d2 \in Dependencies, d3 \in Dependencies}
OneTask ==
    [wellFormed |-> TRUE, goal |-> "g", maxDiff |-> 5,
     tasks |-> <<PlanTask("a", <<>>, {"ac1"}, FALSE, -1, -1)>>]
MCParsedGraphs ==
    ThreeTasks \cup
    {[OneTask EXCEPT !.wellFormed = FALSE], [OneTask EXCEPT !.goal = "h"], [OneTask EXCEPT !.tasks = <<>>],
     [OneTask EXCEPT !.tasks = @ \o @], [OneTask EXCEPT !.tasks[1].branchSafe = FALSE],
     [OneTask EXCEPT !.tasks[1].satisfies = {"ac9"}], [OneTask EXCEPT !.tasks[1].satisfies = {}],
     [OneTask EXCEPT !.tasks[1].risk = 4], [OneTask EXCEPT !.tasks[1].diffBudget = 6]}
OneContract ==
    [wellFormed |-> TRUE, goal |-> "g", criteria |-> {"ac1"}, maxTotalTasks |-> 3, risk |-> -1,
     deploy |-> <<>>]
MCParsedContracts ==
    {OneContract, [OneContract EXCEPT !.maxTotalTasks = 0], [OneContract EXCEPT !.criteria = {}],
     [OneContract EXCEPT !.deploy = <<[probes |-> 1, failureThreshold |-> 1]>>],
     [OneContract EXCEPT !.deploy = <<[probes |-> 2, failureThreshold |-> 1]>>]}
MCUndeclared == -1

(* Out-of-band audit: reruns that agree, differ, and differ by a flake. *)
MCFoldValue == [m \in Merged |-> 60]
MCReruns ==
    {[norm |-> "merged", hard |-> FALSE, flaky |-> FALSE], [norm |-> "broken", hard |-> TRUE, flaky |-> FALSE],
     [norm |-> "flake", hard |-> FALSE, flaky |-> TRUE]}

(* Vendor adapter: ends with a usable and two unusable outputs, and errors whose *)
(* text says nothing, two things at once, or what a caller's abort says.        *)
Ending(ok, output, words) == [ok |-> ok, output |-> output, words |-> words]
MCEndings ==
    {Ending(TRUE, "answer", {}), Ending(TRUE, "garbage", {}), Ending(TRUE, "bad_usage", {}),
     Ending(FALSE, "none", {}), Ending(FALSE, "none", {"quota_limited", "timed_out"}),
     Ending(FALSE, "none", {"cancelled"})}

------------------------------------------------------------------------------
ConsoleParts == {"chat", "terminal", "schedule", "proxy", "issues", "config", "login"}
Parts ==
    {"gate", "run", "pr", "store", "source", "fusion", "governance", "plan", "audit", "adapter",
     "conformance"} \cup ConsoleParts

(* Away from its part, a component that has several initial states keeps one. *)
MCInit ==
    /\ part \in Parts
    /\ PrGateInit /\ StoreInit
    /\ GateInit
    /\ part = "gate" \/ gate.config = CHOOSE c \in MCLadders : TRUE
    /\ SupervisedInit
    /\ \/ part = "run"
       \/ /\ opts = [graph |-> FALSE, interactive |-> FALSE, deploy |-> FALSE]
          /\ plane.quarantines = {}
    /\ ProposalInit
    /\ FusionInit
    /\ \/ part = "fusion"
       \/ /\ fus.pool = OneAdapter
          /\ fus.profiles = {CHOOSE p \in MCRawProfiles : p.artifact = "plan"}
    /\ GovernanceInit
    /\ \/ part = "governance"
       \/ policyFiles = (CHOOSE s \in Snapshots : TRUE) /\ govLog = <<>>
    /\ ConsoleInit
    /\ part = "config" \/ config.file = NoFile
    /\ part = "login" \/ login.kind = "basic"
    /\ OobInit
    /\ AdapterInit
    /\ part = "adapter" \/ transport = "cli"
    /\ ConformanceInit
    /\ part = "conformance" \/ (fake.behavior = "compliant" /\ fake.fault = "none")
    /\ PlanInit
    /\ \/ part = "plan"
       \/ plan.contract = OneContract /\ plan.graph = [OneTask EXCEPT !.goal = "h"]

(* What a step of one part leaves alone: every other component. *)
OthersKept ==
    /\ UNCHANGED part
    /\ IF part = "gate"       THEN TRUE ELSE UNCHANGED gateVars
    /\ IF part = "run"        THEN TRUE ELSE UNCHANGED supervisedVars
    /\ IF part = "pr"         THEN TRUE ELSE UNCHANGED prVars
    /\ IF part = "store"      THEN TRUE ELSE UNCHANGED storeVars
    /\ IF part = "source"     THEN TRUE ELSE UNCHANGED sourceVars
    /\ IF part = "fusion"     THEN TRUE ELSE UNCHANGED fusionVars
    /\ IF part = "governance" THEN TRUE ELSE UNCHANGED govVars
    /\ IF part = "plan"       THEN TRUE ELSE UNCHANGED planVars
    /\ IF part = "audit"      THEN TRUE ELSE UNCHANGED oobVars
    /\ IF part = "adapter"    THEN TRUE ELSE UNCHANGED adapterVars
    /\ IF part = "conformance" THEN TRUE ELSE UNCHANGED conformanceVars
    /\ IF part \in ConsoleParts THEN TRUE ELSE UNCHANGED consoleVars

MCNext ==
    \/ part = "gate" /\ GateNext /\ OthersKept
    \/ part = "run" /\ SupervisedNext /\ OthersKept
    \/ part = "pr" /\ PrGateNext /\ OthersKept
    \/ part = "store" /\ StoreNext /\ OthersKept
    \/ part = "source" /\ ProposalNext /\ OthersKept
    \/ part = "fusion" /\ FusionNext /\ OthersKept
    \/ part = "governance" /\ GovernanceNext /\ OthersKept
    \/ part = "plan" /\ PlanNext /\ OthersKept
    \/ part = "audit" /\ OobNext /\ OthersKept
    \/ part = "adapter" /\ AdapterNext /\ OthersKept
    \/ part = "conformance" /\ ConformanceNext /\ OthersKept
    \/ part = "chat" /\ ChatNext /\ OthersKept
    \/ part = "terminal" /\ (TermNext \/ PruneNext) /\ OthersKept
    \/ part = "schedule" /\ SchedNext /\ OthersKept
    \/ part = "proxy" /\ ProxyNext /\ OthersKept
    \/ part = "issues" /\ IssueNext /\ OthersKept
    \/ part = "config" /\ ConfigNext /\ OthersKept
    \/ part = "login" /\ LoginNext /\ OthersKept

MCSpec == MCInit /\ [][MCNext]_<<services, part>>

(* Bound: the second call of override (they are alike) comes after the first *)
(* and only while there is one run; two runs are checked with one call.       *)
PrBound ==
    part = "pr" => \/ calls[call2].at = "idle"
                   \/ runs[2] = NoGateRun /\ calls[call1].at # "idle"

ServicesTypeOK ==
    CASE part = "gate"       -> GateTypeOK
      [] part = "run"        -> SupervisedTypeOK
      [] part = "pr"         -> PrGateTypeOK
      [] part = "store"      -> StoreTypeOK
      [] part = "source"     -> ProposalTypeOK
      [] part = "fusion"     -> FusionTypeOK
      [] part = "governance" -> GovernanceTypeOK
      [] part = "plan"       -> PlanTypeOK
      [] part = "audit"      -> OobTypeOK
      [] part = "adapter"    -> AdapterTypeOK
      [] part = "conformance" -> ConformanceTypeOK
      [] OTHER               -> ConsoleTypeOK

==============================================================================
