--------------------------------- MODULE Fusion ---------------------------------
(* Fusion panels: runFusion (aal/src/fusion/run.ts) with its profile loader    *)
(* (profiles.ts), the bounded dispatcher and token buckets it fans out through *)
(* (dispatch.ts, ratelimit.ts), the resolve rules (resolve.ts), and the two    *)
(* callers of console/backend/src/fusion.ts: the per-task fusion.deliberate    *)
(* tool with its depth of one, and the planner that runs before the task loop. *)
(* Workers interleave at their awaits: a token, an answer.                     *)
EXTENDS AdapterPool

CONSTANTS
    FusionPools,       \* the pools the router may look at
    RawProfiles,       \* the profiles fusion-profiles.json may hold
    Ceilings,          \* [maxParallel, ceiling] a composition may choose
    Buckets,           \* adapter -> capacity of its bucket, for the adapters that have one
    Budgets,           \* the budgets of the base request
    PanelAnswers,      \* what a panel member may answer: [kind, usage, actions, items, fits]
    EvidenceRunner,    \* the composition supplies a candidate runner
    MaxRefills,        \* bound of the model: refills of the buckets
    MaxActivations     \* bound of the model: requests for a fusion in one task

VARIABLES fus, tokens

fusionVars == <<fus, tokens>>

\* A profile of the file whose fields have the right types (an amount is a number).
RawProfile ==
    [artifact : STRING, resolve : STRING, diversity : {"self", "cross_lineage"}, names : Seq(STRING),
     size : Int, estimate : Int, cap : Int]

ASSUME FusionAssumption ==
    /\ RawProfiles \subseteq RawProfile
    /\ Ceilings \subseteq [maxParallel : Int, ceiling : Int]
    /\ Budgets \subseteq Int
    /\ Buckets \in [DOMAIN Buckets -> Nat]
    /\ MaxActivations \in Nat

Artifacts == {"plan", "code_diff", "tests", "hypotheses", "reviews"}

RESOLVE_FOR ==
    [plan |-> "deliberate_synthesis", code_diff |-> "evidence_tournament", tests |-> "union_red_check",
     hypotheses |-> "union_rank_probe_cost", reviews |-> "weighted_ensemble"]

\* parseFusionProfile: a profile that contradicts the fixed mapping or lacks an estimate is refused.
parseFusionProfile(raw) ==
    /\ raw.artifact \in Artifacts
    /\ raw.resolve = RESOLVE_FOR[raw.artifact]
    /\ raw.estimate > 0
    /\ raw.size >= 2
    /\ raw.cap > 0
    /\ raw.diversity = "cross_lineage" => raw.names # <<>>

\* parseFusionProfiles: every profile parses and no artifact has two.
parseFusionProfiles(file) ==
    /\ \A raw \in file : parseFusionProfile(raw)
    /\ \A r, s \in file : r.artifact = s.artifact => r = s

NoOutcome(reason) ==
    [winner |-> FALSE, actions |-> {}, items |-> <<>>, fits |-> FALSE, reason |-> reason,
     dissent |-> {}, marker |-> FALSE]
NoAnswer == [kind |-> "none", usage |-> 0, actions |-> {}, items |-> {}, fits |-> FALSE]
Result(a, answer) == [from |-> a, answer |-> answer]

FusionInit ==
    /\ \E file \in SUBSET RawProfiles, pool \in FusionPools, c \in Ceilings :
          /\ file # {}
          /\ parseFusionProfiles(file)
          /\ fus = [pc |-> "idle", profiles |-> file, pool |-> pool,
                    width |-> Max({1, Min({c.maxParallel, c.ceiling})}),
                    activations |-> 0, consumed |-> FALSE, planned |-> "no", refills |-> 0,
                    profile |-> CHOOSE p \in file : TRUE, budget |-> 0, slots |-> <<>>, next |-> 1,
                    results |-> <<>>, worker |-> <<>>, candidates |-> <<>>, usage |-> 0,
                    judge |-> "none", outcome |-> NoOutcome("none")]
    /\ tokens = Buckets

-----------------------------------------------------------------------------
(* The start: pre-panel budget cap, panel of distinct seeds or lineages.       *)
PanelSize(profile) ==
    IF profile.size * profile.estimate > profile.cap
    THEN profile.cap \div profile.estimate ELSE profile.size

FirstNames(profile, size) == SubSeq(profile.names, 1, Min({size, Len(profile.names)}))

\* planPanel: the slots of the panel, or none when it cannot be seated.
planPanel(pool, profile, size, role) ==
    LET list  == eligible(pool, role, NoHints)
        names == FirstNames(profile, size)
        Has(l) == \E i \in DOMAIN list : Traits[list[i]].lineage = l
    IN  CASE profile.diversity = "self" ->
                IF list = <<>> \/ Len(names) < size \/ Cardinality(ToSet(names)) < size THEN <<>>
                ELSE [i \in 1..size |-> list[1]]
          [] profile.diversity = "cross_lineage" ->
                IF \E i \in DOMAIN names : ~Has(names[i]) THEN <<>>
                ELSE [i \in DOMAIN names |->
                        list[CHOOSE k \in DOMAIN list : /\ Traits[list[k]].lineage = names[i]
                                                        /\ \A j \in 1..(k - 1) : Traits[list[j]].lineage # names[i]]]

Concluded(f, outcome) == [f EXCEPT !.pc = "done", !.outcome = outcome]
Escalated(f, reason) == Concluded(f, NoOutcome(reason))

Formed(profile, budget, slots) ==
    [fus EXCEPT !.pc = "panel", !.profile = profile, !.budget = budget, !.slots = slots, !.next = 1,
                !.results = [i \in DOMAIN slots |-> Result("nobody", NoAnswer)], !.candidates = <<>>, !.usage = 0,
                !.judge = "none",
                !.worker = [w \in 1..Min({fus.width, Len(slots)}) |-> [item |-> 0, doing |-> "free"]]]

\* runFusion up to its panel; a budget that is not a valid amount is negative here.
Activated(profile, budget, role) ==
    LET size  == PanelSize(profile)
        slots == planPanel(fus.pool, profile, size, role)
    IN  IF budget < 0        THEN Escalated(Formed(profile, 0, <<>>), "invalid_response")
        ELSE IF size < 2     THEN Escalated(Formed(profile, budget, <<>>), "budget_cap")
        ELSE IF Len(slots) < 2 THEN Escalated(Formed(profile, budget, <<>>), "panel_degraded")
        ELSE Formed(profile, budget, slots)

\* runPlannerFusion, before the task loop: the plan profile, with the profile's own cap as budget.
PlannerFusion ==
    /\ fus.pc = "idle"
    /\ fus.activations = 0
    /\ fus.planned = "no"
    /\ \E profile \in fus.profiles :
          /\ profile.artifact = "plan"
          /\ fus' = [Activated(profile, profile.cap, "planner") EXCEPT !.planned = "running"]
    /\ UNCHANGED tokens

\* fusion.deliberate: the first request of a task activates a panel and spends its one activation.
Deliberate ==
    /\ fus.pc = "idle"
    /\ fus.activations < MaxActivations
    /\ ~fus.consumed
    /\ \E profile \in fus.profiles, budget \in Budgets :
          fus' = [Activated(profile, budget, "implementer") EXCEPT !.activations = @ + 1, !.consumed = TRUE]
    /\ UNCHANGED tokens

\* Every later request is answered depth_exceeded.
DepthExceeded ==
    /\ fus.pc = "idle"
    /\ fus.activations < MaxActivations
    /\ fus.consumed
    /\ fus' = [fus EXCEPT !.activations = @ + 1]
    /\ UNCHANGED tokens

-----------------------------------------------------------------------------
(* The dispatcher: a pool of workers drains the slots; an empty bucket makes   *)
(* its worker poll until a refill.                                             *)
Limited(a) == a \in DOMAIN Buckets

TakeItem(w) ==
    /\ fus.pc = "panel"
    /\ fus.worker[w].doing = "free"
    /\ fus.next <= Len(fus.slots)
    /\ fus' = [fus EXCEPT !.next = @ + 1, !.worker[w] = [item |-> fus.next, doing |-> "token"]]
    /\ UNCHANGED tokens

\* tryTake: one token if there is one, nothing otherwise; an adapter without a bucket is not limited.
tryTake(w) ==
    LET a == fus.slots[fus.worker[w].item]
    IN  /\ fus.pc = "panel"
        /\ fus.worker[w].doing = "token"
        /\ Limited(a) => tokens[a] >= 1
        /\ tokens' = IF Limited(a) THEN [tokens EXCEPT ![a] = @ - 1] ELSE tokens
        /\ fus' = [fus EXCEPT !.worker[w].doing = "sending"]

Refill(a) ==
    /\ fus.pc = "panel"
    /\ fus.refills < MaxRefills
    /\ tokens[a] < Buckets[a]
    /\ tokens' = [tokens EXCEPT ![a] = @ + 1]
    /\ fus' = [fus EXCEPT !.refills = @ + 1]

\* An answer, or an AdapterError captured as this item's result; it lands at its item's index.
AnswerItem(w, answer) ==
    LET i == fus.worker[w].item
    IN  /\ fus.pc = "panel"
        /\ fus.worker[w].doing = "sending"
        /\ fus' = [fus EXCEPT !.results[i] = Result(fus.slots[i], answer),
                              !.worker[w] = [item |-> 0, doing |-> "free"]]
        /\ UNCHANGED tokens

-----------------------------------------------------------------------------
(* After dispatchAll: the candidates, by their slots, with the usage they cost; *)
(* a usage that is no amount, or an invalid response, ends the round there.    *)
Succeeded(f, i) == f.results[i].answer.kind = "ok"
Invalid(f, i) ==
    \/ f.results[i].answer.kind = "invalid_response"
    \/ Succeeded(f, i) /\ f.results[i].answer.usage < 0
Bad(f) == {i \in DOMAIN f.slots : Invalid(f, i)}
Used(f) == {i \in DOMAIN f.slots : Succeeded(f, i) /\ \A b \in Bad(f) : i < b}
UsageOf(f) == MapThenSumSet(LAMBDA i : f.results[i].answer.usage, Used(f))
Candidates(f) ==
    [i \in Used(f) |-> [from |-> f.results[i].from, answer |-> f.results[i].answer, gate |-> "none"]]
measured(f) == f.profile.artifact \in {"code_diff", "tests"}

Collected(f) ==
    LET full == [f EXCEPT !.usage = UsageOf(f), !.candidates = Candidates(f)]
    IN  IF Bad(f) # {}                         THEN Escalated(full, "invalid_response")
        ELSE IF Cardinality(Used(f)) < 2       THEN Escalated(full, "panel_degraded")
        ELSE IF measured(f) /\ ~EvidenceRunner THEN Escalated(full, "no_gate_survivor")
        ELSE [full EXCEPT !.pc = IF measured(f) THEN "gating" ELSE "judging"]

CollectPanel ==
    /\ fus.pc = "panel"
    /\ \A i \in DOMAIN fus.slots : fus.results[i].answer.kind # "none"
    /\ fus' = Collected(fus)
    /\ UNCHANGED tokens

Ungated == {k \in DOMAIN fus.candidates : fus.candidates[k].gate = "none"}

\* The core gates measure the candidates one by one, each in a worktree of its own.
GateCandidate(verdict) ==
    /\ fus.pc = "gating"
    /\ LET k == Min(Ungated)
       IN  fus' = [fus EXCEPT !.candidates[k].gate = verdict,
                              !.pc = IF Ungated = {k} THEN "judging" ELSE @]
    /\ UNCHANGED tokens

\* A candidate that cannot be laid out (a missing blob) makes runFusion throw.
GateThrows ==
    /\ fus.pc = "gating"
    /\ fus' = Escalated(fus, "threw")
    /\ UNCHANGED tokens

-----------------------------------------------------------------------------
(* The resolve rules.                                                          *)
(* defect: candidates count as green whatever the gate said *)
GreenAll(cs) == DOMAIN cs

Green(cs) == {k \in DOMAIN cs : cs[k].gate = "pass"}
Resolved(actions, items, fits) ==
    [NoOutcome("none") EXCEPT !.winner = TRUE, !.actions = actions, !.items = items, !.fits = fits]
Raising(cs, key) == {k \in DOMAIN cs : \E i \in cs[k].answer.items : i.key = key}
ItemsOf(cs) == UNION {cs[k].answer.items : k \in DOMAIN cs}
FileWrites(c) == {a \in c.answer.actions : a.type = "WRITE_FILE"}
Writing(cs, path) == {k \in Green(cs) : \E a \in FileWrites(cs[k]) : a.path = path}

\* Exactly one green candidate's actions, the first one's.
resolveCodeDiff(cs) ==
    IF Green(cs) = {} THEN NoOutcome("no_gate_survivor")
    ELSE Resolved(cs[Min(Green(cs))].answer.actions, <<>>, FALSE)

\* The union of the green candidates' files; for a path two of them write, the first one's.
resolveTests(cs) ==
    IF Green(cs) = {} THEN NoOutcome("no_gate_survivor")
    ELSE Resolved(UNION {{a \in FileWrites(cs[k]) : k = Min(Writing(cs, a.path))} : k \in Green(cs)}, <<>>, FALSE)

\* Union by statement, the first candidate's probes kept, the cheapest to test first.
resolveHypotheses(cs) ==
    LET kept == {i \in ItemsOf(cs) : i \in cs[Min(Raising(cs, i.key))].answer.items}
    IN  Resolved({}, SetToSortSeq(kept, LAMBDA i, j : i.weight < j.weight), FALSE)

\* A finding survives if any candidate raises it; a disagreement on it marks, a minority dissents.
resolveReviews(cs) ==
    LET keys == {i.key : i \in ItemsOf(cs)}
        Weights(key) == {i.weight : i \in {j \in ItemsOf(cs) : j.key = key}}
    IN  [Resolved({}, SetToSeq(keys), FALSE) EXCEPT
            !.marker  = \E key \in keys : Cardinality(Weights(key)) > 1,
            !.dissent = {key \in keys : Raising(cs, key) # DOMAIN cs}]

resolvePlan(cs) ==
    LET first == cs[Min(DOMAIN cs)].answer IN Resolved(first.actions, <<>>, first.fits)

judgeLoadBearing(artifact) == artifact \in {"plan", "reviews"}

resolveMechanical(artifact, cs) ==
    CASE artifact = "code_diff"  -> resolveCodeDiff(cs)
      [] artifact = "tests"      -> resolveTests(cs)
      [] artifact = "hypotheses" -> resolveHypotheses(cs)
      [] artifact = "plan"       -> resolvePlan(cs)
      [] artifact = "reviews"    -> resolveReviews(cs)

JudgeAffordable == fus.budget - fus.usage >= fus.profile.estimate
Reviewers == eligible(fus.pool, "reviewer", NoHints)

\* The blind judge: skipped without budget or reviewer, valid, invalid after one repair, or bad usage.
JudgeOutcomes ==
    IF JudgeAffordable /\ Reviewers # <<>>
    THEN {"valid", "invalid", "unavailable", "invalid_response"} ELSE {"unavailable"}

JudgeRound(verdict) ==
    /\ fus.pc = "judging"
    /\ verdict \in JudgeOutcomes
    /\ LET f == [fus EXCEPT !.judge = verdict, !.usage = @ + IF verdict = "unavailable" THEN 0 ELSE 1]
           unjudged == judgeLoadBearing(fus.profile.artifact) /\ verdict # "valid"
       IN  fus' = CASE verdict = "invalid_response" -> Escalated(fus, "invalid_response")
                    [] verdict # "invalid_response" /\ unjudged ->
                          Escalated(f, IF JudgeAffordable THEN "judge_invalid" ELSE "budget_cap")
                    [] OTHER -> Concluded(f, resolveMechanical(fus.profile.artifact, fus.candidates))
    /\ UNCHANGED tokens

\* The caller takes the outcome; the planner's winner becomes the plan only if it fits PLAN_SCHEMA.
TakeOutcome ==
    /\ fus.pc = "done"
    /\ fus' = [fus EXCEPT !.pc = "idle",
                          !.planned = IF @ # "running" THEN @
                                      ELSE IF fus.outcome.winner /\ fus.outcome.fits THEN "plan" ELSE "none"]
    /\ UNCHANGED tokens

FusionNext ==
    \/ PlannerFusion \/ Deliberate \/ DepthExceeded \/ CollectPanel \/ GateThrows \/ TakeOutcome
    \/ \E w \in DOMAIN fus.worker : TakeItem(w) \/ tryTake(w) \/ \E answer \in PanelAnswers : AnswerItem(w, answer)
    \/ \E a \in DOMAIN Buckets : Refill(a)
    \/ \E verdict \in {"pass", "fail"} : GateCandidate(verdict)
    \/ \E verdict \in {"valid", "invalid", "unavailable", "invalid_response"} : JudgeRound(verdict)

FusionSpec == FusionInit /\ [][FusionNext]_fusionVars

-----------------------------------------------------------------------------
FusionTypeOK ==
    /\ fus.pc \in {"idle", "panel", "gating", "judging", "done"}
    /\ fus.activations \in 0..MaxActivations
    /\ \A a \in DOMAIN Buckets : tokens[a] \in 0..Buckets[a]

InFlight == {w \in DOMAIN fus.worker : fus.worker[w].doing = "sending"}
Passing == {k \in DOMAIN fus.candidates : fus.candidates[k].gate = "pass"}

PanelIsBounded ==
    /\ fus.pc = "panel" => Cardinality(InFlight) <= fus.width
    /\ Len(fus.slots) * fus.profile.estimate <= fus.profile.cap

WinnerIsMeasured ==
    LET actions == fus.outcome.actions
    IN  CASE fus.profile.artifact = "code_diff" -> \E k \in Passing : actions = fus.candidates[k].answer.actions
          [] fus.profile.artifact = "tests"     -> \A a \in actions : \E k \in Passing : a \in fus.candidates[k].answer.actions
          [] OTHER -> judgeLoadBearing(fus.profile.artifact) => fus.judge = "valid"

\* However the workers interleave and whatever the judge says: no more sends are in
\* flight than the governance ceiling allows, the panel fits its cap, every candidate is
\* the answer of the adapter its slot names, and a winner has at least two candidates
\* behind it, gate evidence for code and tests (one candidate's actions, never a merge,
\* for code) and a valid judge for plans and reviews (run.ts:158-368, resolve.ts).
FusionIsEarned ==
    /\ PanelIsBounded
    /\ \A k \in DOMAIN fus.candidates : fus.candidates[k].from = fus.slots[k]
    /\ (fus.pc = "done" /\ fus.outcome.winner) => Cardinality(DOMAIN fus.candidates) >= 2 /\ WinnerIsMeasured
=============================================================================
