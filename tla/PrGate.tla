------------------------------- MODULE PrGate -------------------------------
(***************************************************************************)
(* The PR quality gate: the manager of console/backend/src/pr-gate/         *)
(* manager.ts over the decisions of core/src/pr-gate/kernel.ts, with the    *)
(* reviewer panel and the judge of aal/src/pr-review/panel.ts.              *)
(*                                                                         *)
(* An action of a run is what execute does from one await to the next.     *)
(* In between, commits are pushed to the pull request, the operator        *)
(* cancels, the deadline passes, other runs and overrides proceed and the  *)
(* process may end; recoverInterrupted runs when it is started again.      *)
(***************************************************************************)
EXTENDS Naturals, FiniteSets, Sequences, SequencesExt, FiniteSetsExt, Functions

CONSTANTS
    Runs,        \* run identifiers, given out in this order
    Calls,       \* calls of override an operator makes
    Keys,        \* idempotency keys
    Slots,       \* reviewer slots
    RepositoryPolicies, Changes, CheckOutcomes, Panels, JudgeResults, \* the ports' answers
    MaxPushes    \* bound: heads the pull request gets after its first

VARIABLES
    prHead,    \* the current head of the pull request, as GitHub answers
    runs,      \* run -> its projection of the log and the locals of execute
    checks,    \* run -> what its GitHub check run shows
    overrides, \* run -> the PR_HUMAN_DECISION events of its log
    calls      \* call -> the locals of an override in progress

prVars == <<prHead, runs, checks, overrides, calls>>

Heads == 0 .. MaxPushes
RunIds == Range(Runs)

(* The kernel: severities, risks and coverages in order, 1 the least.      *)
Grades == 1 .. 4
Statuses == {"SUCCEEDED", "INVALID_RESPONSE", "UNAVAILABLE", "CANCELLED"}
ReviewerAnswer == [status : Statuses, cost : {0, 1}]

(* A judged finding is its class and its severity.                         *)
JudgedFinding == [class : {"VERIFIED", "UNVERIFIED", "FALSE_POSITIVE"}, severity : Grades]

(* The organization's policy.  A repository layer may only tighten it; one *)
(* that loosens any field, or redefines a check, is refused.               *)
Policy == [blocking : Grades, human : BOOLEAN, cap : Nat, floor : Grades]
organizationPolicy == [blocking |-> 3, human |-> FALSE, cap |-> Slots, floor |-> 1]
Tightens(repository, organization) ==
    /\ repository.blocking <= organization.blocking
    /\ repository.cap <= organization.cap
    /\ repository.floor >= organization.floor
    /\ organization.human => repository.human
mergeEffectivePolicy(organization, repository) ==
    [blocking |-> repository.blocking, cap |-> repository.cap, floor |-> repository.floor,
     human |-> organization.human \/ repository.human]
loadPinnedRepositoryPolicy == {layer \in RepositoryPolicies : Tightens(layer, organizationPolicy)}

(* What is changed, by kind of file, decides the risk and the coverage.    *)
FileKinds == {"documentation", "code", "public_api", "unsupported"}
fragment(kind) == CASE kind = "documentation" -> 1 [] kind = "code" -> 2
                    [] kind = "public_api" -> 3 [] OTHER -> 1
mergeChangeAnalysis(change, floor) == Max({floor} \cup {fragment(kind) : kind \in change})
classifyPinnedChange(change, policy) ==
    [risk |-> mergeChangeAnalysis(change, policy.floor),
     coverage |-> IF "unsupported" \in change THEN "LIMITED" ELSE "FULL"]

(* What the command executor answers to a required check.                  *)
mapStatus(outcome) ==
    CASE outcome = "exit_0" -> "PASSED"
      [] outcome \in {"cancelled", "sandbox_unavailable"} -> "INFRASTRUCTURE_FAILURE"
      [] outcome = "timed_out" -> "TIMED_OUT"
      [] OTHER -> "FAILED"
CheckResults == {"exit_0", "exit_1", "timed_out", "cancelled", "sandbox_unavailable", "signaled",
             "sandbox_violation", "capture_rejected"}
runPlannedChecks(outcomes) == {mapStatus(outcome) : outcome \in outcomes}
Determined(statuses) ==
    IF statuses \cap {"FAILED", "TIMED_OUT"} # {} THEN "FAILED"
    ELSE IF "INFRASTRUCTURE_FAILURE" \in statuses THEN "INFRASTRUCTURE_FAILURE" ELSE "PASSED"

ASSUME PrGateAssumption ==
    /\ Runs \in Seq(Nat) /\ Slots \in Nat \ {0} /\ MaxPushes \in Nat
    /\ RepositoryPolicies \subseteq Policy /\ Changes \subseteq SUBSET FileKinds
    /\ CheckOutcomes \subseteq SUBSET CheckResults
    /\ Panels \subseteq [1 .. Slots -> ReviewerAnswer]
    /\ JudgeResults \subseteq SUBSET JudgedFinding

(* Usage: a result that does not fit under the cap is not accepted, and    *)
(* what is left is reserved for it.  An answer costs one unit or none, so  *)
(* the usage after the first n answers is what they cost, up to the cap.   *)
Affordable(usage, cap, cost) == usage + cost <= cap
Charged(usage, cap, cost) == IF Affordable(usage, cap, cost) THEN usage + cost ELSE cap
UsageAfter(panel, n, cap) == Charged(Cardinality({i \in 1 .. n : panel[i].cost = 1}), cap, 0)
Account(panel, cap) ==
    LET accepted == {i \in DOMAIN panel : /\ panel[i].status = "SUCCEEDED"
                                          /\ Affordable(UsageAfter(panel, i - 1, cap), cap, panel[i].cost)}
    IN  [usage |-> UsageAfter(panel, Len(panel), cap), available |-> Cardinality(accepted)]

(* classifyReviewerCoverage, which counts the answers that SUCCEEDED.      *)
reviewerCoverage(available) ==
    IF available >= 4 THEN "FULL"
    ELSE IF available = 3 THEN "DEGRADED"
    ELSE IF available = 2 THEN "INSUFFICIENT" ELSE "INFRASTRUCTURE_FAILURE"

Blocking(r, classes) == \E f \in r.findings : f.class \in classes /\ f.severity >= r.policy.blocking

(* defect: an unjudged run may pass by itself *)
NeedsNoJudge(r) ==
    \/ reviewerCoverage(r.available) = "INSUFFICIENT"
    \/ r.risk = 4 \/ r.coverage = "LIMITED" \/ r.policy.human
    \/ Blocking(r, {"UNVERIFIED"})

NeedsHuman(r) ==
    \/ ~r.judged \/ reviewerCoverage(r.available) = "INSUFFICIENT"
    \/ r.risk = 4 \/ r.coverage = "LIMITED" \/ r.policy.human
    \/ Blocking(r, {"UNVERIFIED"})

Warns(r) ==
    \/ reviewerCoverage(r.available) = "DEGRADED" \/ r.coverage = "PARTIAL"
    \/ \E f \in r.findings : f.class = "VERIFIED" /\ f.severity < r.policy.blocking

decideQuality(r) ==
    IF r.det = "FAILED" \/ Blocking(r, {"VERIFIED"}) THEN "FAIL"
    ELSE IF r.det = "INFRASTRUCTURE_FAILURE"
            \/ reviewerCoverage(r.available) = "INFRASTRUCTURE_FAILURE"
         THEN "INFRASTRUCTURE_FAILURE"
    ELSE IF NeedsHuman(r) THEN "HUMAN_REVIEW_REQUIRED"
    ELSE IF Warns(r) THEN "PASS_WITH_WARNINGS" ELSE "PASS"

(* A decision after the deadline may still fail the change, nothing else.  *)
SystemDecision(r) ==
    IF r.expired /\ decideQuality(r) # "FAIL" THEN "INFRASTRUCTURE_FAILURE" ELSE decideQuality(r)

decisionConclusion(decision) ==
    CASE decision \in {"PASS", "PASS_WITH_WARNINGS"} -> "success"
      [] decision = "HUMAN_REVIEW_REQUIRED" -> "action_required"
      [] OTHER -> "failure"

----------------------------------------------------------------------------

Decisions == {"none", "PASS", "PASS_WITH_WARNINGS", "HUMAN_REVIEW_REQUIRED", "FAIL",
              "INFRASTRUCTURE_FAILURE"}
PrActive == {"QUEUED", "ACQUIRING", "CLASSIFYING", "SNAPSHOT_ATTESTING", "CHECKING", "REVIEWING",
             "JUDGING", "DECIDING", "REPORTING"}
TERMINAL == {"COMPLETED", "CANCELLED_STALE", "CANCELLED", "FAILED_INFRASTRUCTURE",
             "REPORTING_FAILED"}
PrPlaces == {"acquire", "head_pinned", "classify", "snapshot", "head_snapshot", "checks",
             "head_review", "panel", "judge", "head_decide", "decide", "head_report", "publish",
             "published", "publish_failed", "cancel_stale", "cancel", "cancel_failed"}

RunStates == {"none", "AWAITING_HUMAN"} \cup PrActive \cup TERMINAL
AnyPlace == PrPlaces \cup {"none", "ended"}
NoHead == 99
PrHeads == Heads \cup {NoHead}
Coverages == {"FULL", "PARTIAL", "LIMITED"}
Determinations == {"none", "PASSED", "FAILED", "INFRASTRUCTURE_FAILURE"}
Availability == 0 .. Slots
JudgedFindings == SUBSET JudgedFinding

Run ==
    [state : RunStates, at : AnyPlace, verified : BOOLEAN, expected : PrHeads, head : PrHeads,
     cancelled : BOOLEAN, expired : BOOLEAN, policy : Policy, risk : Grades, coverage : Coverages,
     det : Determinations, available : Availability, usage : Nat, judged : BOOLEAN,
     findings : JudgedFindings, decision : Decisions, effective : Decisions, reported : BOOLEAN]

NoGateRun ==
    [state |-> "none", at |-> "none", verified |-> FALSE, expected |-> NoHead, head |-> NoHead,
     cancelled |-> FALSE, expired |-> FALSE, policy |-> organizationPolicy, risk |-> 1,
     coverage |-> "FULL", det |-> "none", available |-> 0, usage |-> 0, judged |-> FALSE,
     findings |-> {}, decision |-> "none", effective |-> "none", reported |-> FALSE]

Call == [at : {"head", "publish"}, run : RunIds,
         key : Keys, action : {"APPROVE", "REJECT"}, send : BOOLEAN]

PrGateTypeOK ==
    /\ prHead \in Heads
    /\ runs \in [RunIds -> Run]
    /\ checks \in [RunIds -> {"none", "in_progress", "success", "action_required", "failure", "cancelled"}]
    /\ overrides \in [RunIds -> Seq([key : Keys, action : {"APPROVE", "REJECT"}, published : BOOLEAN])]
    /\ calls \in [Calls -> Call \cup [at : {"idle", "over"}]]

PrGateInit ==
    /\ prHead = 0
    /\ runs = [r \in RunIds |-> NoGateRun]
    /\ checks = [r \in RunIds |-> "none"]
    /\ overrides = [r \in RunIds |-> << >>]
    /\ calls = [c \in Calls |-> [at |-> "idle"]]

Unused == SelectInSeq(Runs, LAMBDA r : runs[r].state = "none")

(* begin: QUEUED and ACQUIRING are logged before anything is awaited.  The *)
(* runs after the first are those that replace a stale one.                *)
Begun(verified, expected) ==
    [NoGateRun EXCEPT !.state = "ACQUIRING", !.at = "acquire", !.verified = verified,
                  !.expected = expected]

StartRun ==
    /\ Unused = 1
    /\ \E verified \in BOOLEAN : runs' = [runs EXCEPT ![Runs[Unused]] = Begun(verified, NoHead)]
    /\ UNCHANGED <<prHead, checks, overrides, calls>>

Put(r, record) == runs' = [runs EXCEPT ![r] = record]
PrGoto(r, state, at) == Put(r, [runs[r] EXCEPT !.state = state, !.at = at])
Aborted(r) == runs[r].cancelled \/ runs[r].expired
KeepGitHub == UNCHANGED <<prHead, checks, overrides, calls>>
KeepOthers == UNCHANGED <<prHead, overrides, calls>>

(* What execute knew goes with it; the log keeps what a published decision *)
(* was made from.                                                          *)
Forgotten(run) ==
    [NoGateRun EXCEPT !.state = run.state, !.at = "ended", !.head = run.head,
                  !.verified = run.verified, !.decision = run.decision,
                  !.effective = run.effective, !.reported = run.reported]
Over(run, state) == [run EXCEPT !.state = state, !.at = "ended", !.cancelled = FALSE]

(* The catch of execute, for anything but a stale head: the check run is   *)
(* cancelled after the terminal state of a failure, before that of a       *)
(* cancellation.                                                           *)
Caught(run) ==
    IF run.cancelled THEN [Forgotten(run) EXCEPT !.at = "cancel"]
    ELSE LET decision == IF run.det = "FAILED" THEN "FAIL" ELSE "INFRASTRUCTURE_FAILURE"
         IN  [Forgotten(run) EXCEPT
                         !.state = "FAILED_INFRASTRUCTURE", !.at = "cancel_failed",
                         !.decision = decision, !.effective = decision]
Throw(r) == Put(r, Caught(runs[r])) /\ KeepGitHub

(* A port that is given the signal rejects once it is aborted; any port    *)
(* may fail.                                                               *)
PortFails(r) ==
    /\ \/ runs[r].at \in {"acquire", "classify", "snapshot", "checks"}
       \/ runs[r].at = "panel" /\ runs[r].policy.cap > 0
    /\ Throw(r)

Acquire(r) ==
    /\ runs[r].at = "acquire" /\ ~Aborted(r) /\ KeepOthers
    /\ runs[r].expected \in {NoHead, prHead}
    /\ \E repository \in loadPinnedRepositoryPolicy :
           Put(r, [runs[r] EXCEPT !.at = "head_pinned", !.head = prHead,
                             !.policy = mergeEffectivePolicy(organizationPolicy, repository)])
    /\ checks' = [checks EXCEPT ![r] = "in_progress"]

(* assertCurrentHead, at its five places; it does not look at the signal.  *)
AfterHead(run) ==
    CASE run.at = "head_pinned" -> [run EXCEPT !.state = "CLASSIFYING", !.at = "classify"]
      [] run.at = "head_snapshot" -> [run EXCEPT !.state = "CHECKING", !.at = "checks"]
      [] run.at = "head_review" -> [run EXCEPT !.at = "panel"]
      [] run.at = "head_decide" -> [run EXCEPT !.at = "decide"]
      [] run.at = "head_report" -> [run EXCEPT !.at = "publish"]

assertCurrentHead(r) ==
    /\ runs[r].at \in {"head_pinned", "head_snapshot", "head_review", "head_decide", "head_report"}
    /\ \/ /\ prHead = runs[r].head
          /\ Put(r, AfterHead(runs[r]))
       \/ /\ prHead # runs[r].head
          /\ Put(r, [Forgotten(runs[r]) EXCEPT !.at = "cancel_stale", !.expected = prHead])
       \/ Put(r, Caught(runs[r]))
    /\ KeepGitHub

Classify(r) ==
    /\ runs[r].at = "classify" /\ (runs[r].verified \/ ~Aborted(r)) /\ KeepGitHub
    /\ \E change \in Changes :
           LET analysis == classifyPinnedChange(change, runs[r].policy)
           IN  Put(r, [runs[r] EXCEPT !.state = "SNAPSHOT_ATTESTING", !.at = "snapshot",
                                      !.risk = analysis.risk, !.coverage = analysis.coverage])

Attest(r) ==
    /\ runs[r].at = "snapshot" /\ (runs[r].verified \/ ~Aborted(r)) /\ KeepGitHub
    /\ PrGoto(r, runs[r].state, "head_snapshot")

RunChecks(r) ==
    /\ runs[r].at = "checks" /\ (runs[r].verified \/ ~Aborted(r)) /\ KeepGitHub
    /\ \E outcomes \in CheckOutcomes :
           Put(r, [runs[r] EXCEPT !.state = "REVIEWING", !.at = "head_review",
                                  !.det = Determined(runPlannedChecks(outcomes))])

(* runBlindReviewPanel: every slot answers, an aborted one CANCELLED; with *)
(* no budget nobody is asked.  A cancellation is seen here and not later.  *)
(* A deadline, or a budget used up, leaves the judge out.                  *)
PanelAnswersFor(r) ==
    IF runs[r].policy.cap = 0 THEN {<< >>}
    ELSE IF Aborted(r) THEN {[i \in 1 .. Slots |-> [status |-> "CANCELLED", cost |-> 0]]}
    ELSE Panels

ReviewPanel(r) ==
    /\ runs[r].at = "panel" /\ KeepGitHub
    /\ \E panel \in PanelAnswersFor(r) :
           LET account == Account(panel, runs[r].policy.cap)
               reviewed == [runs[r] EXCEPT !.usage = account.usage, !.available = account.available]
               asked == ~reviewed.expired /\ reviewed.usage < reviewed.policy.cap
           IN  IF reviewed.cancelled THEN Put(r, Caught(reviewed))
               ELSE IF asked THEN Put(r, [reviewed EXCEPT !.state = "JUDGING", !.at = "judge"])
               ELSE Put(r, [reviewed EXCEPT !.state = "DECIDING",
                                !.at = IF reviewed.expired THEN "decide" ELSE "head_decide"])

(* runEvidenceJudge: unavailable, aborted or invalid; or findings whose     *)
(* class, severity and citations were validated.                           *)
runEvidenceJudge(r) ==
    {[ok |-> FALSE, findings |-> {}, cost |-> c] : c \in {0, 1}}
    \cup {[ok |-> TRUE, findings |-> f, cost |-> 1] : f \in IF Aborted(r) THEN {} ELSE JudgeResults}

JudgeFindings(r) ==
    /\ runs[r].at = "judge" /\ KeepGitHub
    /\ \E answer \in runEvidenceJudge(r) :
           LET within == Affordable(runs[r].usage, runs[r].policy.cap, answer.cost)
           IN  Put(r, [runs[r] EXCEPT
                          !.state = "DECIDING",
                          !.at = IF runs[r].expired THEN "decide" ELSE "head_decide",
                          !.usage = Charged(@, runs[r].policy.cap, answer.cost),
                          !.judged = within /\ answer.ok,
                          !.findings = IF within THEN answer.findings ELSE {}])

DecideRun(r) ==
    /\ runs[r].at = "decide" /\ KeepGitHub
    /\ LET decision == SystemDecision(runs[r])
       IN  Put(r, [runs[r] EXCEPT !.state = "REPORTING", !.at = "head_report", !.reported = TRUE,
                                  !.expired = FALSE, !.decision = decision, !.effective = decision])

(* reporter.complete: the answer says that GitHub applied it, or the call  *)
(* fails, applied or not.  The gate goes by that answer: an override that  *)
(* another call publishes before it arrives changes nothing in it.         *)
SendReport(r) ==
    /\ runs[r].at = "publish" /\ KeepOthers
    /\ LET applied == [checks EXCEPT ![r] = decisionConclusion(runs[r].decision)]
       IN  \/ PrGoto(r, runs[r].state, "published") /\ checks' = applied
           \/ PrGoto(r, runs[r].state, "publish_failed") /\ checks' \in {checks, applied}

ReportAnswered(r) ==
    /\ KeepGitHub
    /\ \/ /\ runs[r].at = "published"
          /\ Put(r, Over(runs[r], IF runs[r].decision = "HUMAN_REVIEW_REQUIRED" THEN "AWAITING_HUMAN"
                                  ELSE IF runs[r].state = "REPORTING" THEN "COMPLETED"
                                  ELSE runs[r].state))
       \/ runs[r].at = "publish_failed" /\ Put(r, Over(runs[r], "REPORTING_FAILED"))

(* The cancelled check run, applied or not: its errors are swallowed.      *)
CancelCheck(r) ==
    checks' \in {checks} \cup (IF checks[r] = "none" THEN {}
                               ELSE {[checks EXCEPT ![r] = "cancelled"]})

(* A stale run cancels itself and, unless it came from a workflow, begins  *)
(* a replacement that insists on the head it saw.                          *)
CancelStale(r) ==
    /\ runs[r].at = "cancel_stale" /\ CancelCheck(r) /\ KeepOthers
    /\ LET ended == [runs EXCEPT ![r] = [Over(@, "CANCELLED_STALE") EXCEPT !.expected = NoHead]]
       IN  runs' = IF runs[r].verified \/ Unused = 0 THEN ended
                   ELSE [ended EXCEPT ![Runs[Unused]] = Begun(FALSE, runs[r].expected)]

CancelledByOperator(r) ==
    /\ runs[r].at = "cancel" /\ CancelCheck(r) /\ KeepOthers
    /\ Put(r, Over(runs[r], "CANCELLED"))

Failed(r) ==
    /\ runs[r].at = "cancel_failed" /\ CancelCheck(r) /\ KeepOthers
    /\ Put(r, Over(runs[r], "FAILED_INFRASTRUCTURE"))

ExecuteRun(r) ==
    \/ PortFails(r) \/ Acquire(r) \/ assertCurrentHead(r) \/ Classify(r) \/ Attest(r) \/ RunChecks(r)
    \/ ReviewPanel(r) \/ JudgeFindings(r) \/ DecideRun(r) \/ SendReport(r) \/ ReportAnswered(r)
    \/ CancelStale(r) \/ CancelledByOperator(r) \/ Failed(r)

----------------------------------------------------------------------------

Running(r) == runs[r].at \in PrPlaces
Push == /\ prHead < MaxPushes /\ prHead' = prHead + 1
        /\ UNCHANGED <<runs, checks, overrides, calls>>
CancelRun(r) == Running(r) /\ ~runs[r].cancelled /\ Put(r, [runs[r] EXCEPT !.cancelled = TRUE]) /\ KeepGitHub
Deadline(r) == Running(r) /\ ~runs[r].reported /\ ~runs[r].expired /\ Put(r, [runs[r] EXCEPT !.expired = TRUE]) /\ KeepGitHub

(* override: a run with a durable decision, on the head it reviewed.  The  *)
(* head is awaited; the key is looked up and the decision logged after it. *)
KeepRunsAnd(kept) == UNCHANGED <<prHead, kept>>
Overriding(c) == calls[c].at \in {"head", "publish"}
Override(c) ==
    /\ calls[c].at = "idle" /\ KeepRunsAnd(<<runs, checks, overrides>>)
    /\ \E r \in RunIds, key \in Keys, action \in {"APPROVE", "REJECT"} :
           /\ runs[r].reported
           /\ calls' = [calls EXCEPT ![c] = [at |-> "head", run |-> r, key |-> key,
                                            action |-> action, send |-> FALSE]]

CallOver(c) == [calls EXCEPT ![c] = [at |-> "over"]]
Replay(call) == SelectInSeq(overrides[call.run], LAMBDA d : d.key = call.key)

RecordOverride(c) ==
    LET call == calls[c]
        r == call.run
        replay == Replay(call)
        refused == \/ prHead # runs[r].head
                   \/ replay # 0 /\ overrides[r][replay].action # call.action
    IN  /\ call.at = "head" /\ KeepRunsAnd(checks)
        /\ IF refused THEN calls' = CallOver(c) /\ UNCHANGED <<runs, overrides>>
           ELSE /\ calls' = [calls EXCEPT ![c].at = "publish",
                               ![c].send = replay = 0 \/ ~overrides[r][replay].published]
                /\ IF replay # 0 THEN UNCHANGED <<runs, overrides>>
                   ELSE /\ overrides' = [overrides EXCEPT ![r] = Append(@,
                               [key |-> call.key, action |-> call.action, published |-> FALSE])]
                        /\ Put(r, [runs[r] EXCEPT !.effective = IF call.action = "APPROVE" THEN "PASS" ELSE "FAIL"])

(* The check run gets the override's conclusion unless it was published,   *)
(* and a run that awaited the human is completed.                          *)
PublishOverride(c) ==
    LET call == calls[c]
        r == call.run
        replay == Replay(call)
        published == [checks EXCEPT ![r] = IF call.action = "APPROVE" THEN "success" ELSE "failure"]
    IN  /\ call.at = "publish" /\ UNCHANGED prHead
        /\ \/ /\ call.send /\ checks' \in {checks, published}
              /\ calls' = CallOver(c) /\ UNCHANGED <<runs, overrides>>
           \/ /\ checks' = IF call.send THEN published ELSE checks
              /\ overrides' = [overrides EXCEPT ![r][replay].published = TRUE]
              /\ calls' = CallOver(c)
              /\ IF runs[r].state = "AWAITING_HUMAN" THEN PrGoto(r, "COMPLETED", runs[r].at)
                 ELSE UNCHANGED runs

(* The process ends and is started again: recoverInterrupted fails every   *)
(* run that was neither over nor waiting for a human, in the log only.     *)
EndProcess ==
    /\ (\E r \in RunIds : runs[r].at \in PrPlaces) \/ (\E c \in Calls : Overriding(c))
    /\ runs' = [r \in RunIds |->
                   IF runs[r].state \in PrActive
                   THEN [Over(runs[r], "FAILED_INFRASTRUCTURE") EXCEPT
                             !.expired = FALSE, !.decision = "INFRASTRUCTURE_FAILURE",
                             !.effective = "INFRASTRUCTURE_FAILURE"]
                   ELSE [runs[r] EXCEPT !.at = IF @ = "none" THEN @ ELSE "ended"]]
    /\ calls' = [c \in Calls |-> IF Overriding(c) THEN [at |-> "over"] ELSE calls[c]]
    /\ UNCHANGED <<prHead, checks, overrides>>

PrGateNext ==
    \/ StartRun \/ Push \/ EndProcess
    \/ \E r \in RunIds : ExecuteRun(r) \/ CancelRun(r) \/ Deadline(r)
    \/ \E c \in Calls : Override(c) \/ RecordOverride(c) \/ PublishOverride(c)

PrGateSpec == PrGateInit /\ [][PrGateNext]_prVars

----------------------------------------------------------------------------

(* A check run shows success only when a human approved the run, or when   *)
(* its checks passed, three reviewers answered within the cost cap, and a  *)
(* judge left nothing blocking - whatever is cancelled, times out, fails,  *)
(* crashes or is overridden meanwhile.                                     *)
Approved(r) == \E i \in DOMAIN overrides[r] : overrides[r][i].action = "APPROVE"
Earned(run) ==
    /\ run.det = "PASSED" /\ run.available >= 3 /\ run.judged
    /\ ~Blocking(run, {"VERIFIED", "UNVERIFIED"}) /\ ~run.policy.human
    /\ run.usage <= organizationPolicy.cap
PassIsEarned == \A r \in RunIds : checks[r] = "success" /\ ~Approved(r) => Earned(runs[r])

(* However often and however concurrently override is retried with one     *)
(* key, the log holds one human decision for it.                           *)
OneDecisionPerKey ==
    \A r \in RunIds : \A i, j \in DOMAIN overrides[r] :
        overrides[r][i].key = overrides[r][j].key => i = j

(* A green check has a reason, and one reason per decision: both of the    *)
(* above.                                                                  *)
DecisionsAreEarned == PassIsEarned /\ OneDecisionPerKey

=============================================================================
