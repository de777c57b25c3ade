------------------------------- MODULE OobAudit -------------------------------
(* The out-of-band auditor (core/src/audit/oob.ts): a process of its own that  *)
(* reads the event log of runs, picks merged tasks by a salted hash, clones    *)
(* the merge commit and runs T1 on it once more, or twice.  Its gate runner    *)
(* writes GATE_RESULT into the same log the auditor reads its originals from,  *)
(* an auditor may die at any await, and nothing stops two of them at once.     *)
(* A report is its normalised checks (name, pass, evidence) and two marks.     *)
EXTENDS Integers, Sequences, FiniteSets

CONSTANTS
    Merged,          \* tasks whose merge is under way
    Auditors,        \* auditor processes
    FoldValue,       \* task -> auditSampleValue(run, task + "oob")
    Rates,           \* rates the auditor is started with
    Reruns,          \* T1 reports a clone may produce: [norm, hard, flaky]
    MaxCycles        \* bound on auditors started

Verdicts == {"reproduced", "flaky_suspect", "non_repro"}

ASSUME OobAssumption ==
    /\ Reruns \subseteq [norm : STRING, hard : BOOLEAN, flaky : BOOLEAN]
    /\ MaxCycles \in Nat

VARIABLES
    auditLog,        \* what of the event log the auditor reads, and what it appends
    merging,         \* task -> how far its auto merge is
    bound,           \* tasks whose signed report still binds to branch, key and commit
    auditor,         \* auditor -> [pc, since, originals, targets, rerun]
    cycles           \* auditors started so far

oobVars == <<auditLog, merging, bound, auditor, cycles>>

\* The report the merge was authorised on.
MergeReport == [norm |-> "merged", hard |-> FALSE, flaky |-> FALSE]
NoReport == [norm |-> "none", hard |-> FALSE, flaky |-> FALSE]

Record(type, t, by) ==
    [type |-> type, task |-> t, by |-> by, report |-> NoReport, sampled |-> FALSE,
     verdict |-> "none", since |-> 0]
GateResult(t, report, by) == [Record("GATE_RESULT", t, by) EXCEPT !.report = report]
EvidenceAuthorized(t, report) == [Record("EVIDENCE_AUTHORIZED", t, "run") EXCEPT !.report = report]
AuditResult(t, sampled) == [Record("AUDIT_RESULT", t, "run") EXCEPT !.sampled = sampled]
OobAuditResult(t, by, verdict, since) ==
    [Record("OOB_AUDIT_RESULT", t, by) EXCEPT !.verdict = verdict, !.since = since]

------------------------------------------------------------------------------
(* What the log says.                                                          *)
RecordsOf(log, type, t) == {i \in DOMAIN log : log[i].type = type /\ log[i].task = t}

\* The last authorised report; only without one, the last T1 result.
lastT1Report(log, t) ==
    LET authorised == RecordsOf(log, "EVIDENCE_AUTHORIZED", t)
        results    == RecordsOf(log, "GATE_RESULT", t)
        newest(s)  == log[CHOOSE i \in s : \A j \in s : j <= i].report
    IN  IF authorised # {} THEN newest(authorised)
        ELSE IF results # {} THEN newest(results) ELSE NoReport

computeAlreadyAudited(log) ==
    {t \in Merged : \/ \E i \in RecordsOf(log, "AUDIT_RESULT", t) : log[i].sampled
                    \/ RecordsOf(log, "OOB_AUDIT_RESULT", t) # {}}

\* By the place in the log where each was first completed.
selectAuditTargets(log, rate) ==
    {i \in DOMAIN log :
        /\ log[i].type = "COMPLETED" /\ \A j \in RecordsOf(log, "COMPLETED", log[i].task) : i <= j
        /\ log[i].task \notin computeAlreadyAudited(log)
        /\ RecordsOf(log, "AUDIT_RESULT", log[i].task) # {}
        /\ FoldValue[log[i].task] < rate}

reproduces(original, rerun) == original.norm = rerun.norm

classifyOobChecks(report) ==
    IF report.hard THEN "hard_failure" ELSE IF report.flaky THEN "flaky_suspect" ELSE "clean"

------------------------------------------------------------------------------
(* The run: a gate passes, the merge is authorised, audited in band or not,    *)
(* and completed.  It may stop after each append.                              *)
MergeStep(t, from, to, records) ==
    /\ merging[t] = from
    /\ merging' = [merging EXCEPT ![t] = to]
    /\ auditLog' = auditLog \o records
    /\ UNCHANGED <<bound, auditor, cycles>>

GatePasses(t) == MergeStep(t, "gating", "gated", <<GateResult(t, MergeReport, "run")>>)

MergeAuthorised(t) ==
    MergeStep(t, "gated", "authorised", <<EvidenceAuthorized(t, MergeReport)>>)

NotSampled(t) == MergeStep(t, "authorised", "audited", <<AuditResult(t, FALSE)>>)

\* The in-band audit runs T1 as well; a mismatch ends in a revert and an escalation.
SampledInBand(t) ==
    \E r \in Reruns :
        MergeStep(t, "authorised", IF reproduces(MergeReport, r) THEN "audited" ELSE "reverted",
                  <<GateResult(t, r, "run"), AuditResult(t, TRUE)>>)

Completed(t) == MergeStep(t, "audited", "completed", <<Record("COMPLETED", t, "run")>>)

\* The task branch, the key or the commit of a merged task goes away.
BindingBreaks(t) ==
    /\ t \in bound /\ bound' = bound \ {t}
    /\ UNCHANGED <<auditLog, merging, auditor, cycles>>

------------------------------------------------------------------------------
(* One auditor.                                                                *)
NoAudit == [pc |-> "down", since |-> 0, originals |-> [t \in Merged |-> NoReport],
            targets |-> {}, rerun |-> NoReport]

AuditStep(a, new, records) ==
    /\ auditor' = [auditor EXCEPT ![a] = new]
    /\ auditLog' = auditLog \o records
    /\ UNCHANGED <<merging, bound>>

AuditMoves(a, pc) == [auditor[a] EXCEPT !.pc = pc]
Foremost(targets) == CHOOSE i \in targets : \A j \in targets : i <= j
Target(a) == auditLog[Foremost(auditor[a].targets)].task
Original(a) == auditor[a].originals[Target(a)]
Skip(a) == [auditor[a] EXCEPT !.pc = "next", !.targets = @ \ {Foremost(@)}, !.rerun = NoReport]

\* Everything the auditor knows of the log it reads once, here.
runOobAudit(a) ==
    /\ auditor[a].pc = "down" /\ cycles < MaxCycles
    /\ cycles' = cycles + 1
    /\ \E rate \in Rates :
          AuditStep(a, [pc |-> "next", since |-> Len(auditLog),
                        originals |-> [t \in Merged |-> lastT1Report(auditLog, t)],
                        targets |-> selectAuditTargets(auditLog, rate), rerun |-> NoReport], <<>>)

NoTargetLeft(a) ==
    /\ auditor[a].pc = "next" /\ auditor[a].targets = {}
    /\ AuditStep(a, NoAudit, <<>>) /\ UNCHANGED cycles

\* No report, or one that no longer verifies: an escalation each cycle.
EvidenceFails(a) ==
    /\ auditor[a].pc = "next" /\ auditor[a].targets # {}
    /\ Original(a) = NoReport \/ Target(a) \notin bound
    /\ AuditStep(a, Skip(a), <<Record("ESCALATED", Target(a), a)>>) /\ UNCHANGED cycles

verifyOriginal(a) ==
    /\ auditor[a].pc = "next" /\ auditor[a].targets # {}
    /\ Original(a) # NoReport /\ Target(a) \in bound
    /\ AuditStep(a, AuditMoves(a, "clone"), <<>>) /\ UNCHANGED cycles

\* Cloning is tried twice.
CloneFails(a) ==
    /\ auditor[a].pc \in {"clone", "reclone"}
    /\ IF auditor[a].pc = "clone"
       THEN AuditStep(a, AuditMoves(a, "reclone"), <<>>)
       ELSE AuditStep(a, Skip(a), <<Record("ERROR", Target(a), a)>>)
    /\ UNCHANGED cycles

cloneAtCommit(a) ==
    /\ auditor[a].pc \in {"clone", "reclone"}
    /\ AuditStep(a, AuditMoves(a, "rerun1"), <<>>) /\ UNCHANGED cycles

\* T1 on the clone; the gate runner logs its report before the auditor sees it.
Rerun(a) ==
    /\ auditor[a].pc \in {"rerun1", "rerun2"}
    /\ \E r \in Reruns :
          AuditStep(a, [auditor[a] EXCEPT !.pc = IF @ = "rerun1" THEN "judge1" ELSE "judge2",
                                          !.rerun = r],
                    <<GateResult(Target(a), r, a)>>)
    /\ UNCHANGED cycles

Conclude(a, verdict) ==
    AuditStep(a, IF verdict = "non_repro" THEN AuditMoves(a, "escalate") ELSE Skip(a),
              <<OobAuditResult(Target(a), a, verdict, auditor[a].since)>>)

\* A flake the gate runner saw is not run again; another mismatch is, once.
JudgeFirst(a) ==
    /\ auditor[a].pc = "judge1" /\ UNCHANGED cycles
    /\ IF classifyOobChecks(auditor[a].rerun) = "flaky_suspect" THEN Conclude(a, "flaky_suspect")
       ELSE IF reproduces(Original(a), auditor[a].rerun) THEN Conclude(a, "reproduced")
       ELSE AuditStep(a, AuditMoves(a, "rerun2"), <<>>)

JudgeSecond(a) ==
    /\ auditor[a].pc = "judge2" /\ UNCHANGED cycles
    /\ Conclude(a, IF reproduces(Original(a), auditor[a].rerun) THEN "flaky_suspect" ELSE "non_repro")

EscalateMismatch(a) ==
    /\ auditor[a].pc = "escalate" /\ UNCHANGED cycles
    /\ AuditStep(a, Skip(a), <<Record("ESCALATED", Target(a), a)>>)

\* A gate run that throws ends the cycle, as does a crash anywhere.
AuditorStops(a) ==
    /\ auditor[a].pc # "down"
    /\ AuditStep(a, NoAudit, <<>>) /\ UNCHANGED cycles

------------------------------------------------------------------------------
OobInit ==
    /\ auditLog = <<>> /\ merging = [t \in Merged |-> "gating"] /\ bound = Merged
    /\ auditor = [a \in Auditors |-> NoAudit] /\ cycles = 0

OobNext ==
    \/ \E t \in Merged : \/ GatePasses(t) \/ MergeAuthorised(t) \/ NotSampled(t) \/ SampledInBand(t)
                         \/ Completed(t) \/ BindingBreaks(t)
    \/ \E a \in Auditors :
          \/ runOobAudit(a) \/ NoTargetLeft(a) \/ EvidenceFails(a) \/ verifyOriginal(a)
          \/ CloneFails(a) \/ cloneAtCommit(a) \/ Rerun(a) \/ JudgeFirst(a) \/ JudgeSecond(a)
          \/ EscalateMismatch(a) \/ AuditorStops(a)

OobSpec == OobInit /\ [][OobNext]_oobVars

------------------------------------------------------------------------------
OobTypeOK ==
    /\ \A i \in DOMAIN auditLog : auditLog[i].task \in Merged
    /\ merging \in [Merged -> {"gating", "gated", "authorised", "audited", "reverted", "completed"}]
    /\ bound \subseteq Merged /\ cycles \in 0..MaxCycles
    /\ \A a \in Auditors :
          /\ auditor[a].pc \in {"down", "next", "clone", "reclone", "rerun1", "judge1", "rerun2",
                                "judge2", "escalate"}
          /\ auditor[a].originals \in [Merged -> Reruns \cup {MergeReport, NoReport}]
          /\ auditor[a].rerun \in Reruns \cup {NoReport}
          /\ auditor[a].since \in 0..Len(auditLog) /\ auditor[a].targets \subseteq 1..auditor[a].since

(* A verdict says how the merged commit compares with the report its merge was *)
(* authorised on, although every earlier audit, also one that died halfway,    *)
(* left its own T1 results for the same task in the same log: "reproduced"     *)
(* needs a rerun equal to that report, "non_repro" two that differ from it.    *)
\* (lastT1ReportByTask, runOobAudit.)
AuditComparesTheMerge ==
    \A i \in DOMAIN auditLog : auditLog[i].type = "OOB_AUDIT_RESULT" =>
        LET v == auditLog[i]
            own == {j \in 1..(i - 1) : /\ j > v.since /\ auditLog[j].type = "GATE_RESULT"
                                       /\ auditLog[j].by = v.by /\ auditLog[j].task = v.task}
            differ == {j \in own : ~reproduces(MergeReport, auditLog[j].report)}
        IN  /\ v.verdict = "reproduced" => own # {} /\ differ = {}
            /\ v.verdict = "non_repro" => Cardinality(differ) = 2 /\ differ = own

(* Only completed tasks that no audit covered yet are audited: not those the   *)
(* in-band sample took, and a second verdict on a task only comes from an      *)
(* auditor that had read the log before the first one was in it.               *)
\* (computeAlreadyAudited, selectAuditTargets.)
AuditedOnce ==
    \A i \in DOMAIN auditLog : auditLog[i].type = "OOB_AUDIT_RESULT" =>
        /\ \E j \in 1..(i - 1) : auditLog[j].type = "COMPLETED" /\ auditLog[j].task = auditLog[i].task
        /\ \A j \in 1..(i - 1) : auditLog[j].task = auditLog[i].task =>
              /\ ~(auditLog[j].type = "AUDIT_RESULT" /\ auditLog[j].sampled)
              /\ auditLog[j].type = "OOB_AUDIT_RESULT" => auditLog[i].since < j

AuditsAreTrue == AuditComparesTheMerge /\ AuditedOnce

==============================================================================
