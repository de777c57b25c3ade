------------------------------- MODULE GateRun -------------------------------
(***************************************************************************)
(* The gate ladder of core/src/gates: runner.ts runs the checks of a tier  *)
(* in copies of one frozen tree and publishes a signed report;             *)
(* report-integrity.ts signs and verifies it against the evidence it names;*)
(* red-provenance.ts freezes a test that core saw failing, keeps that in   *)
(* the event log and reads it back after a restart; golden.ts and          *)
(* convention.ts are two of the checks.  The worktree is edited meanwhile. *)
(***************************************************************************)
EXTENDS Naturals, Sequences, FiniteSets

CONSTANTS
    RedPaths,          \* RED test artifacts
    Ladders,        \* the ladder policies that the runner may be created with
    Rules,          \* convention rules, and the control comment of each
    GoldenFiles,    \* files of the golden root
    MaxEdits,       \* bound: edits of the worktree
    MaxReports,     \* bound: reports in the log
    MaxDamage       \* bound: blobs damaged, crashes, failing appends

Tiers == {"T0", "T1", "T2", "T3"}
Key0 == {"lint", "typecheck", "targetedTests"}
Key1 == {"fullTests", "convention", "golden"}
Key2 == {"build", "scopedE2e", "secretScan", "fullGolden"}

(* parses: the file is a JSON object; set: the non-empty entries; fallback:*)
(* targetedTests names the full suite; t2: absent, a status or a real one; *)
(* convention: the convention policy was read and is well formed.          *)
Ladder == [parses : BOOLEAN, set : SUBSET (Key0 \cup Key1 \cup Key2), fallback : BOOLEAN,
           t2 : {"absent", "status", "real"}, convention : BOOLEAN]

ASSUME GateAssumption ==
    /\ Ladders \subseteq Ladder
    /\ IsFiniteSet(RedPaths) /\ IsFiniteSet(GoldenFiles) /\ IsFiniteSet(Rules)
    /\ MaxEdits \in Nat /\ MaxReports \in Nat /\ MaxDamage \in Nat

VARIABLES
    tree,       \* the worktree: version, RED artifacts, golden root, test lines
    gate,       \* the runner and the tier it is running
    blobs,      \* the evidence store: what was put, and what of it is damaged
    reports,    \* signed reports, in the event log
    frozenLog,  \* RED_ARTIFACT_FROZEN events
    store,      \* the RED artifact store of the process: "down", "refused" or its records
    seen,       \* the RED observation in hand
    mishaps     \* so far: damage, crashes, failing appends

gateVars == <<tree, gate, blobs, reports, frozenLog, store, seen, mishaps>>

------------------------------------------------------------------------------
(* golden.ts: the manifest must list exactly what is there. *)

Golden == [manifest : {"file", "missing", "not a file"}, recorded : SUBSET GoldenFiles,
           actual : SUBSET GoldenFiles, odd : BOOLEAN]

(* Nothing but files and directories, and all of the files.                *)
canonicalManifest(g) == IF g.odd THEN {} ELSE g.actual

verifyGoldenRoot(g) ==
    IF g.manifest # "file" THEN "manifest_missing"
    ELSE IF canonicalManifest(g) = {} \/ g.recorded # canonicalManifest(g)
    THEN "golden_manifest_mismatch" ELSE "ok"

(* convention.ts: a match is waived only by the rule's own control in a    *)
(* comment of the same line.                                               *)
Line == [matches : SUBSET Rules, comment : SUBSET Rules]
allowedLine(line, rule) == rule \in line.comment
checkConvention(lines) == \A l \in lines : \A r \in l.matches : allowedLine(l, r)

------------------------------------------------------------------------------
(* What a command may do twice in one disposable tree *)

TestOutcomes == {"exit 0", "fail then pass", "failed"}    \* failed: any other outcome

EvidenceOf(name, version, outcome) == [check |-> name, version |-> version, outcome |-> outcome]
CheckResult(name, pass, flaky, ref) == [name |-> name, pass |-> pass, flakySuspect |-> flaky, ref |-> ref]

runCommandCheck(name, version, outcome) ==
    CheckResult(name, outcome = "exit 0", outcome = "fail then pass", EvidenceOf(name, version, outcome))

runBuiltinCheck(name, version, pass) ==
    CheckResult(name, pass, FALSE, EvidenceOf(name, version, IF pass THEN "exit 0" ELSE "failed"))

resolveTargetedTests(c) ==
    IF "targetedTests" \in c.set /\ (c.fallback => "fullTests" \in c.set) THEN {"targetedTests"} ELSE {}

(* defect: the fallback tests of T0 are not asked for *)
RequiredWithoutT0(c, tier) == IF tier = "T0" THEN Key0 ELSE Key1

Required(c, tier) ==
    IF tier = "T0" THEN Key0 \cup IF c.fallback THEN {"fullTests"} ELSE {} ELSE Key1
phase0ConfigError(c, tier) == ~c.parses \/ ~(Required(c, tier) \subseteq c.set)

(* The checks of a tier, and the order in which they run.                  *)
Planned(c, tier) ==
    CASE tier = "T0" -> (c.set \cap {"lint", "typecheck"}) \cup resolveTargetedTests(c)
      [] tier = "T1" -> c.set \cap Key1
      [] OTHER -> c.set \cap Key2

InOrder == <<"lint", "typecheck", "targetedTests", "fullTests", "convention", "golden",
             "build", "scopedE2e", "secretScan", "fullGolden">>
NextCheck(todo) ==
    InOrder[CHOOSE i \in 1..10 : InOrder[i] \in todo /\ \A j \in 1..(i - 1) : InOrder[j] \notin todo]

------------------------------------------------------------------------------
NoRun == [at |-> "idle", tier |-> "T0", config |-> CHOOSE c \in Ladders : TRUE, version |-> 0,
          golden |-> TRUE, convention |-> TRUE, todo |-> {}, checks |-> {}]
NoRecord == [version |-> 0, report |-> 0]
NoObservation == [path |-> "none", version |-> 0, report |-> 0]
Intact == [manifest |-> "file", recorded |-> GoldenFiles, actual |-> GoldenFiles, odd |-> FALSE]

GateInit ==
    /\ tree = [version |-> 0, red |-> [p \in RedPaths |-> 0], golden |-> Intact, lines |-> {}]
    /\ gate \in {[NoRun EXCEPT !.config = c] : c \in Ladders}
    /\ blobs = [put |-> {}, damaged |-> {}]
    /\ reports = <<>>
    /\ frozenLog = <<>>
    /\ store = [state |-> "up", records |-> [p \in RedPaths |-> NoRecord]]
    /\ seen = NoObservation
    /\ mishaps = 0

(* publish: signed over the evidence it names, which must be there; a      *)
(* fenced append may find that the lease is gone.                          *)
Healthy(refs) == refs \subseteq blobs.put \ blobs.damaged
Report(tier, pass, version, checks, task) ==
    [tier |-> tier, pass |-> pass, config |-> gate.config, version |-> version,
     checks |-> checks, task |-> task]

publish(pass, version, checks) ==
    /\ blobs' = [blobs EXCEPT !.put = @ \cup {c.ref : c \in checks}]
    /\ \/ /\ {c.ref : c \in checks} \cap blobs.damaged = {}
          /\ Len(reports) < MaxReports
          /\ reports' = Append(reports, Report(gate.tier, pass, version, checks, "this task"))
          /\ mishaps' = mishaps
       \/ /\ mishaps < MaxDamage
          /\ mishaps' = mishaps + 1
          /\ reports' = reports
    /\ gate' = [NoRun EXCEPT !.config = gate.config]

configFailureCheck == {CheckResult("config", FALSE, FALSE, EvidenceOf("config", 0, "failed"))}

(* run: freeze, then either no checks, a failed config or the plan.        *)
runTier(tier) ==
    /\ gate.at = "idle" /\ Len(reports) < MaxReports
    /\ gate' = [gate EXCEPT !.at = "frozen", !.tier = tier, !.version = tree.version,
                            !.golden = verifyGoldenRoot(tree.golden) = "ok",
                            !.convention = gate.config.convention /\ checkConvention(tree.lines),
                            !.todo = Planned(gate.config, tier), !.checks = {}]
    /\ UNCHANGED <<tree, blobs, reports, frozenLog, store, seen, mishaps>>

FreezeFails ==
    /\ gate.at = "frozen" /\ gate.checks = {}
    /\ publish("false", 0, configFailureCheck)
    /\ UNCHANGED <<tree, frozenLog, store, seen>>

NotEnabled ==
    \/ gate.tier = "T3"
    \/ gate.tier = "T2" /\ (~gate.config.parses \/ gate.config.t2 # "real")

PublishStub ==
    /\ gate.at = "frozen" /\ NotEnabled
    /\ publish("not_enabled", gate.version, {})
    /\ UNCHANGED <<tree, frozenLog, store, seen>>

PublishConfigError ==
    /\ gate.at = "frozen" /\ gate.tier \in {"T0", "T1"}
    /\ phase0ConfigError(gate.config, gate.tier)
    /\ publish("false", gate.version, configFailureCheck)
    /\ UNCHANGED <<tree, frozenLog, store, seen>>

Checking ==
    /\ gate.at = "frozen" /\ ~NotEnabled
    /\ gate.tier \in {"T0", "T1"} => ~phase0ConfigError(gate.config, gate.tier)

(* Each check gets a copy of the frozen tree, not the worktree.            *)
RunCheck(outcome) ==
    /\ Checking /\ gate.todo # {}
    /\ LET name == NextCheck(gate.todo)
           builtin == name \in {"convention", "golden", "fullGolden"}
       IN  /\ builtin => outcome = "exit 0"
           /\ gate' = [gate EXCEPT !.todo = @ \ {name}, !.checks = @ \cup
                         {IF builtin
                          THEN runBuiltinCheck(name, gate.version,
                                               IF name = "convention" THEN gate.convention ELSE gate.golden)
                          ELSE runCommandCheck(name, gate.version, outcome)}]
    /\ UNCHANGED <<tree, blobs, reports, frozenLog, store, seen, mishaps>>

PublishChecks ==
    /\ Checking /\ gate.todo = {}
    /\ publish(IF \A c \in gate.checks : c.pass THEN "true" ELSE "false", gate.version, gate.checks)
    /\ UNCHANGED <<tree, frozenLog, store, seen>>

(* verifyGateReport: report i, as somebody presents it.                    *)
Presentations == {"as signed", "other task", "altered"}
verifyGateReport(i, presented) ==
    /\ presented = "as signed"
    /\ reports[i].task = "this task"
    /\ Healthy({c.ref : c \in reports[i].checks})

------------------------------------------------------------------------------
(* RED provenance *)

RedBlob(p, version) == [check |-> p, version |-> version, outcome |-> "artifact"]
ReportBlob(i) == [check |-> "report", version |-> i, outcome |-> "report"]
IsRed(i) == reports[i].pass = "false" /\ \E c \in reports[i].checks : ~c.pass

(* The bytes and the report are put into the store when core mints the     *)
(* observation.                                                            *)
createCoreRedObservation(p, i, presented) ==
    /\ store.state = "up" /\ seen = NoObservation
    /\ i \in DOMAIN reports
    /\ verifyGateReport(i, presented) /\ IsRed(i)
    /\ {RedBlob(p, tree.red[p]), ReportBlob(i)} \cap blobs.damaged = {}
    /\ blobs' = [blobs EXCEPT !.put = @ \cup {RedBlob(p, tree.red[p]), ReportBlob(i)}]
    /\ seen' = [path |-> p, version |-> tree.red[p], report |-> i]
    /\ UNCHANGED <<tree, gate, reports, frozenLog, store, mishaps>>

(* materialize and persist: the log before the memory.                     *)
ObservationHolds(p, o) ==
    /\ o.path = p /\ o.version = tree.red[p]
    /\ Healthy({RedBlob(p, o.version), ReportBlob(o.report)})
    /\ verifyGateReport(o.report, "as signed") /\ IsRed(o.report)

Persist(p, o) ==
    \/ /\ frozenLog' = Append(frozenLog, [path |-> p, version |-> o.version, report |-> o.report])
       /\ store' = [store EXCEPT !.records[p] = [version |-> o.version, report |-> o.report]]
       /\ mishaps' = mishaps
    \/ /\ mishaps < MaxDamage
       /\ mishaps' = mishaps + 1
       /\ UNCHANGED <<frozenLog, store>>

materialize(p) ==
    /\ seen' = NoObservation
    /\ IF ObservationHolds(p, seen)
       THEN Persist(p, seen)
       ELSE UNCHANGED <<frozenLog, store, mishaps>>
    /\ UNCHANGED <<tree, gate, blobs, reports>>

freeze(p) ==
    /\ store.state = "up" /\ seen # NoObservation
    /\ store.records[p] = NoRecord
    /\ materialize(p)

replaceAfterObservedRed(p) ==
    /\ store.state = "up" /\ seen # NoObservation
    /\ store.records[p] # NoRecord
    /\ store.records[p].version # tree.red[p]
    /\ materialize(p)

(* createRedArtifactStore after a restart: the latest event of each path,  *)
(* all of it checked again, or there is no store.                          *)
Latest(p) ==
    LET mine == {n \in DOMAIN frozenLog : frozenLog[n].path = p}
    IN  IF mine = {} THEN NoRecord
        ELSE LET e == frozenLog[CHOOSE n \in mine : \A m \in mine : m <= n]
             IN  [version |-> e.version, report |-> e.report]

verifyPersistedRecord(p, r) ==
    /\ Healthy({RedBlob(p, r.version), ReportBlob(r.report)})
    /\ tree.red[p] = r.version
    /\ verifyGateReport(r.report, "as signed") /\ IsRed(r.report)

createRedArtifactStore ==
    /\ store.state \in {"down", "refused"}
    /\ store' = IF \A p \in RedPaths : Latest(p) = NoRecord \/ verifyPersistedRecord(p, Latest(p))
                THEN [state |-> "up", records |-> [p \in RedPaths |-> Latest(p)]]
                ELSE [store EXCEPT !.state = "refused"]
    /\ UNCHANGED <<tree, gate, blobs, reports, frozenLog, seen, mishaps>>

------------------------------------------------------------------------------
(* The world around *)

(* Somebody writes a RED artifact, a golden file or a test line.           *)
Edit ==
    /\ tree.version < MaxEdits
    /\ \/ \E p \in RedPaths : tree' = [tree EXCEPT !.version = @ + 1, !.red[p] = tree.version + 1]
       \/ \E g \in {[Intact EXCEPT !.manifest = "missing"], [Intact EXCEPT !.odd = TRUE],
                    [Intact EXCEPT !.actual = {}]}
                   \cup {[Intact EXCEPT !.recorded = @ \ {f}] : f \in GoldenFiles} :
             tree' = [tree EXCEPT !.version = @ + 1, !.golden = g]
       \/ \E r \in Rules, c \in SUBSET Rules :
             tree' = [tree EXCEPT !.version = @ + 1, !.lines = @ \cup {[matches |-> {r}, comment |-> c]}]
    /\ UNCHANGED <<gate, blobs, reports, frozenLog, store, seen, mishaps>>

Damage(b) ==
    /\ mishaps < MaxDamage /\ mishaps' = mishaps + 1
    /\ blobs' = [blobs EXCEPT !.damaged = @ \cup {b}]
    /\ UNCHANGED <<tree, gate, reports, frozenLog, store, seen>>

GateCrash ==
    /\ mishaps < MaxDamage /\ mishaps' = mishaps + 1
    /\ store' = [state |-> "down", records |-> [p \in RedPaths |-> NoRecord]]
    /\ gate' = [NoRun EXCEPT !.config = gate.config]
    /\ seen' = NoObservation
    /\ UNCHANGED <<tree, blobs, reports, frozenLog>>

GateNext ==
    \/ \E tier \in Tiers : runTier(tier)
    \/ FreezeFails \/ PublishStub \/ PublishConfigError
    \/ \E outcome \in TestOutcomes : RunCheck(outcome)
    \/ PublishChecks
    \/ \E p \in RedPaths :
          \/ \E i \in DOMAIN reports, presented \in Presentations :
                createCoreRedObservation(p, i, presented)
          \/ freeze(p)
          \/ replaceAfterObservedRed(p)
    \/ createRedArtifactStore
    \/ Edit
    \/ \E b \in blobs.put \ blobs.damaged : Damage(b)
    \/ GateCrash

GateSpec == GateInit /\ [][GateNext]_gateVars

------------------------------------------------------------------------------
(* Properties *)

(* Every variable stays in its range. *)
GateTypeOK ==
    /\ gate.at \in {"idle", "frozen"}
    /\ blobs.damaged \subseteq blobs.put
    /\ \A i \in DOMAIN reports : reports[i].pass \in {"true", "false", "not_enabled"}
    /\ store.state \in {"up", "down", "refused"}

(* A T0 or T1 report that passes carries, for each check its tier must     *)
(* have, evidence that this very check ended cleanly at the first attempt  *)
(* on the tree the report names, whatever was edited meanwhile and         *)
(* whatever the ladder file leaves out.                                    *)
GatePassIsEarned ==
    \A i \in DOMAIN reports :
        reports[i].pass = "true" /\ reports[i].tier \in {"T0", "T1"} =>
            /\ reports[i].config.parses
            /\ \A n \in IF reports[i].tier = "T0" THEN Key0 ELSE Key1 :
                  EvidenceOf(n, reports[i].version, "exit 0") \in {c.ref : c \in reports[i].checks}

(* While the store is up it holds exactly what the log says, and each      *)
(* record rests on a report of this task that failed; a failing append, a  *)
(* crash or a refused restart never leaves a record of its own.            *)
RedRecordsAreLogged ==
    store.state = "up" =>
        \A p \in RedPaths :
            /\ store.records[p] = Latest(p)
            /\ Latest(p) # NoRecord => IsRed(Latest(p).report)

(* What the runner signs and the RED store keeps is backed by what was run *)
(* and logged: both of the above.                                          *)
EvidenceIsTrue == GatePassIsEarned /\ RedRecordsAreLogged
=============================================================================
