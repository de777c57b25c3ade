------------------------------ MODULE Governance ------------------------------
(* Governance and the lessons pipeline: the append-only decision log           *)
(* (core/governance/policy.ts), the lesson files it releases                   *)
(* (core/lessons/lessons.ts), and the two processes that share them -- a run   *)
(* (console/backend: preflight in bin/platform.ts, live approvals, the load of *)
(* each task's lessons, the fold after the run) and the offline command        *)
(* `platform governance approve` (governance-cli.ts).                          *)
(*                                                                             *)
(* Each process is synchronous in itself; what interleaves is the other        *)
(* process, a person editing the policy files, and a crash of the run, which   *)
(* may come between any two of its file operations.  A file being written is   *)
(* "torn" until the write is complete.  A proposal is its own id: the code     *)
(* derives the id from the same fields.  The event log of the run is left out: *)
(* nothing reads its LESSON_ entries back.                                     *)
EXTENDS Integers, Sequences, FiniteSets, FiniteSetsExt

CONSTANTS
    Snapshots,      \* contents of the policy directory, one value per hash
    NoSnapshot,     \* null: no snapshot approved yet
    LessonIds,      \* lesson ids (hash of statement and evidence)
    GovTasks,       \* the tasks a run loads one after another
    NoSubject,      \* a policy change names no lesson and no task
    MaxLessons,     \* lessons put into a context (cap.maxLessons)
    MaxPolicyEdits, \* bound on edits of the policy files
    MaxGovRuns      \* bound on runs started

ASSUME GovernanceAssumption ==
    /\ NoSnapshot \notin Snapshots
    /\ NoSubject \notin LessonIds \cup GovTasks
    /\ {MaxLessons, MaxPolicyEdits, MaxGovRuns} \subseteq Nat

VARIABLES
    policyFiles,    \* the snapshot on disk now
    govLog,         \* .ai/governance log: <<[type, p], ...>>
    lessonFiles,    \* lesson -> [pending, approved]: "none", "torn" or "ok"
    govRun,         \* the run process
    govCli,         \* the offline approve command: the proposal it read as pending
    govSpent        \* [edits, runs]: what the bounds count

govVars == <<policyFiles, govLog, lessonFiles, govRun, govCli, govSpent>>

FileStates == {"none", "torn", "ok"}
LessonDirs == {"pending", "approved"}

PolicyChange(before, after) ==
    [kind |-> "policy_change", before |-> before, after |-> after, subject |-> NoSubject]
LessonPromote(l) ==
    [kind |-> "lesson_promote", before |-> NoSnapshot, after |-> NoSnapshot, subject |-> l]
FlakyQuarantine(t) ==
    [kind |-> "flaky_quarantine", before |-> NoSnapshot, after |-> NoSnapshot, subject |-> t]

governanceProposalId ==
    {PolicyChange(b, a) : b \in Snapshots \cup {NoSnapshot}, a \in Snapshots}
        \cup {LessonPromote(l) : l \in LessonIds} \cup {FlakyQuarantine(t) : t \in GovTasks}

Proposed(p) == [type |-> "GOVERNANCE_PROPOSED", p |-> p]
Change(p) == [type |-> "GOVERNANCE_CHANGE", p |-> p]

Logged(log, record) == \E i \in DOMAIN log : log[i] = record
Changed(log, p) == Logged(log, Change(p))

listPendingProposals(log) ==
    {p \in governanceProposalId : Logged(log, Proposed(p)) /\ ~Changed(log, p)}

\* Only policy changes move the approved snapshot.
lastApprovedPolicyHash(log) ==
    LET changes == {i \in DOMAIN log : log[i].type = "GOVERNANCE_CHANGE" /\ log[i].p.kind = "policy_change"}
    IN  IF changes = {} THEN NoSnapshot ELSE log[Max(changes)].p.after

\* The same proposal is recorded once, however often it is made.
ProposeOnce(p) ==
    govLog' = IF Logged(govLog, Proposed(p)) THEN govLog ELSE Append(govLog, Proposed(p))

pendingQuarantines(log) == {t \in GovTasks : Changed(log, FlakyQuarantine(t))}

\* Each has files of its own, so the order of the log is left out.
ApprovedLessons(log) == {l \in LessonIds : Changed(log, LessonPromote(l))}

-----------------------------------------------------------------------------
(* The run.  pc: what it does; proposal, lesson: with which; back: where a     *)
(* promotion returns; queue: lessons still to reconcile; confirmed: hypotheses *)
(* confirmed so far, folded into lessons after the run; loadedAt: length of    *)
(* the log the current task's lessons were reconciled against.                 *)
Down == [pc |-> "down", proposal |-> NoSubject, lesson |-> NoSubject, back |-> "down",
         queue |-> {}, loaded |-> {}, loadedAt |-> 0, confirmed |-> {}, todo |-> {}]

GovGoto(pc) == govRun' = [govRun EXCEPT !.pc = pc]
SetFile(l, dir, state) == lessonFiles' = [lessonFiles EXCEPT ![l][dir] = state]
OnlyRun == UNCHANGED <<policyFiles, govLog, lessonFiles, govCli, govSpent>>
RunAndFiles == UNCHANGED <<policyFiles, govLog, govCli, govSpent>>
RunAndLog == UNCHANGED <<policyFiles, lessonFiles, govCli, govSpent>>

\* Hash the policy files, compare with the last approved snapshot; on a mismatch
\* the run does not start, and the change is proposed unless it was before.
ensureGovernanceApproved ==
    LET before == lastApprovedPolicyHash(govLog)
        p      == PolicyChange(before, policyFiles)
    IN  /\ govRun.pc = "down"
        /\ govSpent.runs < MaxGovRuns
        /\ govSpent' = [govSpent EXCEPT !.runs = @ + 1]
        /\ govRun' = CASE before = policyFiles -> [Down EXCEPT !.pc = "between", !.todo = GovTasks]
                       [] before # policyFiles /\ Logged(govLog, Proposed(p)) -> Down
                       [] OTHER -> [Down EXCEPT !.pc = "refusing", !.proposal = p]
        /\ UNCHANGED <<policyFiles, govLog, lessonFiles, govCli>>

RecordRefusal ==
    /\ govRun.pc = "refusing"
    /\ govLog' = Append(govLog, Proposed(govRun.proposal))
    /\ govRun' = Down
    /\ RunAndLog

\* A task is loaded: quarantined in the meantime, it is never run; otherwise its
\* proposal source is built, which reconciles the lessons approved so far.
LoadTask ==
    /\ govRun.pc = "between"
    /\ \E t \in govRun.todo :
          govRun' = IF t \in pendingQuarantines(govLog)
                    THEN [govRun EXCEPT !.todo = @ \ {t}]
                    ELSE [govRun EXCEPT !.todo = @ \ {t}, !.pc = "reconciling", !.loadedAt = Len(govLog),
                                        !.queue = ApprovedLessons(govLog)]
    /\ OnlyRun

\* promoteLesson moves the file only if there is one that can be read.
StartPromotion(l, back) ==
    IF lessonFiles[l].pending = "ok"
    THEN [govRun EXCEPT !.pc = "promote", !.lesson = l, !.back = back]
    ELSE [govRun EXCEPT !.pc = back]

Reconcile ==
    /\ govRun.pc = "reconciling"
    /\ \E l \in govRun.queue :
           LET next == IF lessonFiles[l].approved # "none" THEN govRun ELSE StartPromotion(l, "reconciling")
           IN  govRun' = [next EXCEPT !.queue = @ \ {l}]
    /\ OnlyRun

\* The write of approved/<id>.json, its completion, and the removal of pending/<id>.json.
PromoteOpens ==
    /\ govRun.pc = "promote"
    /\ SetFile(govRun.lesson, "approved", "torn")
    /\ GovGoto("promote_write") /\ RunAndFiles

PromoteWrites ==
    /\ govRun.pc = "promote_write"
    /\ SetFile(govRun.lesson, "approved", "ok")
    /\ GovGoto("promote_unlink") /\ RunAndFiles

PromoteUnlinks ==
    /\ govRun.pc = "promote_unlink"
    /\ SetFile(govRun.lesson, "pending", "none")
    /\ GovGoto(govRun.back) /\ RunAndFiles

\* Files are read in hash order, an unreadable one is skipped, and the cap is applied.
loadApprovedLessons ==
    LET readable == {l \in LessonIds : lessonFiles[l].approved = "ok"}
        room     == IF Cardinality(readable) < MaxLessons THEN Cardinality(readable) ELSE MaxLessons
    IN  /\ govRun.pc = "reconciling"
        /\ govRun.queue = {}
        /\ \E taken \in SUBSET readable :
              /\ Cardinality(taken) = room
              /\ govRun' = [govRun EXCEPT !.pc = "serving", !.loaded = taken]
        /\ OnlyRun

-----------------------------------------------------------------------------
(* While a task runs: a hypothesis is confirmed, a flaky gate is reported, a   *)
(* person decides on the run's own Human Plane.                                *)
ConfirmHypothesis(l) ==
    /\ govRun.pc = "serving"
    /\ govRun' = [govRun EXCEPT !.confirmed = @ \cup {l}]
    /\ OnlyRun

\* Exported by core for the host of a gate run.
proposeFlakyQuarantine(t) ==
    /\ govRun.pc = "serving"
    /\ ProposeOnce(FlakyQuarantine(t))
    /\ UNCHANGED govRun /\ RunAndLog

ApproveLive(p) ==
    /\ govRun.pc = "serving"
    /\ p \in listPendingProposals(govLog)
    /\ govRun' = [govRun EXCEPT !.pc = "approving", !.proposal = p]
    /\ OnlyRun

\* The change is appended first; only then is its effect carried out.  A live
\* quarantine appends a TASK_STATE (SupervisedRun), which touches nothing here.
applyGovernanceApproval ==
    /\ govRun.pc = "approving"
    /\ govLog' = Append(govLog, Change(govRun.proposal))
    /\ govRun' = IF govRun.proposal.kind = "lesson_promote"
                 THEN StartPromotion(govRun.proposal.subject, "serving")
                 ELSE [govRun EXCEPT !.pc = "serving"]
    /\ RunAndLog

TaskEnds ==
    /\ govRun.pc = "serving"
    /\ govRun' = [govRun EXCEPT !.pc = "between", !.loaded = {}, !.loadedAt = 0,
                                !.proposal = NoSubject, !.lesson = NoSubject]
    /\ OnlyRun

-----------------------------------------------------------------------------
(* After the run: every confirmed hypothesis becomes a pending lesson and a    *)
(* proposal, unless a file of that lesson exists already.                      *)
foldConfirmedHypotheses ==
    /\ govRun.pc = "between"
    /\ govRun.todo = {}
    /\ govRun' = [govRun EXCEPT !.pc = "folding"]
    /\ OnlyRun

proposeLessonFromHypothesis ==
    /\ govRun.pc = "folding"
    /\ \E l \in govRun.confirmed :
          govRun' = IF lessonFiles[l] = [pending |-> "none", approved |-> "none"]
                    THEN [govRun EXCEPT !.confirmed = @ \ {l}, !.pc = "lesson", !.lesson = l]
                    ELSE [govRun EXCEPT !.confirmed = @ \ {l}]
    /\ OnlyRun

(* defect: a lesson is written to approved/ right away *)
LessonOpensApproved ==
    /\ govRun.pc = "lesson"
    /\ SetFile(govRun.lesson, "approved", "torn")
    /\ GovGoto("lesson_write") /\ RunAndFiles

LessonOpens ==
    /\ govRun.pc = "lesson"
    /\ SetFile(govRun.lesson, "pending", "torn")
    /\ GovGoto("lesson_write") /\ RunAndFiles

LessonWrites ==
    /\ govRun.pc = "lesson_write"
    /\ SetFile(govRun.lesson, "pending", "ok")
    /\ GovGoto("lesson_propose") /\ RunAndFiles

proposeLessonPromotion ==
    /\ govRun.pc = "lesson_propose"
    /\ ProposeOnce(LessonPromote(govRun.lesson))
    /\ GovGoto("folding") /\ RunAndLog

GovRunEnds ==
    /\ govRun.pc = "folding"
    /\ govRun.confirmed = {}
    /\ govRun' = Down
    /\ OnlyRun

GovRunCrashes ==
    /\ govRun.pc # "down"
    /\ govRun' = Down
    /\ OnlyRun

-----------------------------------------------------------------------------
(* The other process, and the person at the policy files.                      *)
CliReads(p) ==
    /\ govCli = NoSubject
    /\ p \in listPendingProposals(govLog)
    /\ govCli' = p
    /\ UNCHANGED <<policyFiles, govLog, lessonFiles, govRun, govSpent>>

\* No lock is held between the read and the append.
approveProposal ==
    /\ govCli # NoSubject
    /\ govLog' = Append(govLog, Change(govCli))
    /\ govCli' = NoSubject
    /\ UNCHANGED <<policyFiles, lessonFiles, govRun, govSpent>>

EditPolicy(s) ==
    /\ govSpent.edits < MaxPolicyEdits
    /\ s # policyFiles
    /\ policyFiles' = s
    /\ govSpent' = [govSpent EXCEPT !.edits = @ + 1]
    /\ UNCHANGED <<govLog, lessonFiles, govRun, govCli>>

\* A fixture starts with its snapshot approved by "ci-fixture"; otherwise the log is empty.
seedFixtureSnapshot(s) == <<Change(PolicyChange(NoSnapshot, s))>>

GovernanceInit ==
    /\ policyFiles \in Snapshots
    /\ govLog \in {<<>>, seedFixtureSnapshot(policyFiles)}
    /\ lessonFiles = [l \in LessonIds |-> [d \in LessonDirs |-> "none"]]
    /\ govRun = Down
    /\ govCli = NoSubject
    /\ govSpent = [edits |-> 0, runs |-> 0]

GovernanceNext ==
    \/ ensureGovernanceApproved \/ RecordRefusal
    \/ LoadTask \/ Reconcile \/ loadApprovedLessons
    \/ PromoteOpens \/ PromoteWrites \/ PromoteUnlinks
    \/ \E l \in LessonIds : ConfirmHypothesis(l)
    \/ \E t \in GovTasks : proposeFlakyQuarantine(t)
    \/ \E p \in listPendingProposals(govLog) : ApproveLive(p) \/ CliReads(p)
    \/ applyGovernanceApproval \/ TaskEnds
    \/ foldConfirmedHypotheses \/ proposeLessonFromHypothesis
    \/ LessonOpens \/ LessonWrites \/ proposeLessonPromotion
    \/ GovRunEnds \/ GovRunCrashes
    \/ approveProposal
    \/ \E s \in Snapshots : EditPolicy(s)

GovernanceSpec == GovernanceInit /\ [][GovernanceNext]_govVars

-----------------------------------------------------------------------------
RunPlaces ==
    {"down", "refusing", "between", "reconciling", "promote", "promote_write", "promote_unlink",
     "serving", "approving", "folding", "lesson", "lesson_write", "lesson_propose"}
GovRunType ==
    [pc : RunPlaces, proposal : governanceProposalId \cup {NoSubject}, lesson : LessonIds \cup {NoSubject},
     back : {"down", "reconciling", "serving"}, queue : SUBSET LessonIds, loaded : SUBSET LessonIds,
     loadedAt : Nat, confirmed : SUBSET LessonIds, todo : SUBSET GovTasks]

\* The shape of the state: files, log and the two processes.
GovernanceTypeOK ==
    /\ policyFiles \in Snapshots
    /\ govLog \in Seq([type : {"GOVERNANCE_PROPOSED", "GOVERNANCE_CHANGE"}, p : governanceProposalId])
    /\ lessonFiles \in [LessonIds -> [LessonDirs -> FileStates]]
    /\ govCli \in governanceProposalId \cup {NoSubject}
    /\ govRun \in GovRunType
    /\ govSpent \in [edits : 0..MaxPolicyEdits, runs : 0..MaxGovRuns]

\* A lesson reaches approved/, and with it a prompt, only when the log holds a
\* person's approval of it -- whichever process approved it, and wherever a crash
\* cut a promotion short (INV-16).
LessonsAreApproved ==
    \A l \in LessonIds :
        lessonFiles[l].approved # "none" \/ l \in govRun.loaded => Changed(govLog, LessonPromote(l))

\* A lesson that was proposed, and so may be approved or has been, keeps a complete
\* file, wherever a crash cut its writing or its promotion short and whoever
\* approved it: the copy in pending/ is removed only after the one in approved/ is
\* complete, and no lesson is written over.
NoLessonIsLost ==
    \A l \in LessonIds :
        Logged(govLog, Proposed(LessonPromote(l))) \/ Changed(govLog, LessonPromote(l))
            => "ok" \in {lessonFiles[l].pending, lessonFiles[l].approved}

\* The one approval that never takes effect: the run died while it wrote the file in
\* approved/.  From then on the sweep takes the lesson for promoted, as the file
\* exists (lessons.ts:169), and the load skips it, as it cannot be parsed
\* (lessons.ts:185-191), although the copy in pending/ is complete.
PromotionCutShort(l) == lessonFiles[l].approved = "torn" /\ lessonFiles[l].pending = "ok"

\* While a task runs, every lesson whose approval was in the log when the task
\* loaded its lessons has a complete file in approved/, also one approved while no
\* run was live and one whose run died before or after it wrote the file -- but not
\* one whose run died during the write.
ApprovalsTakeEffect ==
    govRun.pc = "serving" =>
        \A l \in LessonIds :
            (\E i \in 1..govRun.loadedAt : govLog[i] = Change(LessonPromote(l)))
                => lessonFiles[l].approved = "ok" \/ PromotionCutShort(l)

\* All three.
GovernanceIsHonoured == LessonsAreApproved /\ NoLessonIsLost /\ ApprovalsTakeEffect
=============================================================================
