--------------------------- MODULE ApprovedMerge ---------------------------
(***************************************************************************)
(* From REVIEWING to COMPLETED: runAutoMerge and runApprovedMerge of       *)
(* core/src/merge/auto-merge.ts, the T2-gated queue of merge/queue.ts and  *)
(* the bindings of merge/artifact-binding.ts, for tasks whose processes    *)
(* share one repository.                                                   *)
(*                                                                         *)
(* An action is what one process does between two places where another may *)
(* get in: a git command that reads or writes a ref or the integration     *)
(* worktree, and the awaits of T2, of the audit and of the human.  Other   *)
(* hands push to main and to task branches, task leases are lost, the      *)
(* lease of the queue lapses during T2 and processes die, all at any time. *)
(***************************************************************************)
EXTENDS TaskMachine, Naturals, Sequences, SequencesExt

CONSTANTS
    Tasks,
    NoTask,     \* the task of a commit made by others, the owner of a free queue
    NoBase,     \* a report not bound to a base commit
    MaxOthers   \* bound: commits made to main by others

ASSUME MergeAssumption ==
    /\ NoTask \notin Tasks
    /\ NoBase \notin Seq([kind : {"merge", "revert", "other"},
                          task : Tasks \cup {NoTask}, rev : {0, 1}])
    /\ MaxOthers \in Nat

VARIABLES
    main,       \* the first-parent history of the main branch, which names its tip
    tip,        \* task -> the revision its branch points to
    worktree,   \* HEAD of the integration worktree all queues share
    queue,      \* the merge-queue lease: its owner and whether it is live
    task        \* task -> its state and the locals of its merge

vars == <<main, tip, worktree, queue, task>>

(* Revision 0 of a branch is the tree T1 ran on, which the report's        *)
(* worktreeHash names; revision 1 is a later push.                         *)
Gated == 0
Revisions == {0, 1}
Entry == [kind : {"merge", "revert", "other"}, task : Tasks \cup {NoTask}, rev : Revisions]
Commit == Seq(Entry)
Merged(t, rev) == [kind |-> "merge", task |-> t, rev |-> rev]
Reverted(t) == [kind |-> "revert", task |-> t, rev |-> Gated]
Other == [kind |-> "other", task |-> NoTask, rev |-> Gated]

Places == {"reviewing", "package", "granted", "approved", "queue", "reset", "candidate", "t2",
           "prepare", "update", "result", "audit", "auditing", "revert", "reverted", "completion"}
Over == {"done", "thrown", "crashed"}
Failures == {"evidence", "conflict", "t2_failed", "preparation", "audit_mismatch"}

(* authorizedReport is `base` and `artifact`, bound once `base` is not      *)
(* NoBase; `merge` is mergeCommit, the empty history before there is one.   *)
Merging ==
    [state : TaskState, at : Places \cup Over, queued : BOOLEAN, owned : BOOLEAN,
     base : Commit \cup {NoBase}, artifact : Revisions, merge : Commit,
     t2 : {"none", "pass", "fail", "not_enabled"},
     why : Failures \cup {"none", "fenced", "contention", "worktree", "rejected", "timeout"}]

TypeOK ==
    /\ main \in Commit
    /\ tip \in [Tasks -> Revisions]
    /\ worktree \in Commit
    /\ queue \in [owner : Tasks \cup {NoTask}, live : BOOLEAN]
    /\ task \in [Tasks -> Merging]

Free == [owner |-> NoTask, live |-> FALSE]

Init ==
    /\ main = <<>>
    /\ tip = [t \in Tasks |-> Gated]
    /\ worktree = <<>>
    /\ queue = Free
    /\ \E queued \in [Tasks -> BOOLEAN] :
         task = [t \in Tasks |->
                   [state |-> "REVIEWING", at |-> "reviewing", queued |-> queued[t],
                    owned |-> TRUE, base |-> NoBase, artifact |-> Gated, merge |-> <<>>,
                    t2 |-> "none", why |-> "none"]]

------------------------------------------------------------------------------
(* Steps of one task *)

Goto(t, place) == task' = [task EXCEPT ![t].at = place]

(* defect: the answer of the table is taken as it comes *)
EscalatedUnchecked(state) == transition(state, "escalate")

(* move('escalate') fires whatever the state is; the table refuses it in   *)
(* APPROVED, move logs an ERROR and the ESCALATED event follows all the    *)
(* same.                                                                   *)
Escalated(state) ==
    IF transition(state, "escalate") = IllegalTransition THEN state
    ELSE transition(state, "escalate")

Failed(t, why) ==
    task' = [task EXCEPT ![t].state = Escalated(@), ![t].at = "done", ![t].why = why]

(* assertOwnership throws LeaseFenceError: the caller reports ESCALATED and *)
(* moves no state.                                                          *)
FencedOut(t) ==
    /\ ~task[t].owned
    /\ task' = [task EXCEPT ![t].at = "done", ![t].why = "fenced"]
    /\ UNCHANGED <<main, tip, worktree, queue>>

At(t, place) == task[t].at = place

(* defect: the tree of the branch is not compared with the gated one *)
AnyTree(rev) == rev \in Revisions

(* the tree of the commit is the report's worktreeHash *)
GatedTree(rev) == rev = Gated

(* verifyTaskArtifactBinding: main and the branch still are what was signed *)
TaskBound(t) ==
    /\ main = task[t].base
    /\ tip[t] = task[t].artifact
    /\ GatedTree(tip[t])

(* defect: the parents of the merge commit are not looked at *)
AnyTopology(t, commit) == commit # <<>>

(* verifyMergeTopology: the parents of a merge commit *)
MergeTopology(t, commit) == commit = Append(task[t].base, Merged(t, task[t].artifact))

(* verifyMergedArtifactBinding with requireCurrentRef *)
MergeBound(t) ==
    /\ MergeTopology(t, task[t].merge)
    /\ GatedTree(task[t].artifact)
    /\ main = task[t].merge

------------------------------------------------------------------------------
(* The decision: runAutoMerge, and the human plane when it declines *)

RiskRank == [L0 |-> 0, L1 |-> 1, L2 |-> 2, L3 |-> 3, L4 |-> 4]
AutoApproveInput ==
    [risk : DOMAIN RiskRank \cup {"null"}, gatesGreen : BOOLEAN,
     criteria : {"none", "golden", "mixed"}, depTouch : BOOLEAN]

decideAutoApprove(input) ==
    LET declared == IF input.risk = "null" THEN RiskRank.L2 ELSE RiskRank[input.risk]
        effective == IF input.depTouch /\ declared < RiskRank.L2 THEN RiskRank.L2 ELSE declared
    IN  input.gatesGreen /\ input.criteria = "golden" /\ effective <= RiskRank.L1

(* bindGateReportToTaskArtifact signs whatever main and the branch are now, *)
(* provided the branch carries the gated tree.                              *)
runAutoMerge(t) ==
    /\ At(t, "reviewing")
    /\ \/ ~GatedTree(tip[t]) /\ Failed(t, "evidence")
       \/ /\ GatedTree(tip[t])
          /\ \E approve \in {decideAutoApprove(input) : input \in AutoApproveInput} :
               task' = [task EXCEPT
                          ![t].base = main, ![t].artifact = tip[t],
                          ![t].state = IF approve THEN transition(@, "auto_approved") ELSE @,
                          ![t].at = IF approve THEN "approved" ELSE "package"]
    /\ UNCHANGED <<main, tip, worktree, queue>>

(* POST /approvals/<id>: the evidence is verified for either decision, and  *)
(* a decision counts only while the run holds the task.                     *)
decide(t) ==
    /\ At(t, "package")
    /\ task[t].owned
    /\ \/ ~TaskBound(t) /\ Failed(t, "evidence")
       \/ /\ TaskBound(t)
          /\ task' = [task EXCEPT ![t].state = transition(@, "human_approved"),
                                  ![t].at = "granted"]
       \/ /\ TaskBound(t)
          /\ task' = [task EXCEPT ![t].state = transition(@, "changes_requested"),
                                  ![t].at = "done", ![t].why = "rejected"]
    /\ UNCHANGED <<main, tip, worktree, queue>>

approvalTimeout(t) ==
    /\ At(t, "package")
    /\ task[t].owned
    /\ Failed(t, "timeout")
    /\ UNCHANGED <<main, tip, worktree, queue>>

------------------------------------------------------------------------------
(* runApprovedMerge *)

enter(t) ==
    /\ At(t, "approved") \/ (At(t, "granted") /\ task[t].owned)
    /\ IF TaskBound(t)
       THEN task' = [task EXCEPT ![t].state = transition(@, "merge_queued"),
                                 ![t].at = IF task[t].queued THEN "queue" ELSE "prepare"]
       ELSE Failed(t, "evidence")
    /\ UNCHANGED <<main, tip, worktree, queue>>

(* defect: update-ref without the expected old value *)
updateRefBlindly(t) ==
    /\ At(t, "update")
    /\ task[t].owned
    /\ main' = task[t].merge
    /\ Goto(t, "result")
    /\ UNCHANGED <<tip, worktree, queue>>

(* The direct path: a merge commit prepared in a detached worktree of its  *)
(* own, then one update-ref with the signed base as the expected old value.*)
prepareDetachedMerge(t) ==
    /\ At(t, "prepare")
    /\ task[t].owned
    /\ \/ task' = [task EXCEPT ![t].at = "update",
                     ![t].merge = Append(task[t].base, Merged(t, task[t].artifact))]
       \/ \E why \in {"conflict", "preparation"} : Failed(t, why)
    /\ UNCHANGED <<main, tip, worktree, queue>>

updateRef(t) ==
    /\ At(t, "update")
    /\ task[t].owned
    /\ IF main = task[t].base
       THEN main' = task[t].merge /\ Goto(t, "result")
       ELSE Failed(t, "evidence") /\ UNCHANGED main
    /\ UNCHANGED <<tip, worktree, queue>>

------------------------------------------------------------------------------
(* The queue: process(candidate), of which `finally` releases the lease *)

Claimable(t) == queue.owner \in {NoTask, t} \/ ~queue.live

(* defect: release deletes the row whoever owns it *)
releaseAny(t) == queue' = Free

(* release names the owner only: it deletes a lapsed row of its own, never  *)
(* the row of a candidate that took over.                                   *)
release(t) == queue' = IF queue.owner = t THEN Free ELSE queue

(* Without the lease process throws a plain Error, which nobody catches. *)
claim(t) ==
    /\ At(t, "queue")
    /\ task[t].owned
    /\ \/ /\ ~Claimable(t)
          /\ task' = [task EXCEPT ![t].at = "thrown", ![t].why = "contention"]
          /\ UNCHANGED queue
       \/ Claimable(t) /\ TaskBound(t) /\ Goto(t, "reset") /\ queue' = [owner |-> t, live |-> TRUE]
       \/ Claimable(t) /\ ~TaskBound(t) /\ Failed(t, "evidence") /\ queue' = Free
    /\ UNCHANGED <<main, tip, worktree>>

(* ensureWorktreeAtMainHead: git reset --hard and clean of the shared       *)
(* worktree.  It throws a plain Error, which nobody catches, when there is  *)
(* no worktree, or when it is not clean afterwards.  A reset that fails and *)
(* leaves the worktree clean is not modelled: what stops it, a lock left in *)
(* the index, stops the merge that follows as well.                         *)
reset(t) ==
    /\ At(t, "reset")
    /\ \/ worktree' = main /\ main = task[t].base /\ Goto(t, "candidate") /\ UNCHANGED queue
       \/ worktree' = main /\ main # task[t].base /\ Failed(t, "evidence") /\ release(t)
       \/ /\ worktree' \in {worktree, main}
          /\ task' = [task EXCEPT ![t].at = "thrown", ![t].why = "worktree"]
          /\ release(t)
    /\ UNCHANGED <<main, tip>>

mergeCandidate(t) ==
    /\ At(t, "candidate")
    /\ \/ /\ worktree' = Append(worktree, Merged(t, task[t].artifact))
          /\ Goto(t, "t2")
          /\ UNCHANGED queue
       \/ Failed(t, "conflict") /\ release(t) /\ UNCHANGED worktree
    /\ UNCHANGED <<main, tip>>

(* T2 ran on the tree frozen when it started; what advances main is read   *)
(* from the worktree when it has ended.                                    *)
t2Ends(t) ==
    /\ At(t, "t2")
    /\ release(t)
    /\ \/ task' = [task EXCEPT ![t].state = Escalated(@), ![t].at = "done",
                               ![t].why = "t2_failed", ![t].t2 = "fail"]
          /\ UNCHANGED main
       \/ Failed(t, "evidence") /\ UNCHANGED main
       \/ \E verdict \in {"pass", "not_enabled"} :
            IF main = task[t].base
            THEN /\ main' = worktree
                 /\ task' = [task EXCEPT ![t].at = "result", ![t].t2 = verdict,
                                         ![t].merge = worktree]
            ELSE /\ task' = [task EXCEPT ![t].state = Escalated(@), ![t].at = "done",
                                         ![t].why = "evidence", ![t].t2 = verdict]
                 /\ UNCHANGED main
    /\ UNCHANGED <<tip, worktree>>

------------------------------------------------------------------------------
(* After main has advanced *)

(* defect: a merge commit that is not what was signed ends the run, and no *)
(* escalation tells                                                        *)
resultUnescalated(t) ==
    /\ At(t, "result")
    /\ IF MergeBound(t) THEN \E next \in {"audit", "completion"} : Goto(t, next)
       ELSE task' = [task EXCEPT ![t].at = "done", ![t].why = "evidence"]
    /\ UNCHANGED <<main, tip, worktree, queue>>

(* The report is bound to the merge commit; the sampling is a hash of run  *)
(* and task, so either way for some task.                                  *)
mergeResult(t) ==
    /\ At(t, "result")
    /\ IF MergeBound(t) THEN \E next \in {"audit", "completion"} : Goto(t, next)
       ELSE Failed(t, "evidence")
    /\ UNCHANGED <<main, tip, worktree, queue>>

auditGate(t) ==
    /\ At(t, "audit")
    /\ task[t].owned
    /\ Goto(t, "auditing")
    /\ UNCHANGED <<main, tip, worktree, queue>>

(* T1 again in a clean checkout; its GATE_RESULT is fenced *)
auditResult(t) ==
    /\ At(t, "auditing")
    /\ task[t].owned
    /\ IF MergeBound(t) THEN \E next \in {"completion", "revert"} : Goto(t, next)
       ELSE Failed(t, "evidence")
    /\ UNCHANGED <<main, tip, worktree, queue>>

(* Check main out in the repository and revert the merge there; nobody      *)
(* looks at how either ends.  The revert may meet what others committed, or *)
(* the files of a working tree left behind by update-ref, and make no       *)
(* commit; and where main could not be checked out, it is committed to the  *)
(* branch that is.                                                          *)
revertMerge(t) ==
    /\ At(t, "revert")
    /\ task[t].owned
    /\ \/ main' = Append(main, Reverted(t)) /\ UNCHANGED tip
       \/ UNCHANGED <<main, tip>>
       \/ \E u \in Tasks : tip' = [tip EXCEPT ![u] = 1] /\ UNCHANGED main
    /\ Goto(t, "reverted")
    /\ UNCHANGED <<worktree, queue>>

escalateMismatch(t) ==
    /\ At(t, "reverted")
    /\ Failed(t, "audit_mismatch")
    /\ UNCHANGED <<main, tip, worktree, queue>>

complete(t) ==
    /\ At(t, "completion")
    /\ IF MergeBound(t)
       THEN task' = [task EXCEPT ![t].at = "done",
                       ![t].state = transition(transition(@, "audited"), "completed")]
       ELSE Failed(t, "evidence")
    /\ UNCHANGED <<main, tip, worktree, queue>>

fencedOut(t) ==
    /\ \E place \in {"package", "granted", "queue", "prepare", "update", "audit",
                     "auditing", "revert"} : At(t, place)
    /\ FencedOut(t)

------------------------------------------------------------------------------
(* What goes on around *)

OthersCommits == Len(SelectSeq(main, LAMBDA entry : entry.kind = "other"))

commitByOthers ==
    /\ OthersCommits < MaxOthers
    /\ main' = Append(main, Other)
    /\ UNCHANGED <<tip, worktree, queue, task>>

pushToBranch(t) ==
    /\ tip[t] = Gated
    /\ tip' = [tip EXCEPT ![t] = 1]
    /\ UNCHANGED <<main, worktree, queue, task>>

loseTask(t) ==
    /\ task[t].owned
    /\ task' = [task EXCEPT ![t].owned = FALSE]
    /\ UNCHANGED <<main, tip, worktree, queue>>

(* The queue's lease is taken for ten minutes and never renewed.  Only T2  *)
(* may take that long: a tier has several checks of up to five minutes.    *)
queueLapses ==
    /\ queue.live
    /\ \E t \in Tasks : queue.owner = t /\ task[t].at \in {"t2", "crashed"}
    /\ queue' = [queue EXCEPT !.live = FALSE]
    /\ UNCHANGED <<main, tip, worktree, task>>

crash(t) ==
    /\ task[t].at \in Places
    /\ Goto(t, "crashed")
    /\ UNCHANGED <<main, tip, worktree, queue>>

Step(t) ==
    \/ runAutoMerge(t) \/ decide(t) \/ approvalTimeout(t) \/ enter(t)
    \/ prepareDetachedMerge(t) \/ updateRef(t)
    \/ claim(t) \/ reset(t) \/ mergeCandidate(t) \/ t2Ends(t)
    \/ mergeResult(t) \/ auditGate(t) \/ auditResult(t)
    \/ revertMerge(t) \/ escalateMismatch(t) \/ complete(t)
    \/ fencedOut(t)

Next ==
    \/ \E t \in Tasks : Step(t) \/ pushToBranch(t) \/ loseTask(t) \/ crash(t)
    \/ commitByOthers \/ queueLapses

Spec == Init /\ [][Next]_vars

------------------------------------------------------------------------------
(* Properties *)

(* What is COMPLETED was merged on the commit its report was signed for,   *)
(* with the tree the gates ran on, and is on main for good: no audit takes *)
(* it back and no rival's push replaces it (auto-merge.ts, completion).    *)
CompletedAsSigned ==
    \A t \in Tasks : task[t].state = "COMPLETED" =>
        /\ task[t].merge = Append(task[t].base, Merged(t, Gated))
        /\ IsPrefix(task[t].merge, main)
        /\ \A i \in DOMAIN main : main[i] # Reverted(t)

(* Every merge on main, also one that another candidate's process put      *)
(* there, is gated work on top of exactly the commit its task's report     *)
(* was signed for.                                                         *)
OnlyGatedWorkOnMain ==
    \A i \in DOMAIN main : main[i].kind = "merge" =>
        /\ main[i].rev = Gated
        /\ task[main[i].task].base = SubSeq(main, 1, i - 1)

(* What is on main has somebody to answer for it.  A merge, also one that   *)
(* another candidate's process put there, belongs to a task that is still   *)
(* at it, COMPLETED or ESCALATED; only a lost lease or a death leaves it    *)
(* without an outcome.  A revert takes back a merge that stands below it,   *)
(* once, and its task is ESCALATED for the mismatch next, unless its        *)
(* process dies first.                                                      *)
AtWork(t) == task[t].at \in Places \cup {"crashed"}
Withdrawn(t) ==
    \/ task[t].at \in {"reverted", "crashed"} /\ task[t].state = "MERGE_QUEUED"
    \/ task[t].why = "audit_mismatch" /\ task[t].state = "ESCALATED"
MergesAreAnsweredFor ==
    \A i \in DOMAIN main : main[i].kind = "merge" =>
        \/ AtWork(main[i].task)
        \/ task[main[i].task].state \in {"COMPLETED", "ESCALATED"}
        \/ task[main[i].task].why = "fenced"
RevertsAreAnsweredFor ==
    \A i \in DOMAIN main : main[i].kind = "revert" =>
        /\ Withdrawn(main[i].task)
        /\ \E j \in 1..(i - 1) : main[j] = Merged(main[i].task, Gated)
        /\ \A j \in 1..(i - 1) : main[j] # main[i]
MainIsAnsweredFor == MergesAreAnsweredFor /\ RevertsAreAnsweredFor

(* Whoever resets the shared worktree or merges in it holds the live lease *)
(* of the queue: no other candidate, late or lapsed, frees it under him.   *)
WorktreeHasOneWriter ==
    \A t \in Tasks : task[t].at \in {"reset", "candidate"} =>
        queue = [owner |-> t, live |-> TRUE]

(* The header of queue.ts: main advances only on a T2 pass (a T2 that is   *)
(* not enabled counts, queue.ts:195).                                      *)
MainOnlyAfterT2 ==
    \A i \in DOMAIN main : main[i].kind = "merge" /\ task[main[i].task].queued =>
        task[main[i].task].t2 \in {"pass", "not_enabled"}

(* The comment of runApprovedMerge: escalate on any failure.               *)
EscalatedOnFailure ==
    \A t \in Tasks : task[t].why \in Failures => task[t].state = "ESCALATED"

(* main is the ledger of MergeLedger *)
Ledger == INSTANCE MergeLedger WITH
    signed <- [t \in Tasks |-> task[t].base],
    completed <- {t \in Tasks : task[t].state = "COMPLETED"}

(* The detailed merge implements the ledger: main only grows, by gated     *)
(* work on its signed base, by reverts of what is not completed, and by    *)
(* others; a task completes only when its merge is the tip.                *)
ImplementsLedger == Ledger!LedgerSpec
==============================================================================
