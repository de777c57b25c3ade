------------------------- MODULE ApprovedMergeProofs -------------------------
(***************************************************************************)
(* What ApprovedMerge guarantees for any set of tasks and any number of    *)
(* commits by others.  The inductive invariant ties each task's state to   *)
(* the place of its merge (Shape), main to the reports that were signed    *)
(* for it (MainIsSigned), and the shared worktree to the candidates that   *)
(* held the queue (WorktreeIsSigned).                                      *)
(***************************************************************************)
EXTENDS ApprovedMerge, SequenceTheorems, TLAPS

InMerge == Places \ {"reviewing", "package", "granted", "approved"}

ItsMerge(t) == Append(task[t].base, Merged(t, Gated))

(* Where a task is in its merge, and what its state and report are there.  *)
Shape(t) ==
    /\ task[t].artifact = Gated
    /\ task[t].at = "reviewing" => task[t].base = NoBase
    /\ task[t].at \in Places \ {"reviewing"} => task[t].base # NoBase
    /\ task[t].at \in {"reviewing", "package"} => task[t].state = "REVIEWING"
    /\ task[t].at \in {"granted", "approved"} => task[t].state = "APPROVED"
    /\ task[t].at \in InMerge => task[t].state = "MERGE_QUEUED"
    /\ task[t].at \in Places => task[t].why = "none"
    /\ task[t].why = "audit_mismatch" => task[t].state = "ESCALATED"
    /\ \/ task[t].at \in {"update", "revert"}
       \/ task[t].state = "COMPLETED"
       => task[t].base # NoBase /\ task[t].merge = ItsMerge(t)

(* A task past its merge: still at its way to an outcome, interrupted, or   *)
(* over with one.                                                           *)
AfterMerge == {"t2", "result", "audit", "auditing", "revert", "reverted", "completion"}
Landed(t) ==
    \/ task[t].at \in AfterMerge \cup {"crashed"}
    \/ /\ task[t].at = "done"
       /\ task[t].state \in {"COMPLETED", "ESCALATED"} \/ task[t].why = "fenced"

(* The commit a report was signed for stays on main, whatever landed there *)
(* landed on it, and what is reverted is not completed.                    *)
MainIsSigned ==
    /\ \A t \in Tasks : task[t].base # NoBase => IsPrefix(task[t].base, main)
    /\ OnlyGatedWorkOnMain
    /\ \A i \in DOMAIN main : main[i].kind # "other" => main[i].task \in Tasks
    /\ \A i \in DOMAIN main : main[i].kind = "merge" => Landed(main[i].task)
    /\ RevertsAreAnsweredFor
    /\ \A t \in Tasks : task[t].at = "revert" \/ task[t].state = "COMPLETED"
         => IsPrefix(task[t].merge, main)

(* The worktree is a commit of main or one candidate's merge, and while a  *)
(* candidate runs T2 it never falls behind that candidate's base.          *)
WorktreeIsSigned ==
    /\ WorktreeHasOneWriter
    /\ \A t \in Tasks : task[t].at = "candidate" => worktree = task[t].base
    /\ \A t \in Tasks : task[t].at = "t2" => IsPrefix(task[t].base, worktree)
    /\ \/ IsPrefix(worktree, main)
       \/ \E t \in Tasks : Landed(t) /\ task[t].base # NoBase /\ worktree = ItsMerge(t)

IInv ==
    /\ TypeOK
    /\ \A t \in Tasks : Shape(t)
    /\ MainIsSigned
    /\ WorktreeIsSigned

------------------------------------------------------------------------------
(* The moves of the merge, from the states in which it makes them.         *)
LEMMA Transitions ==
    /\ transition("REVIEWING", "auto_approved") = "APPROVED"
    /\ transition("REVIEWING", "human_approved") = "APPROVED"
    /\ transition("REVIEWING", "changes_requested") = "CHANGES_REQUESTED"
    /\ transition("APPROVED", "merge_queued") = "MERGE_QUEUED"
    /\ transition(transition("MERGE_QUEUED", "audited"), "completed") = "COMPLETED"
  <1>1. transition("MERGE_QUEUED", "audited") = "AUDITED"
    BY DEF transition, TABLE, UNIVERSAL, IllegalTransition
  <1>2. transition("AUDITED", "completed") = "COMPLETED"
    BY DEF transition, TABLE, UNIVERSAL, IllegalTransition
  <1> QED
    BY <1>1, <1>2 DEF transition, TABLE, UNIVERSAL, IllegalTransition

(* APPROVED is the one working state from which nothing is escalated.      *)
LEMMA Escalation ==
    /\ Escalated("REVIEWING") = "ESCALATED"
    /\ Escalated("MERGE_QUEUED") = "ESCALATED"
    /\ Escalated("APPROVED") = "APPROVED"
BY DEF Escalated, transition, UNIVERSAL, ActiveStates, IllegalTransition

(* The commits that the merge makes.                                       *)
LEMMA Commits ==
    /\ \A t \in Tasks, rev \in Revisions : Merged(t, rev) \in Entry
    /\ \A t \in Tasks : Reverted(t) \in Entry
    /\ Other \in Entry
    /\ NoBase \notin Commit
    /\ <<>> \in Commit
BY MergeAssumption DEF Merged, Reverted, Other, Entry, Commit, Revisions, Gated

(* The fields of a task, one by one, and the combinations that steps set.  *)
Setting == [Tasks -> Merging]
Reasons == Failures \cup {"none", "fenced", "contention", "worktree", "rejected", "timeout"}
Verdicts == {"none", "pass", "fail", "not_enabled"}

LEMMA FieldTyped ==
    ASSUME NEW f \in Setting, NEW t \in Tasks
    PROVE  /\ \A x \in Places \cup Over : [f EXCEPT ![t].at = x] \in Setting
           /\ \A x \in TaskState : [f EXCEPT ![t].state = x] \in Setting
           /\ \A x \in Reasons : [f EXCEPT ![t].why = x] \in Setting
           /\ \A x \in Commit : [f EXCEPT ![t].merge = x] \in Setting
           /\ \A x \in Commit : [f EXCEPT ![t].base = x] \in Setting
           /\ \A x \in Revisions : [f EXCEPT ![t].artifact = x] \in Setting
           /\ \A x \in Verdicts : [f EXCEPT ![t].t2 = x] \in Setting
           /\ [f EXCEPT ![t].owned = FALSE] \in Setting
  <1> USE DEF Setting, Merging, Reasons, Verdicts
  <1>1. ASSUME NEW x \in Places \cup Over PROVE [f EXCEPT ![t].at = x] \in Setting
    BY ZenonT(30)
  <1>2. ASSUME NEW x \in TaskState PROVE [f EXCEPT ![t].state = x] \in Setting
    BY ZenonT(30)
  <1>3. ASSUME NEW x \in Reasons PROVE [f EXCEPT ![t].why = x] \in Setting
    BY ZenonT(30)
  <1>4. ASSUME NEW x \in Commit PROVE [f EXCEPT ![t].merge = x] \in Setting
    BY ZenonT(30)
  <1>5. ASSUME NEW x \in Commit PROVE [f EXCEPT ![t].base = x] \in Setting
    BY ZenonT(30)
  <1>6. ASSUME NEW x \in Revisions PROVE [f EXCEPT ![t].artifact = x] \in Setting
    BY ZenonT(30)
  <1>7. ASSUME NEW x \in Verdicts PROVE [f EXCEPT ![t].t2 = x] \in Setting
    BY ZenonT(30)
  <1>8. [f EXCEPT ![t].owned = FALSE] \in Setting
    BY ZenonT(30)
  <1> HIDE DEF Setting, Merging, Reasons, Verdicts
  <1> QED
    BY <1>1, <1>2, <1>3, <1>4, <1>5, <1>6, <1>7, <1>8

LEMMA EffectTyped ==
    ASSUME NEW f \in Setting, NEW t \in Tasks, NEW place \in Places \cup Over
    PROVE  /\ [f EXCEPT ![t].at = place] \in Setting
           /\ \A why \in Reasons : [f EXCEPT ![t].at = place, ![t].why = why] \in Setting
           /\ \A commit \in Commit : [f EXCEPT ![t].at = place, ![t].merge = commit] \in Setting
           /\ \A state \in TaskState :
                /\ [f EXCEPT ![t].at = place, ![t].state = state] \in Setting
                /\ [f EXCEPT ![t].state = state, ![t].at = place] \in Setting
                /\ \A why \in Reasons :
                     /\ [f EXCEPT ![t].state = state, ![t].at = place,
                                  ![t].why = why] \in Setting
                     /\ \A verdict \in Verdicts :
                          [f EXCEPT ![t].state = state, ![t].at = place, ![t].why = why,
                                    ![t].t2 = verdict] \in Setting
                /\ \A commit \in Commit, rev \in Revisions :
                     [f EXCEPT ![t].base = commit, ![t].artifact = rev, ![t].state = state,
                               ![t].at = place] \in Setting
           /\ \A commit \in Commit, verdict \in Verdicts :
                [f EXCEPT ![t].at = place, ![t].t2 = verdict, ![t].merge = commit] \in Setting
BY FieldTyped, ZenonT(60)

(* The values a step writes are of the right kinds.                        *)
LEMMA Kinds ==
    /\ {"REVIEWING", "APPROVED", "CHANGES_REQUESTED", "MERGE_QUEUED", "COMPLETED",
        "ESCALATED"} \subseteq TaskState
    /\ Places \subseteq Places \cup Over
    /\ {"done", "thrown", "crashed"} \subseteq Places \cup Over
    /\ Failures \cup {"fenced", "contention", "worktree", "rejected", "timeout"} \subseteq Reasons
    /\ {"pass", "fail", "not_enabled"} \subseteq Verdicts
BY DEF TaskState, ActiveStates, TerminalStates, Over, Reasons, Verdicts

(* What a step that fails writes is well typed.                            *)
LEMMA FailedTyped ==
    ASSUME task \in Setting, NEW t \in Tasks, Shape(t), task[t].at \in Places,
           NEW why \in Failures \cup {"timeout"}, Failed(t, why)
    PROVE  task' \in Setting
  <1> DEFINE state == Escalated(task[t].state)
  <1>1. state \in TaskState
    BY Escalation, Kinds DEF Shape, Places, InMerge
  <1>2. "done" \in Places \cup Over /\ why \in Reasons
    BY Kinds
  <1>3. task' = [task EXCEPT ![t].state = state, ![t].at = "done", ![t].why = why]
    BY DEF Failed
  <1> HIDE DEF state
  <1> DEFINE new == [task EXCEPT ![t].state = state, ![t].at = "done", ![t].why = why]
  <1>4. new \in Setting
    BY <1>1, <1>2, EffectTyped, Zenon
  <1> QED
    BY <1>3, <1>4

(* The three things a decision can lead to.                                *)
LEMMA DecideCases ==
    ASSUME NEW t \in Tasks, Shape(t), decide(t)
    PROVE  \/ Failed(t, "evidence")
           \/ task' = [task EXCEPT ![t].state = "APPROVED", ![t].at = "granted"]
           \/ task' = [task EXCEPT ![t].state = "CHANGES_REQUESTED",
                                   ![t].at = "done", ![t].why = "rejected"]
  <1>1. task[t].state = "REVIEWING"
    BY DEF decide, At, Shape, Places
  <1>2. /\ transition(task[t].state, "human_approved") = "APPROVED"
        /\ transition(task[t].state, "changes_requested") = "CHANGES_REQUESTED"
    BY <1>1, Transitions
  <1> QED
    BY <1>2, Zenon DEF decide

(* Every step of a task writes a well-typed record.                        *)
LEMMA StepTyped ==
    ASSUME TypeOK, NEW t \in Tasks, Shape(t), Step(t)
    PROVE  task' \in Setting
  <1>a. task \in Setting
    BY DEF TypeOK, Setting
  <1>b. ASSUME NEW why \in Failures \cup {"timeout"}, Failed(t, why), task[t].at \in Places
        PROVE  task' \in Setting
    BY <1>a, <1>b, FailedTyped
  <1>c. ASSUME NEW place \in Places \cup Over, Goto(t, place)
        PROVE  task' \in Setting
    BY <1>a, <1>c, EffectTyped DEF Goto
  <1>d. ASSUME NEW state \in TaskState, NEW place \in Places,
               task' = [task EXCEPT ![t].state = state, ![t].at = place]
        PROVE  task' \in Setting
    BY <1>a, <1>d, EffectTyped, Zenon
  <1>e. ASSUME NEW place \in Places, NEW commit \in Commit,
               task' = [task EXCEPT ![t].at = place, ![t].merge = commit]
        PROVE  task' \in Setting
    BY <1>a, <1>e, EffectTyped, Zenon
  <1>1. CASE runAutoMerge(t)
    <2>1. task[t].at \in Places /\ task[t].state = "REVIEWING"
      BY <1>1 DEF runAutoMerge, At, Shape, Places
    <2>2. main \in Commit /\ tip[t] \in Revisions
      BY DEF TypeOK
    <2>3. ASSUME NEW state \in {"REVIEWING", "APPROVED"}, NEW place \in {"package", "approved"}
          PROVE  [task EXCEPT ![t].base = main, ![t].artifact = tip[t], ![t].state = state,
                              ![t].at = place] \in Setting
      <3>1. state \in TaskState /\ place \in Places \cup Over
        BY Kinds DEF Places
      <3> QED
        BY <1>a, <2>2, <3>1, EffectTyped, Zenon
    <2>4. ASSUME NEW approve \in BOOLEAN,
                 task' = [task EXCEPT
                   ![t].base = main, ![t].artifact = tip[t],
                   ![t].state = IF approve THEN transition(@, "auto_approved") ELSE @,
                   ![t].at = IF approve THEN "approved" ELSE "package"]
          PROVE  task' \in Setting
      <3>1. task' = [task EXCEPT
                   ![t].base = main, ![t].artifact = tip[t],
                   ![t].state = IF approve THEN "APPROVED" ELSE "REVIEWING",
                   ![t].at = IF approve THEN "approved" ELSE "package"]
        BY <2>1, <2>4, Transitions
      <3> QED
        BY <2>3, <3>1
    <2> QED
      BY <1>1, <1>b, <2>1, <2>4 DEF runAutoMerge, decideAutoApprove, Failures
  <1>2. CASE decide(t)
    <2>1. task[t].at \in Places /\ task[t].state = "REVIEWING"
      BY <1>2 DEF decide, At, Shape, Places
    <2>2. CASE task' = [task EXCEPT ![t].state = "APPROVED", ![t].at = "granted"]
      BY <1>d, <2>2, Kinds DEF Places
    <2>3. CASE task' = [task EXCEPT ![t].state = "CHANGES_REQUESTED",
                                    ![t].at = "done", ![t].why = "rejected"]
      <3>1. "CHANGES_REQUESTED" \in TaskState /\ "done" \in Places \cup Over
            /\ "rejected" \in Reasons
        BY Kinds
      <3> QED
        BY <1>a, <2>3, <3>1, EffectTyped, Zenon
    <2>4. CASE Failed(t, "evidence")
      BY <1>b, <2>1, <2>4 DEF Failures
    <2> QED
      BY <1>2, <2>2, <2>3, <2>4, DecideCases
  <1>3. CASE approvalTimeout(t)
    BY <1>3, <1>b DEF approvalTimeout, At, Places
  <1>4. CASE enter(t)
    <2>1. task[t].at \in Places /\ task[t].state = "APPROVED"
      BY <1>4 DEF enter, At, Shape, Places
    <2>2. ASSUME NEW place \in {"queue", "prepare"},
                 task' = [task EXCEPT ![t].state = "MERGE_QUEUED", ![t].at = place]
          PROVE  task' \in Setting
      BY <1>d, <2>2, Kinds DEF Places
    <2> QED
      BY <1>4, <1>b, <2>1, <2>2, Transitions DEF enter, Failures
  <1>5. CASE prepareDetachedMerge(t)
    <2>1. task[t].at \in Places
      BY <1>5 DEF prepareDetachedMerge, At, Places
    <2>2. task[t].base \in Commit /\ Merged(t, task[t].artifact) \in Entry
      BY <1>5, Commits DEF prepareDetachedMerge, TypeOK, Merging, Shape, At, Places
    <2>3. Append(task[t].base, Merged(t, task[t].artifact)) \in Commit
      BY <2>2 DEF Commit
    <2> QED
      BY <1>5, <1>b, <1>e, <2>1, <2>3 DEF prepareDetachedMerge, Failures, Places
  <1>6. CASE updateRef(t)
    BY <1>6, <1>b, <1>c DEF updateRef, At, Places, Failures
  <1>7. CASE claim(t)
    <2>1. "thrown" \in Places \cup Over /\ "contention" \in Reasons
      BY Kinds
    <2>2. CASE task' = [task EXCEPT ![t].at = "thrown", ![t].why = "contention"]
      BY <1>a, <2>1, <2>2, EffectTyped, Zenon
    <2> QED
      BY <1>7, <1>b, <1>c, <2>2 DEF claim, At, Places, Failures
  <1>8. CASE reset(t)
    <2>1. "thrown" \in Places \cup Over /\ "worktree" \in Reasons
      BY Kinds
    <2>2. CASE task' = [task EXCEPT ![t].at = "thrown", ![t].why = "worktree"]
      BY <1>a, <2>1, <2>2, EffectTyped, Zenon
    <2> QED
      BY <1>8, <1>b, <1>c, <2>2 DEF reset, At, Places, Failures
  <1>9. CASE mergeCandidate(t)
    BY <1>9, <1>b, <1>c DEF mergeCandidate, At, Places, Failures
  <1>10. CASE t2Ends(t)
    <2>1. task[t].at \in Places /\ worktree \in Commit
      BY <1>10 DEF t2Ends, At, Places, TypeOK
    <2>2. Escalated(task[t].state) \in TaskState
      BY <1>10, Escalation, Kinds DEF t2Ends, Shape, At, Places, InMerge
    <2>3. ASSUME NEW state \in TaskState, NEW verdict \in Verdicts,
                 NEW why \in {"t2_failed", "evidence"}
          PROVE  [task EXCEPT ![t].state = state, ![t].at = "done", ![t].why = why,
                              ![t].t2 = verdict] \in Setting
      <3>1. "done" \in Places \cup Over /\ why \in Reasons
        BY Kinds DEF Failures
      <3> QED
        BY <1>a, <3>1, EffectTyped, Zenon
    <2>4. ASSUME NEW verdict \in Verdicts
          PROVE  [task EXCEPT ![t].at = "result", ![t].t2 = verdict,
                              ![t].merge = worktree] \in Setting
      <3>1. "result" \in Places \cup Over
        BY DEF Places
      <3> QED
        BY <1>a, <2>1, <3>1, EffectTyped, Zenon
    <2>5. task' = [task EXCEPT ![t].state = Escalated(@), ![t].at = "done",
                               ![t].why = "t2_failed", ![t].t2 = "fail"]
          => task' \in Setting
      BY <2>2, <2>3, Kinds
    <2>6. ASSUME NEW verdict \in {"pass", "not_enabled"}
          PROVE  /\ task' = [task EXCEPT ![t].at = "result", ![t].t2 = verdict,
                                         ![t].merge = worktree]
                    => task' \in Setting
                 /\ task' = [task EXCEPT ![t].state = Escalated(@), ![t].at = "done",
                                         ![t].why = "evidence", ![t].t2 = verdict]
                    => task' \in Setting
      <3>1. verdict \in Verdicts
        BY Kinds
      <3>2. [task EXCEPT ![t].at = "result", ![t].t2 = verdict, ![t].merge = worktree] \in Setting
        BY <2>4, <3>1
      <3>3. [task EXCEPT ![t].state = Escalated(@), ![t].at = "done", ![t].why = "evidence",
                         ![t].t2 = verdict] \in Setting
        BY <2>2, <2>3, <3>1
      <3> QED
        BY <3>2, <3>3, Zenon
    <2> QED
      BY <1>10, <1>b, <2>1, <2>5, <2>6 DEF t2Ends, Failures
  <1>11. CASE mergeResult(t)
    BY <1>11, <1>b, <1>c DEF mergeResult, At, Places, Failures
  <1>12. CASE auditGate(t)
    BY <1>12, <1>c DEF auditGate, Places
  <1>13. CASE auditResult(t)
    BY <1>13, <1>b, <1>c DEF auditResult, At, Places, Failures
  <1>14. CASE revertMerge(t)
    BY <1>14, <1>c DEF revertMerge, Places
  <1>17. CASE escalateMismatch(t)
    BY <1>17, <1>b DEF escalateMismatch, At, Places, Failures
  <1>15. CASE complete(t)
    <2>1. task[t].at \in Places /\ task[t].state = "MERGE_QUEUED"
      BY <1>15 DEF complete, Shape, At, InMerge, Places
    <2>2. "COMPLETED" \in TaskState /\ "done" \in Places \cup Over
      BY Kinds
    <2>3. CASE task' = [task EXCEPT ![t].at = "done", ![t].state = "COMPLETED"]
      BY <1>a, <2>2, <2>3, EffectTyped, Zenon
    <2> QED
      BY <1>15, <1>b, <2>1, <2>3, Transitions DEF complete, Failures
  <1>16. CASE fencedOut(t)
    <2>1. "fenced" \in Reasons /\ "done" \in Places \cup Over
      BY Kinds
    <2>2. task' = [task EXCEPT ![t].at = "done", ![t].why = "fenced"]
      BY <1>16 DEF fencedOut, FencedOut
    <2> QED
      BY <1>a, <2>1, <2>2, EffectTyped, Zenon
  <1> QED
    BY <1>1, <1>2, <1>3, <1>4, <1>5, <1>6, <1>7, <1>8, <1>9, <1>10, <1>11, <1>12, <1>13,
       <1>14, <1>15, <1>16, <1>17
    DEF Step

(* The inductive step of the type invariant.                               *)
LEMMA Typing ==
    ASSUME TypeOK, \A t \in Tasks : Shape(t), [Next]_vars
    PROVE  TypeOK'
  <1>1. task' \in Setting
    <2>1. CASE \E t \in Tasks : Step(t)
      BY <2>1, StepTyped
    <2>2. ASSUME NEW t \in Tasks, loseTask(t) \/ crash(t) PROVE task' \in Setting
      <3>1. task \in Setting
        BY DEF TypeOK, Setting
      <3>2. CASE loseTask(t)
        BY <3>1, <3>2, FieldTyped DEF loseTask
      <3>3. CASE crash(t)
        BY <3>1, <3>3, FieldTyped, Kinds DEF crash, Goto
      <3> QED
        BY <2>2, <3>2, <3>3
    <2> QED
      BY <2>1, <2>2 DEF Next, vars, commitByOthers, queueLapses, pushToBranch, TypeOK, Setting
  <1>2. ASSUME NEW t \in Tasks, Step(t)
        PROVE  main' \in Commit /\ worktree' \in Commit
    <2>a. main \in Commit /\ worktree \in Commit /\ task[t].merge \in Commit
      BY DEF TypeOK, Merging
    <2>1. ASSUME updateRef(t) \/ t2Ends(t) PROVE main' \in Commit /\ worktree' \in Commit
      BY <2>a, <2>1 DEF updateRef, t2Ends
    <2>2. ASSUME revertMerge(t) PROVE main' \in Commit /\ worktree' \in Commit
      BY <2>a, <2>2, Commits DEF revertMerge, Commit
    <2>3. ASSUME mergeCandidate(t) PROVE main' \in Commit /\ worktree' \in Commit
      <3>1. Merged(t, task[t].artifact) \in Entry
        BY Commits DEF TypeOK, Merging
      <3> QED
        BY <2>a, <2>3, <3>1 DEF mergeCandidate, Commit
    <2> QED
      BY <1>2, <2>a, <2>1, <2>2, <2>3
      DEF Step, runAutoMerge, decide, approvalTimeout, enter, prepareDetachedMerge, claim,
          reset, mergeResult, auditGate, auditResult, escalateMismatch, complete, fencedOut,
          FencedOut
  <1>3. ASSUME NEW t \in Tasks, Step(t)
        PROVE  tip' \in [Tasks -> Revisions] /\ queue' \in [owner : Tasks \cup {NoTask}, live : BOOLEAN]
    <2>1. /\ tip' = tip \/ (\E u \in Tasks : tip' = [tip EXCEPT ![u] = 1])
          /\ \/ UNCHANGED queue
             \/ queue' = [owner |-> t, live |-> TRUE] \/ queue' = Free
             \/ release(t)
      BY <1>3
      DEF Step, runAutoMerge, decide, approvalTimeout, enter, prepareDetachedMerge, updateRef,
          claim, reset, mergeCandidate, t2Ends, mergeResult, auditGate, auditResult,
          revertMerge, escalateMismatch, complete, fencedOut, FencedOut
    <2>5. tip' \in [Tasks -> Revisions]
      BY <2>1 DEF TypeOK, Revisions
    <2>2. queue \in [owner : Tasks \cup {NoTask}, live : BOOLEAN]
      BY DEF TypeOK
    <2>3. Free \in [owner : Tasks \cup {NoTask}, live : BOOLEAN]
      BY DEF Free
    <2>4. [owner |-> t, live |-> TRUE] \in [owner : Tasks \cup {NoTask}, live : BOOLEAN]
      OBVIOUS
    <2> QED
      BY <2>1, <2>2, <2>3, <2>4, <2>5, Zenon DEF release
  <1>4. CASE \E t \in Tasks : Step(t)
    BY <1>1, <1>2, <1>3, <1>4 DEF TypeOK, Setting
  <1>5. ASSUME NEW t \in Tasks, pushToBranch(t) PROVE TypeOK'
    BY <1>5 DEF pushToBranch, TypeOK, Revisions, Gated
  <1>6. ASSUME NEW t \in Tasks, loseTask(t) \/ crash(t) PROVE TypeOK'
    BY <1>1, <1>6 DEF loseTask, crash, TypeOK, Setting
  <1>7. CASE commitByOthers
    BY <1>7, Commits DEF commitByOthers, TypeOK, Commit
  <1>8. CASE queueLapses
    BY <1>8 DEF queueLapses, TypeOK
  <1>9. CASE UNCHANGED vars
    BY <1>9 DEF vars, TypeOK
  <1> QED
    BY <1>4, <1>5, <1>6, <1>7, <1>8, <1>9 DEF Next

(* What a step leaves of the record it writes.                             *)
LEMMA FailedShape ==
    ASSUME task \in Setting, NEW t \in Tasks, Shape(t), task[t].at \in Places,
           NEW why \in Failures \cup {"timeout"}, Failed(t, why),
           why = "audit_mismatch" => task[t].at = "reverted"
    PROVE  Shape(t)'
  <1>1. task'[t] = [task[t] EXCEPT !.state = Escalated(@), !.at = "done", !.why = why]
    BY DEF Failed, Setting
  <1>2. /\ task'[t].state = Escalated(task[t].state)
        /\ task'[t].at = "done"
        /\ task'[t].why = why
        /\ task'[t].artifact = task[t].artifact
        /\ task'[t].base = task[t].base
        /\ task'[t].merge = task[t].merge
    BY <1>1 DEF Setting, Merging
  <1>3. Escalated(task[t].state) \in {"ESCALATED", "APPROVED"}
    BY Escalation DEF Shape, Places, InMerge
  <1>4. task[t].at = "reverted" => Escalated(task[t].state) = "ESCALATED"
    BY Escalation DEF Shape, Places, InMerge
  <1> QED
    BY <1>2, <1>3, <1>4 DEF Shape, Places, InMerge, ItsMerge, Failures

(* A step of a task, and what other hands do to it, keep its shape.        *)
LEMMA StepShape ==
    ASSUME TypeOK, NEW t \in Tasks, Shape(t), Step(t)
    PROVE  Shape(t)'
  <1>a. task \in Setting /\ task[t].at \in Places \cup Over
    BY DEF TypeOK, Setting, Merging
  <1>b. ASSUME NEW why \in (Failures \cup {"timeout"}) \ {"audit_mismatch"}, Failed(t, why),
               task[t].at \in Places
        PROVE  Shape(t)'
    BY <1>a, <1>b, FailedShape
  <1>c. ASSUME NEW place \in InMerge \cup {"auditing"}, Goto(t, place),
               task[t].at \in InMerge,
               place \in {"update", "revert"} =>
                 task[t].merge = Append(task[t].base, Merged(t, Gated))
        PROVE  Shape(t)'
    <2>1. task'[t] = [task[t] EXCEPT !.at = place]
      BY <1>a, <1>c DEF Goto, Setting
    <2>2. /\ task'[t].at = place
          /\ task'[t].state = task[t].state
          /\ task'[t].why = task[t].why
          /\ task'[t].artifact = task[t].artifact
          /\ task'[t].base = task[t].base
          /\ task'[t].merge = task[t].merge
      BY <1>a, <2>1 DEF Setting, Merging
    <2> QED
      BY <1>c, <2>2 DEF Shape, Places, InMerge, ItsMerge
  <1>1. CASE runAutoMerge(t)
    <2>1. task[t].at = "reviewing" /\ task[t].state = "REVIEWING"
      BY <1>1 DEF runAutoMerge, At, Shape, Places
    <2>2. ASSUME NEW approve \in BOOLEAN, tip[t] = Gated,
                 task' = [task EXCEPT
                   ![t].base = main, ![t].artifact = tip[t],
                   ![t].state = IF approve THEN transition(@, "auto_approved") ELSE @,
                   ![t].at = IF approve THEN "approved" ELSE "package"]
          PROVE  Shape(t)'
      <3>1. task'[t] = [task[t] EXCEPT
                   !.base = main, !.artifact = Gated,
                   !.state = IF approve THEN "APPROVED" ELSE "REVIEWING",
                   !.at = IF approve THEN "approved" ELSE "package"]
        BY <1>a, <2>1, <2>2, Transitions DEF Setting
      <3>2. /\ task'[t].at = IF approve THEN "approved" ELSE "package"
            /\ task'[t].state = IF approve THEN "APPROVED" ELSE "REVIEWING"
            /\ task'[t].why = task[t].why
            /\ task'[t].artifact = Gated
            /\ task'[t].base = main
        BY <1>a, <3>1 DEF Setting, Merging
      <3>3. main # NoBase
        BY Commits DEF TypeOK
      <3> QED
        BY <2>1, <3>2, <3>3 DEF Shape, Places, InMerge
    <2> QED
      BY <1>1, <1>b, <2>1, <2>2 DEF runAutoMerge, decideAutoApprove, Failures, Places, GatedTree
  <1>2. CASE decide(t)
    <2>1. task[t].at = "package" /\ task[t].state = "REVIEWING"
      BY <1>2 DEF decide, At, Shape, Places
    <2>2. CASE task' = [task EXCEPT ![t].state = "APPROVED", ![t].at = "granted"]
      <3>1. task'[t] = [task[t] EXCEPT !.state = "APPROVED", !.at = "granted"]
        BY <1>a, <2>2 DEF Setting
      <3>2. /\ task'[t].at = "granted"
            /\ task'[t].state = "APPROVED"
            /\ task'[t].why = task[t].why
            /\ task'[t].artifact = task[t].artifact
            /\ task'[t].base = task[t].base
        BY <1>a, <3>1 DEF Setting, Merging
      <3> QED
        BY <2>1, <3>2 DEF Shape, Places, InMerge
    <2>3. CASE task' = [task EXCEPT ![t].state = "CHANGES_REQUESTED",
                                    ![t].at = "done", ![t].why = "rejected"]
      <3>1. task'[t] = [task[t] EXCEPT !.state = "CHANGES_REQUESTED",
                                    !.at = "done", !.why = "rejected"]
        BY <1>a, <2>3 DEF Setting
      <3>2. /\ task'[t].at = "done"
            /\ task'[t].state = "CHANGES_REQUESTED"
            /\ task'[t].why = "rejected"
            /\ task'[t].artifact = task[t].artifact
        BY <1>a, <3>1 DEF Setting, Merging
      <3> QED
        BY <2>1, <3>2 DEF Shape, Places, InMerge
    <2>4. CASE Failed(t, "evidence")
      BY <1>b, <2>1, <2>4 DEF Failures, Places
    <2> QED
      BY <1>2, <2>2, <2>3, <2>4, DecideCases
  <1>3. CASE approvalTimeout(t)
    BY <1>3, <1>b DEF approvalTimeout, At, Places, Failures
  <1>4. CASE enter(t)
    <2>1. task[t].at \in {"granted", "approved"} /\ task[t].state = "APPROVED"
      BY <1>4 DEF enter, At, Shape, Places
    <2>2. ASSUME NEW place \in {"queue", "prepare"},
                 task' = [task EXCEPT ![t].state = "MERGE_QUEUED", ![t].at = place]
          PROVE  Shape(t)'
      <3>1. task'[t] = [task[t] EXCEPT !.state = "MERGE_QUEUED", !.at = place]
        BY <1>a, <2>2 DEF Setting
      <3>2. /\ task'[t].at = place
            /\ task'[t].state = "MERGE_QUEUED"
            /\ task'[t].why = task[t].why
            /\ task'[t].artifact = task[t].artifact
            /\ task'[t].base = task[t].base
        BY <1>a, <3>1 DEF Setting, Merging
      <3> QED
        BY <2>1, <3>2 DEF Shape, Places, InMerge
    <2> QED
      BY <1>4, <1>b, <2>1, <2>2, Transitions DEF enter, Failures, Places
  <1>5. CASE prepareDetachedMerge(t)
    <2>1. task[t].at = "prepare" /\ task[t].artifact = Gated
      BY <1>5 DEF prepareDetachedMerge, At, Shape
    <2>2. CASE task' = [task EXCEPT ![t].at = "update",
                          ![t].merge = Append(task[t].base, Merged(t, task[t].artifact))]
      <3>1. task'[t] = [task[t] EXCEPT !.at = "update",
                          !.merge = Append(task[t].base, Merged(t, Gated))]
        BY <1>a, <2>1, <2>2 DEF Setting
      <3>2. /\ task'[t].at = "update"
            /\ task'[t].state = task[t].state
            /\ task'[t].why = task[t].why
            /\ task'[t].artifact = task[t].artifact
            /\ task'[t].base = task[t].base
            /\ task'[t].merge = Append(task[t].base, Merged(t, Gated))
        BY <1>a, <3>1 DEF Setting, Merging
      <3> QED
        BY <2>1, <3>2 DEF Shape, Places, InMerge, ItsMerge
    <2> QED
      BY <1>5, <1>b, <2>1, <2>2 DEF prepareDetachedMerge, Failures, Places
  <1>6. CASE updateRef(t)
    BY <1>6, <1>b, <1>c DEF updateRef, At, Places, Failures, InMerge
  <1>7. CASE claim(t)
    <2>1. task[t].at = "queue"
      BY <1>7 DEF claim, At
    <2>2. CASE task' = [task EXCEPT ![t].at = "thrown", ![t].why = "contention"]
      <3>1. task'[t] = [task[t] EXCEPT !.at = "thrown", !.why = "contention"]
        BY <1>a, <2>2 DEF Setting
      <3>2. /\ task'[t].at = "thrown"
            /\ task'[t].state = task[t].state
            /\ task'[t].why = "contention"
            /\ task'[t].artifact = task[t].artifact
        BY <1>a, <3>1 DEF Setting, Merging
      <3> QED
        BY <2>1, <3>2 DEF Shape, Places, InMerge
    <2> QED
      BY <1>7, <1>b, <1>c, <2>1, <2>2 DEF claim, Places, Failures, InMerge
  <1>8. CASE reset(t)
    <2>1. task[t].at = "reset"
      BY <1>8 DEF reset, At
    <2>2. CASE task' = [task EXCEPT ![t].at = "thrown", ![t].why = "worktree"]
      <3>1. task'[t] = [task[t] EXCEPT !.at = "thrown", !.why = "worktree"]
        BY <1>a, <2>2 DEF Setting
      <3>2. /\ task'[t].at = "thrown"
            /\ task'[t].state = task[t].state
            /\ task'[t].why = "worktree"
            /\ task'[t].artifact = task[t].artifact
        BY <1>a, <3>1 DEF Setting, Merging
      <3> QED
        BY <2>1, <3>2 DEF Shape, Places, InMerge
    <2> QED
      BY <1>8, <1>b, <1>c, <2>1, <2>2 DEF reset, Places, Failures, InMerge
  <1>9. CASE mergeCandidate(t)
    BY <1>9, <1>b, <1>c DEF mergeCandidate, At, Places, Failures, InMerge
  <1>10. CASE t2Ends(t)
    <2>1. task[t].at = "t2" /\ task[t].state = "MERGE_QUEUED"
      BY <1>10 DEF t2Ends, At, Shape, Places, InMerge
    <2>2. ASSUME NEW verdict, NEW why \in {"t2_failed", "evidence"},
                 task' = [task EXCEPT ![t].state = Escalated(@), ![t].at = "done",
                                      ![t].why = why, ![t].t2 = verdict]
          PROVE  Shape(t)'
      <3>1. task'[t] = [task[t] EXCEPT !.state = "ESCALATED", !.at = "done",
                                      !.why = why, !.t2 = verdict]
        BY <1>a, <2>1, <2>2, Escalation DEF Setting
      <3>2. /\ task'[t].at = "done"
            /\ task'[t].state = "ESCALATED"
            /\ task'[t].why = why
            /\ task'[t].artifact = task[t].artifact
        BY <1>a, <3>1 DEF Setting, Merging
      <3> QED
        BY <2>1, <3>2 DEF Shape, Places, InMerge
    <2>3. ASSUME NEW verdict,
                 task' = [task EXCEPT ![t].at = "result", ![t].t2 = verdict,
                                      ![t].merge = worktree]
          PROVE  Shape(t)'
      <3>1. task'[t] = [task[t] EXCEPT !.at = "result", !.t2 = verdict, !.merge = worktree]
        BY <1>a, <2>3 DEF Setting
      <3>2. /\ task'[t].at = "result"
            /\ task'[t].state = task[t].state
            /\ task'[t].why = task[t].why
            /\ task'[t].artifact = task[t].artifact
            /\ task'[t].base = task[t].base
        BY <1>a, <3>1 DEF Setting, Merging
      <3> QED
        BY <2>1, <3>2 DEF Shape, Places, InMerge
    <2> QED
      BY <1>10, <1>b, <2>1, <2>2, <2>3 DEF t2Ends, Failures, Places
  <1>11. CASE mergeResult(t)
    BY <1>11, <1>b, <1>c DEF mergeResult, At, Places, Failures, InMerge
  <1>12. CASE auditGate(t)
    BY <1>12, <1>c DEF auditGate, At, Places, InMerge
  <1>13. CASE auditResult(t)
    <2>1. MergeBound(t) => task[t].merge = Append(task[t].base, Merged(t, Gated))
      BY DEF MergeBound, MergeTopology, Shape
    <2> QED
      BY <1>13, <1>b, <1>c, <2>1 DEF auditResult, At, Places, Failures, InMerge
  <1>14. CASE revertMerge(t)
    BY <1>14, <1>c DEF revertMerge, At, Places, InMerge
  <1>17. CASE escalateMismatch(t)
    BY <1>17, <1>a, FailedShape DEF escalateMismatch, At, Places, Failures
  <1>15. CASE complete(t)
    <2>1. task[t].at = "completion" /\ task[t].state = "MERGE_QUEUED"
      BY <1>15 DEF complete, Shape, At, InMerge, Places
    <2>2. CASE MergeBound(t)
               /\ task' = [task EXCEPT ![t].at = "done", ![t].state = "COMPLETED"]
      <3>1. task'[t] = [task[t] EXCEPT !.at = "done", !.state = "COMPLETED"]
        BY <1>a, <2>2 DEF Setting
      <3>2. /\ task'[t].at = "done"
            /\ task'[t].state = "COMPLETED"
            /\ task'[t].why = task[t].why
            /\ task'[t].artifact = task[t].artifact
            /\ task'[t].base = task[t].base
            /\ task'[t].merge = task[t].merge
        BY <1>a, <3>1 DEF Setting, Merging
      <3>3. task[t].merge = Append(task[t].base, Merged(t, Gated))
        BY <2>2 DEF MergeBound, MergeTopology, Shape
      <3> QED
        BY <2>1, <3>2, <3>3 DEF Shape, Places, InMerge, ItsMerge
    <2> QED
      BY <1>15, <1>b, <2>1, <2>2, Transitions DEF complete, Failures, Places
  <1>16. CASE fencedOut(t)
    <2>1. task' = [task EXCEPT ![t].at = "done", ![t].why = "fenced"]
      BY <1>16 DEF fencedOut, FencedOut
    <2>2. task'[t] = [task[t] EXCEPT !.at = "done", !.why = "fenced"]
      BY <1>a, <2>1 DEF Setting
    <2>3. /\ task'[t].at = "done"
          /\ task'[t].state = task[t].state
          /\ task'[t].why = "fenced"
          /\ task'[t].artifact = task[t].artifact
      BY <1>a, <2>2 DEF Setting, Merging
    <2>4. task[t].at \in Places /\ task[t].state # "COMPLETED"
      BY <1>16 DEF fencedOut, At, Places, Shape, InMerge
    <2> QED
      BY <2>3, <2>4 DEF Shape, Places, InMerge
  <1> QED
    BY <1>1, <1>2, <1>3, <1>4, <1>5, <1>6, <1>7, <1>8, <1>9, <1>10, <1>11, <1>12, <1>13,
       <1>14, <1>15, <1>16, <1>17
    DEF Step

(* A step touches the record of one task only.                             *)
LEMMA Others ==
    ASSUME TypeOK, NEW t \in Tasks, Step(t) \/ loseTask(t) \/ crash(t),
           NEW u \in Tasks, u # t
    PROVE  task'[u] = task[u]
  <1>1. task \in Setting
    BY DEF TypeOK, Setting
  <1>2. CASE \E why : Failed(t, why)
    BY <1>1, <1>2 DEF Failed, Setting
  <1>3. CASE \E place : Goto(t, place)
    BY <1>1, <1>3 DEF Goto, Setting
  <1>4. CASE runAutoMerge(t)
    BY <1>1, <1>2, <1>4 DEF runAutoMerge, Setting
  <1>5. CASE decide(t)
    BY <1>1, <1>2, <1>5 DEF decide, Setting
  <1>6. CASE enter(t)
    BY <1>1, <1>2, <1>6 DEF enter, Setting
  <1>7. CASE prepareDetachedMerge(t)
    BY <1>1, <1>2, <1>7 DEF prepareDetachedMerge, Setting
  <1>8. CASE claim(t)
    BY <1>1, <1>2, <1>3, <1>8 DEF claim, Setting
  <1>9. CASE t2Ends(t)
    BY <1>1, <1>2, <1>9 DEF t2Ends, Setting
  <1>10. CASE complete(t)
    BY <1>1, <1>2, <1>10 DEF complete, Setting
  <1>11. CASE fencedOut(t)
    BY <1>1, <1>11 DEF fencedOut, FencedOut, Setting
  <1>12. CASE loseTask(t)
    BY <1>1, <1>12 DEF loseTask, Setting
  <1>13. CASE \/ approvalTimeout(t) \/ updateRef(t) \/ mergeCandidate(t) \/ mergeResult(t)
              \/ auditGate(t) \/ auditResult(t) \/ revertMerge(t) \/ escalateMismatch(t) \/ crash(t)
    BY <1>2, <1>3, <1>13
    DEF approvalTimeout, updateRef, mergeCandidate, mergeResult, auditGate, auditResult,
        revertMerge, escalateMismatch, crash
  <1>14. CASE reset(t)
    BY <1>1, <1>2, <1>3, <1>14 DEF reset, Setting
  <1> QED
    BY <1>4, <1>5, <1>6, <1>7, <1>8, <1>9, <1>10, <1>11, <1>12, <1>13,
       <1>14
    DEF Step

(* A task that loses its lease or its process keeps everything else.       *)
LEMMA Interrupted ==
    ASSUME TypeOK, NEW t \in Tasks, loseTask(t) \/ crash(t)
    PROVE  /\ task'[t].at = task[t].at \/ task'[t].at = "crashed"
           /\ task'[t].state = task[t].state
           /\ task'[t].why = task[t].why
           /\ task'[t].base = task[t].base
           /\ task'[t].artifact = task[t].artifact
           /\ task'[t].merge = task[t].merge
  <1>1. task \in Setting
    BY DEF TypeOK, Setting
  <1>2. \/ task'[t] = [task[t] EXCEPT !.owned = FALSE]
        \/ task'[t] = [task[t] EXCEPT !.at = "crashed"]
    BY <1>1 DEF loseTask, crash, Goto, Setting
  <1> QED
    BY <1>1, <1>2 DEF Setting, Merging

(* The shape of every task is kept by every step.                          *)
LEMMA ShapeKept ==
    ASSUME TypeOK, \A t \in Tasks : Shape(t), [Next]_vars
    PROVE  \A t \in Tasks : Shape(t)'
  <1>1. ASSUME NEW t \in Tasks, NEW u \in Tasks, task'[u] = task[u] PROVE Shape(u)'
    BY <1>1 DEF Shape, ItsMerge
  <1>2. ASSUME NEW t \in Tasks, Step(t) PROVE \A u \in Tasks : Shape(u)'
    BY <1>1, <1>2, StepShape, Others
  <1>3. ASSUME NEW t \in Tasks, loseTask(t) \/ crash(t) PROVE \A u \in Tasks : Shape(u)'
    <2>1. Shape(t)'
      <3>1. Shape(t)
        OBVIOUS
      <3>2. task[t].at \notin Places => task'[t].at = task[t].at \/ task'[t].at = "crashed"
        BY <1>3, Interrupted
      <3> QED
        BY <1>3, <3>1, Interrupted DEF Shape, ItsMerge, Places, InMerge
    <2> QED
      BY <1>1, <1>3, <2>1, Others
  <1>4. CASE task' = task
    BY <1>1, <1>4
  <1> QED
    BY <1>2, <1>3, <1>4 DEF Next, vars, pushToBranch, commitByOthers, queueLapses

------------------------------------------------------------------------------
(* Prefixes of commits, by their entries.                                  *)
LEMMA PrefixByEntries ==
    ASSUME NEW s \in Commit, NEW c \in Commit
    PROVE  IsPrefix(s, c) <=> Len(s) <= Len(c) /\ \A i \in 1 .. Len(s) : s[i] = c[i]
  <1>1. SubSeq(s, 1, Len(s)) = s
    BY DEF Commit
  <1>2. ASSUME Len(s) <= Len(c)
        PROVE  /\ SubSeq(c, 1, Len(s)) \in Seq(Entry)
               /\ Len(SubSeq(c, 1, Len(s))) = Len(s)
               /\ \A i \in 1 .. Len(s) : SubSeq(c, 1, Len(s))[i] = c[i]
    BY <1>2 DEF Commit
  <1>3. ASSUME IsPrefix(s, c), NEW i \in 1 .. Len(s) PROVE s[i] = c[i]
    <2>1. SubSeq(c, 1, Len(s)) = s /\ Len(s) <= Len(c)
      BY <1>1, <1>3 DEF IsPrefix
    <2> QED
      BY <1>2, <2>1
  <1>4. ASSUME Len(s) <= Len(c), \A i \in 1 .. Len(s) : s[i] = c[i] PROVE IsPrefix(s, c)
    <2>1. SubSeq(c, 1, Len(s)) = s
      <3>1. /\ SubSeq(c, 1, Len(s)) \in Seq(Entry)
            /\ Len(SubSeq(c, 1, Len(s))) = Len(s)
            /\ \A i \in 1 .. Len(s) : SubSeq(c, 1, Len(s))[i] = s[i]
        BY <1>2, <1>4
      <3> QED
        BY <3>1, SeqEqual DEF Commit
    <2> QED
      BY <1>1, <1>4, <2>1 DEF IsPrefix
  <1> QED
    BY <1>3, <1>4 DEF IsPrefix

(* A prefix of a commit is a prefix of what is built on it.                *)
LEMMA PrefixOfAppend ==
    ASSUME NEW s \in Commit, NEW c \in Commit, NEW e \in Entry, IsPrefix(s, c)
    PROVE  Append(c, e) \in Commit /\ IsPrefix(s, Append(c, e))
  <1>1. /\ Append(c, e) \in Commit
        /\ Len(Append(c, e)) = Len(c) + 1
        /\ \A i \in 1 .. Len(c) : Append(c, e)[i] = c[i]
    BY DEF Commit
  <1>2. Len(s) \in Nat /\ Len(c) \in Nat
    BY DEF Commit
  <1>3. Len(s) <= Len(c) /\ \A i \in 1 .. Len(s) : s[i] = c[i]
    BY PrefixByEntries
  <1>4. Len(s) <= Len(Append(c, e)) /\ \A i \in 1 .. Len(s) : s[i] = Append(c, e)[i]
    BY <1>1, <1>2, <1>3
  <1> QED
    BY <1>1, <1>4, PrefixByEntries

(* A commit is a prefix of itself.                                         *)
LEMMA PrefixOfItself ==
    ASSUME NEW s \in Commit
    PROVE  IsPrefix(s, s)
BY PrefixByEntries DEF Commit

(* A prefix that is not shorter is the commit itself.                      *)
LEMMA PrefixBothWays ==
    ASSUME NEW s \in Commit, NEW c \in Commit, IsPrefix(s, c), Len(c) <= Len(s)
    PROVE  s = c
  <1>1. /\ Len(s) <= Len(c)
        /\ \A i \in 1 .. Len(s) : s[i] = c[i]
    BY PrefixByEntries
  <1>2. Len(s) = Len(c)
    BY <1>1 DEF Commit
  <1> QED
    BY <1>1, <1>2, SeqEqual DEF Commit

(* A commit that lies between another and one entry more is one of them.   *)
LEMMA PrefixSqueezed ==
    ASSUME NEW s \in Commit, NEW c \in Commit, NEW e \in Entry,
           IsPrefix(s, c), IsPrefix(c, Append(s, e))
    PROVE  c = s \/ c = Append(s, e)
  <1>1. Append(s, e) \in Commit /\ Len(Append(s, e)) = Len(s) + 1
    BY DEF Commit
  <1>2. Len(s) \in Nat /\ Len(c) \in Nat
    BY DEF Commit
  <1>a. Len(c) <= Len(s) + 1
    BY <1>1 DEF IsPrefix
  <1>3. CASE Len(c) <= Len(s)
    BY <1>3, PrefixBothWays
  <1>4. CASE Len(c) = Len(s) + 1
    <2>1. Len(Append(s, e)) <= Len(c)
      BY <1>1, <1>2, <1>4
    <2> QED
      BY <1>1, <2>1, PrefixBothWays
  <1> QED
    BY <1>2, <1>3, <1>4, <1>a

(* What is built on a commit is not a prefix of it.                        *)
LEMMA AppendIsStrict ==
    ASSUME NEW s \in Commit, NEW c \in Commit, NEW e \in Entry, IsPrefix(s, c)
    PROVE  IsStrictPrefix(s, Append(c, e))
  <1>1. Len(Append(c, e)) = Len(c) + 1 /\ Len(s) <= Len(c) /\ Len(c) \in Nat
    BY PrefixByEntries DEF Commit
  <1>2. s # Append(c, e)
    BY <1>1 DEF Commit
  <1> QED
    BY <1>2, PrefixOfAppend DEF IsStrictPrefix

------------------------------------------------------------------------------
(* What a step of a task does to its record, as far as main and the        *)
(* worktree are concerned.                                                 *)
Effect(t) ==
    /\ task[t].at \in Places
    /\ \/ task'[t].base = task[t].base
       \/ task[t].base = NoBase /\ task'[t].base = main /\ main' = main
    /\ task'[t].merge = task[t].merge \/ task'[t].at \in {"update", "result"}
    /\ task'[t].state = "COMPLETED" => main = task[t].merge /\ main' = main
    /\ task'[t].at = "revert" => main = task[t].merge /\ main' = main
    /\ task'[t].at = "reset" => claim(t) /\ queue' = [owner |-> t, live |-> TRUE]
    /\ task'[t].at = "candidate" =>
         /\ task[t].at = "reset" /\ main = task[t].base
         /\ worktree' = main /\ queue' = queue
    /\ task'[t].at = "t2" =>
         mergeCandidate(t) /\ worktree' = Append(worktree, Merged(t, task[t].artifact))

(* Failing has no effect but to end the task.                              *)
LEMMA FailedEffect ==
    ASSUME TypeOK, NEW t \in Tasks, Shape(t), task[t].at \in Places,
           NEW why \in Failures \cup {"timeout"}, Failed(t, why)
    PROVE  Effect(t)
  <1>1. task \in Setting
    BY DEF TypeOK, Setting
  <1>2. task'[t] = [task[t] EXCEPT !.state = Escalated(@), !.at = "done", !.why = why]
    BY <1>1 DEF Failed, Setting
  <1>3. /\ task'[t].state = Escalated(task[t].state)
        /\ task'[t].at = "done"
        /\ task'[t].why = why
        /\ task'[t].base = task[t].base
        /\ task'[t].merge = task[t].merge
    BY <1>1, <1>2 DEF Setting, Merging
  <1>4. Escalated(task[t].state) # "COMPLETED"
    BY Escalation DEF Shape, Places, InMerge
  <1> QED
    BY <1>3, <1>4 DEF Effect

(* Going on to the next place.                                             *)
LEMMA GotoEffect ==
    ASSUME TypeOK, NEW t \in Tasks, Shape(t), task[t].at \in Places,
           NEW place \in Places, Goto(t, place),
           place = "revert" => main = task[t].merge /\ main' = main,
           place = "reset" => claim(t) /\ queue' = [owner |-> t, live |-> TRUE],
           place = "candidate" =>
             /\ task[t].at = "reset" /\ main = task[t].base
             /\ worktree' = main /\ queue' = queue,
           place = "t2" =>
             mergeCandidate(t) /\ worktree' = Append(worktree, Merged(t, task[t].artifact))
    PROVE  Effect(t)
  <1>1. task \in Setting
    BY DEF TypeOK, Setting
  <1>2. task'[t] = [task[t] EXCEPT !.at = place]
    BY <1>1 DEF Goto, Setting
  <1>3. /\ task'[t].state = task[t].state
        /\ task'[t].at = place
        /\ task'[t].why = task[t].why
        /\ task'[t].base = task[t].base
        /\ task'[t].merge = task[t].merge
    BY <1>1, <1>2 DEF Setting, Merging
  <1>4. task[t].state # "COMPLETED"
    BY DEF Shape, Places, InMerge
  <1> QED
    BY <1>3, <1>4 DEF Effect

(* The effect of each step.                                                *)
LEMMA StepEffect ==
    ASSUME TypeOK, NEW t \in Tasks, Shape(t), Step(t)
    PROVE  Effect(t)
  <1>a. task \in Setting
    BY DEF TypeOK, Setting
  <1>b. ASSUME task[t].at \in Places,
               NEW why \in Failures \cup {"timeout"}, Failed(t, why)
        PROVE  Effect(t)
    BY <1>b, FailedEffect
  <1>c. task[t].at \in Places => task[t].state # "COMPLETED"
    BY DEF Shape, Places, InMerge
  <1>1. CASE runAutoMerge(t)
    <2>1. task[t].at \in Places /\ task[t].base = NoBase /\ main' = main
      BY <1>1 DEF runAutoMerge, At, Shape, Places
    <2>2. ASSUME NEW approve \in BOOLEAN,
                 task' = [task EXCEPT
                   ![t].base = main, ![t].artifact = tip[t],
                   ![t].state = IF approve THEN transition(@, "auto_approved") ELSE @,
                   ![t].at = IF approve THEN "approved" ELSE "package"]
          PROVE  Effect(t)
      <3>1. task'[t] = [task[t] EXCEPT
                   !.base = main, !.artifact = tip[t],
                   !.state = IF approve THEN transition(@, "auto_approved") ELSE @,
                   !.at = IF approve THEN "approved" ELSE "package"]
        BY <1>a, <2>2 DEF Setting
      <3>2. /\ task'[t].at \in {"approved", "package"}
            /\ task'[t].why = task[t].why
            /\ task'[t].merge = task[t].merge
            /\ task'[t].base = main
        BY <1>a, <3>1 DEF Setting, Merging
      <3>3. task'[t].state # "COMPLETED"
        <4>1. Shape(t)'
          BY StepShape
        <4> QED
          BY <3>2, <4>1 DEF Shape
      <3> QED
        BY <1>c, <2>1, <3>2, <3>3 DEF Effect
    <2> QED
      BY <1>1, <1>b, <2>1, <2>2 DEF runAutoMerge, decideAutoApprove, Failures
  <1>2. CASE decide(t)
    <2>1. task[t].at \in Places
      BY <1>2 DEF decide, At, Places
    <2>2. CASE task' = [task EXCEPT ![t].state = "APPROVED", ![t].at = "granted"]
      <3>1. task'[t] = [task[t] EXCEPT !.state = "APPROVED", !.at = "granted"]
        BY <1>a, <2>2 DEF Setting
      <3>2. /\ task'[t].at = "granted"
            /\ task'[t].state = "APPROVED"
            /\ task'[t].why = task[t].why
            /\ task'[t].base = task[t].base
            /\ task'[t].merge = task[t].merge
        BY <1>a, <3>1 DEF Setting, Merging
      <3> QED
        BY <1>c, <2>1, <3>2 DEF Effect
    <2>3. CASE task' = [task EXCEPT ![t].state = "CHANGES_REQUESTED",
                                    ![t].at = "done", ![t].why = "rejected"]
      <3>1. task'[t] = [task[t] EXCEPT !.state = "CHANGES_REQUESTED",
                                       !.at = "done", !.why = "rejected"]
        BY <1>a, <2>3 DEF Setting
      <3>2. /\ task'[t].at = "done"
            /\ task'[t].state = "CHANGES_REQUESTED"
            /\ task'[t].why = "rejected"
            /\ task'[t].base = task[t].base
            /\ task'[t].merge = task[t].merge
        BY <1>a, <3>1 DEF Setting, Merging
      <3> QED
        BY <2>1, <3>2 DEF Effect
    <2>4. CASE Failed(t, "evidence")
      BY <1>b, <2>1, <2>4 DEF Failures
    <2> QED
      BY <1>2, <2>2, <2>3, <2>4, DecideCases
  <1>3. CASE approvalTimeout(t)
    BY <1>3, <1>b DEF approvalTimeout, At, Places, Failures
  <1>4. CASE enter(t)
    <2>1. task[t].at \in Places
      BY <1>4 DEF enter, At, Places
    <2>2. ASSUME NEW place \in {"queue", "prepare"}, NEW state,
                 task' = [task EXCEPT ![t].state = state, ![t].at = place]
          PROVE  Effect(t)
      <3>1. task'[t] = [task[t] EXCEPT !.state = state, !.at = place]
        BY <1>a, <2>2 DEF Setting
      <3>2. /\ task'[t].at = place
            /\ task'[t].why = task[t].why
            /\ task'[t].base = task[t].base
            /\ task'[t].merge = task[t].merge
        BY <1>a, <3>1 DEF Setting, Merging
      <3>3. task'[t].state # "COMPLETED"
        <4>1. Shape(t)'
          BY StepShape
        <4> QED
          BY <3>2, <4>1 DEF Shape, Places, InMerge
      <3> QED
        BY <1>c, <2>1, <3>2, <3>3 DEF Effect
    <2> QED
      BY <1>4, <1>b, <2>1, <2>2 DEF enter, Failures
  <1>5. CASE prepareDetachedMerge(t)
    <2>1. task[t].at \in Places
      BY <1>5 DEF prepareDetachedMerge, At, Places
    <2>2. ASSUME NEW commit, task' = [task EXCEPT ![t].at = "update", ![t].merge = commit]
          PROVE  Effect(t)
      <3>1. task'[t] = [task[t] EXCEPT !.at = "update", !.merge = commit]
        BY <1>a, <2>2 DEF Setting
      <3>2. /\ task'[t].at = "update"
            /\ task'[t].state = task[t].state
            /\ task'[t].why = task[t].why
            /\ task'[t].base = task[t].base
        BY <1>a, <3>1 DEF Setting, Merging
      <3> QED
        BY <1>c, <2>1, <3>2 DEF Effect
    <2> QED
      BY <1>5, <1>b, <2>1, <2>2 DEF prepareDetachedMerge, Failures
  <1>6. CASE updateRef(t)
    BY <1>6, <1>b, GotoEffect DEF updateRef, At, Places, Failures
  <1>7. CASE claim(t)
    <2>1. task[t].at \in Places
      BY <1>7 DEF claim, At, Places
    <2>2. CASE task' = [task EXCEPT ![t].at = "thrown", ![t].why = "contention"]
      <3>1. task'[t] = [task[t] EXCEPT !.at = "thrown", !.why = "contention"]
        BY <1>a, <2>2 DEF Setting
      <3>2. /\ task'[t].at = "thrown"
            /\ task'[t].state = task[t].state
            /\ task'[t].why = "contention"
            /\ task'[t].base = task[t].base
            /\ task'[t].merge = task[t].merge
        BY <1>a, <3>1 DEF Setting, Merging
      <3> QED
        BY <1>c, <2>1, <3>2 DEF Effect
    <2> QED
      BY <1>7, <1>b, <2>1, <2>2, GotoEffect DEF claim, Places, Failures
  <1>8. CASE reset(t)
    <2>1. task[t].at \in Places
      BY <1>8 DEF reset, At, Places
    <2>2. CASE task' = [task EXCEPT ![t].at = "thrown", ![t].why = "worktree"]
      <3>1. task'[t] = [task[t] EXCEPT !.at = "thrown", !.why = "worktree"]
        BY <1>a, <2>2 DEF Setting
      <3>2. /\ task'[t].at = "thrown"
            /\ task'[t].state = task[t].state
            /\ task'[t].base = task[t].base
            /\ task'[t].merge = task[t].merge
        BY <1>a, <3>1 DEF Setting, Merging
      <3> QED
        BY <1>c, <2>1, <3>2 DEF Effect
    <2> QED
      BY <1>8, <1>b, <2>1, <2>2, GotoEffect DEF reset, At, Places, Failures
  <1>9. CASE mergeCandidate(t)
    BY <1>9, <1>b, GotoEffect DEF mergeCandidate, At, Places, Failures
  <1>10. CASE t2Ends(t)
    <2>1. task[t].at \in Places
      BY <1>10 DEF t2Ends, At, Places
    <2>2. ASSUME NEW verdict, NEW why \in {"t2_failed", "evidence"},
                 task' = [task EXCEPT ![t].state = Escalated(@), ![t].at = "done",
                                      ![t].why = why, ![t].t2 = verdict]
          PROVE  Effect(t)
      <3>1. task'[t] = [task[t] EXCEPT !.state = Escalated(@), !.at = "done",
                                       !.why = why, !.t2 = verdict]
        BY <1>a, <2>2 DEF Setting
      <3>2. /\ task'[t].at = "done"
            /\ task'[t].state = Escalated(task[t].state)
            /\ task'[t].why = why
            /\ task'[t].base = task[t].base
            /\ task'[t].merge = task[t].merge
        BY <1>a, <3>1 DEF Setting, Merging
      <3>3. Escalated(task[t].state) # "COMPLETED"
        BY <1>10, Escalation DEF t2Ends, At, Shape, Places, InMerge
      <3> QED
        BY <2>1, <3>2, <3>3 DEF Effect
    <2>3. ASSUME NEW verdict,
                 task' = [task EXCEPT ![t].at = "result", ![t].t2 = verdict,
                                      ![t].merge = worktree]
          PROVE  Effect(t)
      <3>1. task'[t] = [task[t] EXCEPT !.at = "result", !.t2 = verdict, !.merge = worktree]
        BY <1>a, <2>3 DEF Setting
      <3>2. /\ task'[t].at = "result"
            /\ task'[t].state = task[t].state
            /\ task'[t].why = task[t].why
            /\ task'[t].base = task[t].base
        BY <1>a, <3>1 DEF Setting, Merging
      <3> QED
        BY <1>c, <2>1, <3>2 DEF Effect
    <2> QED
      BY <1>10, <1>b, <2>1, <2>2, <2>3 DEF t2Ends, Failures
  <1>11. CASE mergeResult(t)
    BY <1>11, <1>b, GotoEffect DEF mergeResult, At, Places, Failures
  <1>12. CASE auditGate(t)
    BY <1>12, GotoEffect DEF auditGate, At, Places
  <1>13. CASE auditResult(t)
    BY <1>13, <1>b, GotoEffect DEF auditResult, MergeBound, At, Places, Failures
  <1>14. CASE revertMerge(t)
    BY <1>14, GotoEffect DEF revertMerge, At, Places
  <1>17. CASE escalateMismatch(t)
    BY <1>17, <1>b DEF escalateMismatch, At, Places, Failures
  <1>15. CASE complete(t)
    <2>1. task[t].at \in Places /\ main' = main
      BY <1>15 DEF complete, At, Places
    <2>2. ASSUME NEW state, MergeBound(t),
                 task' = [task EXCEPT ![t].at = "done", ![t].state = state]
          PROVE  Effect(t)
      <3>1. task'[t] = [task[t] EXCEPT !.at = "done", !.state = state]
        BY <1>a, <2>2 DEF Setting
      <3>2. /\ task'[t].at = "done"
            /\ task'[t].why = task[t].why
            /\ task'[t].base = task[t].base
            /\ task'[t].merge = task[t].merge
        BY <1>a, <3>1 DEF Setting, Merging
      <3> QED
        BY <1>c, <2>1, <2>2, <3>2 DEF Effect, MergeBound
    <2> QED
      BY <1>15, <1>b, <2>1, <2>2 DEF complete, Failures
  <1>16. CASE fencedOut(t)
    <2>1. task' = [task EXCEPT ![t].at = "done", ![t].why = "fenced"]
      BY <1>16 DEF fencedOut, FencedOut
    <2>2. task'[t] = [task[t] EXCEPT !.at = "done", !.why = "fenced"]
      BY <1>a, <2>1 DEF Setting
    <2>3. /\ task'[t].at = "done"
          /\ task'[t].state = task[t].state
          /\ task'[t].why = "fenced"
          /\ task'[t].base = task[t].base
          /\ task'[t].merge = task[t].merge
      BY <1>a, <2>2 DEF Setting, Merging
    <2>4. task[t].at \in Places
      BY <1>16 DEF fencedOut, At, Places
    <2> QED
      BY <1>c, <2>3, <2>4 DEF Effect
  <1> QED
    BY <1>1, <1>2, <1>3, <1>4, <1>5, <1>6, <1>7, <1>8, <1>9, <1>10, <1>11, <1>12, <1>13,
       <1>14, <1>15, <1>16, <1>17
    DEF Step

------------------------------------------------------------------------------
(* A task in its merge is not escalated, completed or mismatched.          *)
LEMMA InPlaces ==
    ASSUME NEW t \in Tasks, Shape(t), task[t].at \in Places
    PROVE  task[t].state \notin {"ESCALATED", "COMPLETED"} /\ task[t].why # "audit_mismatch"
BY DEF Shape, Places, InMerge

(* A task past its merge stays past it, or comes to its outcome.           *)
LEMMA LandedStep ==
    ASSUME TypeOK, NEW t \in Tasks, Shape(t), task[t].at \in AfterMerge, Step(t)
    PROVE  Landed(t)'
  <1>a. task \in Setting
    BY DEF TypeOK, Setting
  <1>b. task[t].state = "MERGE_QUEUED" /\ task[t].at \in Places
    BY DEF Shape, AfterMerge, InMerge, Places
  <1>c. ASSUME NEW why, Failed(t, why) PROVE Landed(t)'
    <2>1. task'[t] = [task[t] EXCEPT !.state = Escalated(@), !.at = "done", !.why = why]
      BY <1>a, <1>c DEF Failed, Setting
    <2>2. task'[t].state = Escalated(task[t].state) /\ task'[t].at = "done"
      BY <1>a, <2>1 DEF Setting, Merging
    <2> QED
      BY <1>b, <2>2, Escalation DEF Landed
  <1>d. ASSUME NEW place \in AfterMerge, Goto(t, place) PROVE Landed(t)'
    <2>1. task'[t] = [task[t] EXCEPT !.at = place]
      BY <1>a, <1>d DEF Goto, Setting
    <2> QED
      BY <1>a, <1>d, <2>1 DEF Landed, Setting, Merging
  <1>1. CASE t2Ends(t)
    <2>1. ASSUME NEW verdict, NEW why,
                 task' = [task EXCEPT ![t].state = Escalated(@), ![t].at = "done",
                                      ![t].why = why, ![t].t2 = verdict]
          PROVE  Landed(t)'
      <3>1. task'[t] = [task[t] EXCEPT !.state = Escalated(@), !.at = "done",
                                       !.why = why, !.t2 = verdict]
        BY <1>a, <2>1 DEF Setting
      <3>2. task'[t].state = Escalated(task[t].state) /\ task'[t].at = "done"
        BY <1>a, <3>1 DEF Setting, Merging
      <3> QED
        BY <1>b, <3>2, Escalation DEF Landed
    <2>2. ASSUME NEW verdict,
                 task' = [task EXCEPT ![t].at = "result", ![t].t2 = verdict,
                                      ![t].merge = worktree]
          PROVE  Landed(t)'
      <3>1. task'[t] = [task[t] EXCEPT !.at = "result", !.t2 = verdict, !.merge = worktree]
        BY <1>a, <2>2 DEF Setting
      <3>2. task'[t].at = "result"
        BY <1>a, <3>1 DEF Setting, Merging
      <3> QED
        BY <3>2 DEF Landed, AfterMerge
    <2> QED
      BY <1>1, <1>c, <2>1, <2>2 DEF t2Ends
  <1>2. CASE mergeResult(t)
    BY <1>2, <1>c, <1>d DEF mergeResult, AfterMerge
  <1>3. CASE auditGate(t)
    BY <1>3, <1>d DEF auditGate, AfterMerge
  <1>4. CASE auditResult(t)
    BY <1>4, <1>c, <1>d DEF auditResult, AfterMerge
  <1>5. CASE revertMerge(t)
    BY <1>5, <1>d DEF revertMerge, AfterMerge
  <1>6. CASE escalateMismatch(t)
    BY <1>6, <1>c DEF escalateMismatch
  <1>7. CASE complete(t)
    <2>1. ASSUME task' = [task EXCEPT ![t].at = "done", ![t].state = "COMPLETED"]
          PROVE  Landed(t)'
      <3>1. task'[t] = [task[t] EXCEPT !.at = "done", !.state = "COMPLETED"]
        BY <1>a, <2>1 DEF Setting
      <3>2. task'[t].at = "done" /\ task'[t].state = "COMPLETED"
        BY <1>a, <3>1 DEF Setting, Merging
      <3> QED
        BY <3>2 DEF Landed
    <2> QED
      BY <1>7, <1>b, <1>c, <2>1, Transitions DEF complete
  <1>8. CASE fencedOut(t)
    <2>1. task'[t] = [task[t] EXCEPT !.at = "done", !.why = "fenced"]
      BY <1>8, <1>a DEF fencedOut, FencedOut, Setting
    <2>2. task'[t].at = "done" /\ task'[t].why = "fenced"
      BY <1>a, <2>1 DEF Setting, Merging
    <2> QED
      BY <2>2 DEF Landed
  <1> QED
    BY <1>1, <1>2, <1>3, <1>4, <1>5, <1>6, <1>7, <1>8
    DEF Step, runAutoMerge, decide, approvalTimeout, enter, prepareDetachedMerge, updateRef,
        claim, reset, mergeCandidate, At, AfterMerge

(* Whoever steps, what landed has an outcome or somebody at it.            *)
LEMMA LandedKept ==
    ASSUME IInv, [Next]_vars, NEW t \in Tasks, Landed(t)
    PROVE  Landed(t)'
  <1>1. CASE Step(t)
    <2>1. task[t].at \in Places
      BY <1>1, StepEffect DEF IInv, Effect
    <2>2. task[t].at \in AfterMerge
      BY <2>1 DEF Landed, Places
    <2> QED
      BY <1>1, <2>2, LandedStep DEF IInv
  <1>2. CASE loseTask(t) \/ crash(t)
    BY <1>2, Interrupted DEF IInv, Landed
  <1>3. CASE task'[t] = task[t]
    BY <1>3 DEF Landed
  <1> QED
    BY <1>1, <1>2, <1>3, Others DEF IInv, Next, vars, pushToBranch, commitByOthers, queueLapses

(* The place a task has left with a step of its own.                       *)
LEMMA WentTo ==
    ASSUME TypeOK, NEW t \in Tasks, NEW place, Goto(t, place)
    PROVE  task'[t].at = place /\ task'[t].state = task[t].state /\ task'[t].why = task[t].why
  <1>1. task \in Setting
    BY DEF TypeOK, Setting
  <1>2. task'[t] = [task[t] EXCEPT !.at = place]
    BY <1>1 DEF Goto, Setting
  <1> QED
    BY <1>1, <1>2 DEF Setting, Merging

(* A task whose merge was taken back is escalated for the mismatch next.   *)
LEMMA WithdrawnKept ==
    ASSUME IInv, [Next]_vars, NEW t \in Tasks, Withdrawn(t)
    PROVE  Withdrawn(t)'
  <1>1. CASE Step(t)
    <2>1. task[t].at \in Places
      BY <1>1, StepEffect DEF IInv, Effect
    <2>2. task[t].at = "reverted" /\ task[t].state = "MERGE_QUEUED"
      BY <2>1, InPlaces DEF IInv, Withdrawn, Places
    <2>3. escalateMismatch(t)
      BY <1>1, <2>2
      DEF Step, runAutoMerge, decide, approvalTimeout, enter, prepareDetachedMerge, updateRef,
          claim, reset, mergeCandidate, t2Ends, mergeResult, auditGate, auditResult,
          revertMerge, complete, fencedOut, At
    <2>4. task \in Setting
      BY DEF IInv, TypeOK, Setting
    <2>5. task'[t] = [task[t] EXCEPT !.state = Escalated(@), !.at = "done",
                                     !.why = "audit_mismatch"]
      BY <2>3, <2>4 DEF escalateMismatch, Failed, Setting
    <2>6. task'[t].state = Escalated(task[t].state) /\ task'[t].why = "audit_mismatch"
      BY <2>4, <2>5 DEF Setting, Merging
    <2> QED
      BY <2>2, <2>6, Escalation DEF Withdrawn
  <1>2. CASE loseTask(t) \/ crash(t)
    BY <1>2, Interrupted DEF IInv, Withdrawn
  <1>3. CASE task'[t] = task[t]
    BY <1>3 DEF Withdrawn
  <1> QED
    BY <1>1, <1>2, <1>3, Others DEF IInv, Next, vars, pushToBranch, commitByOthers, queueLapses

------------------------------------------------------------------------------
(* Signed commits, and what lands on them.                                 *)
LEMMA SignedCommits ==
    ASSUME TypeOK, NEW t \in Tasks, task[t].base # NoBase
    PROVE  /\ task[t].base \in Commit
           /\ ItsMerge(t) \in Commit
           /\ ItsMerge(t) # NoBase
           /\ Len(ItsMerge(t)) = Len(task[t].base) + 1
  <1>1. task[t].base \in Commit
    BY DEF TypeOK, Merging
  <1>2. Merged(t, Gated) \in Entry
    BY Commits DEF Gated, Revisions
  <1>3. ItsMerge(t) \in Commit /\ Len(ItsMerge(t)) = Len(task[t].base) + 1
    BY <1>1, <1>2 DEF ItsMerge, Commit
  <1> QED
    BY <1>1, <1>3, Commits

(* What T2 lets through is main itself, when the lease lapsed and the next *)
(* candidate has reset the worktree, or some task's merge on its base.     *)
LEMMA T2Lands ==
    ASSUME TypeOK, MainIsSigned, WorktreeIsSigned, NEW t \in Tasks, At(t, "t2"),
           task[t].base # NoBase, main = task[t].base
    PROVE  \/ worktree = main
           \/ \E u \in Tasks : /\ task[u].base = main /\ Landed(u)
                              /\ worktree = Append(main, Merged(u, Gated))
  <1>1. main \in Commit /\ worktree \in Commit
    BY DEF TypeOK
  <1>2. IsPrefix(main, worktree)
    BY DEF WorktreeIsSigned, At
  <1>3. CASE IsPrefix(worktree, main)
    <2>1. Len(main) <= Len(worktree)
      BY <1>2 DEF IsPrefix
    <2> QED
      BY <1>1, <1>3, <2>1, PrefixBothWays
  <1>4. ASSUME NEW u \in Tasks, Landed(u), task[u].base # NoBase, worktree = ItsMerge(u)
        PROVE  worktree = main \/ (task[u].base = main /\ worktree = Append(main, Merged(u, Gated)))
    <2>1. task[u].base \in Commit /\ Merged(u, Gated) \in Entry
      BY <1>4, SignedCommits, Commits DEF Gated, Revisions
    <2>2. IsPrefix(task[u].base, main)
      BY <1>4 DEF MainIsSigned
    <2>3. IsPrefix(main, Append(task[u].base, Merged(u, Gated)))
      BY <1>2, <1>4 DEF ItsMerge
    <2>4. main = task[u].base \/ main = ItsMerge(u)
      BY <1>1, <2>1, <2>2, <2>3, PrefixSqueezed DEF ItsMerge
    <2> QED
      BY <1>4, <2>4 DEF ItsMerge
  <1> QED
    BY <1>3, <1>4 DEF WorktreeIsSigned

(* What a step of a task adds to main: the merge of a task signed for its  *)
(* tip, which need not be the task that steps, or the revert of its own.   *)
LEMMA Landing ==
    ASSUME IInv, NEW t \in Tasks, Step(t)
    PROVE  \/ main' = main
           \/ \E u \in Tasks : /\ task[u].base = main /\ Landed(u)'
                              /\ main' = Append(main, Merged(u, Gated))
           \/ revertMerge(t) /\ main' = Append(main, Reverted(t))
  <1>1. Shape(t)
    BY DEF IInv
  <1>2. CASE updateRef(t)
    <2>1. task[t].merge = ItsMerge(t)
      BY <1>1, <1>2 DEF updateRef, At, Shape
    <2>2. CASE main = task[t].base
      <3>1. Landed(t)'
        BY <1>2, <2>2, WentTo DEF IInv, updateRef, Landed, AfterMerge
      <3> QED
        BY <1>2, <2>1, <2>2, <3>1 DEF updateRef, ItsMerge
    <2> QED
      BY <1>2, <2>2 DEF updateRef
  <1>3. CASE t2Ends(t)
    <2>1. At(t, "t2") /\ task[t].base # NoBase
      BY <1>1, <1>3 DEF t2Ends, At, Shape, Places
    <2>2. main' = main \/ (main = task[t].base /\ main' = worktree)
      BY <1>3 DEF t2Ends
    <2>3. CASE main = task[t].base /\ main' = worktree
      <3>1. ASSUME NEW u \in Tasks, Landed(u) PROVE Landed(u)'
        BY <1>3, <3>1, LandedKept DEF Next, Step
      <3> QED
        BY <2>1, <2>3, <3>1, T2Lands DEF IInv
    <2> QED
      BY <2>2, <2>3
  <1>4. CASE revertMerge(t)
    BY <1>4 DEF revertMerge
  <1> QED
    BY <1>2, <1>3, <1>4
    DEF Step, runAutoMerge, decide, approvalTimeout, enter, prepareDetachedMerge, claim, reset,
        mergeCandidate, mergeResult, auditGate, auditResult, escalateMismatch, complete,
        fencedOut, FencedOut

(* What any step adds to main.                                             *)
LEMMA MainGrows ==
    ASSUME IInv, [Next]_vars
    PROVE  \/ main' = main
           \/ \E u \in Tasks : /\ task[u].base = main /\ Landed(u)'
                              /\ main' = Append(main, Merged(u, Gated))
           \/ \E t \in Tasks : revertMerge(t) /\ main' = Append(main, Reverted(t))
           \/ main' = Append(main, Other)
  <1>1. CASE \E t \in Tasks : Step(t)
    BY <1>1, Landing
  <1> QED
    BY <1>1 DEF Next, vars, pushToBranch, loseTask, crash, commitByOthers, queueLapses

(* A report is bound once.                                                 *)
LEMMA BaseKept ==
    ASSUME IInv, [Next]_vars, NEW t \in Tasks
    PROVE  \/ task'[t].base = task[t].base
           \/ task[t].base = NoBase /\ task'[t].base = main /\ main' = main
  <1>1. ASSUME NEW u \in Tasks, Step(u) \/ loseTask(u) \/ crash(u)
        PROVE  \/ task'[t].base = task[t].base
               \/ task[t].base = NoBase /\ task'[t].base = main /\ main' = main
    <2>1. CASE u # t
      BY <1>1, <2>1, Others DEF IInv
    <2>2. CASE u = t /\ Step(t)
      BY <2>2, StepEffect DEF IInv, Effect
    <2>3. CASE u = t /\ (loseTask(t) \/ crash(t))
      BY <2>3, Interrupted DEF IInv
    <2> QED
      BY <1>1, <2>1, <2>2, <2>3
  <1> QED
    BY <1>1 DEF Next, vars, pushToBranch, commitByOthers, queueLapses

(* main is a prefix of what it becomes.                                    *)
LEMMA MainExtends ==
    ASSUME IInv, [Next]_vars
    PROVE  \/ main' = main
           \/ \E e \in Entry : main' = Append(main, e)
BY MainGrows, Commits DEF Gated, Revisions

------------------------------------------------------------------------------
(* Whatever is a prefix of main stays one.                                 *)
LEMMA PrefixKept ==
    ASSUME IInv, [Next]_vars, NEW s \in Commit, IsPrefix(s, main)
    PROVE  IsPrefix(s, main')
  <1>1. main \in Commit
    BY DEF IInv, TypeOK
  <1> QED
    BY <1>1, MainExtends, PrefixOfAppend

(* What a task that is over, or at its revert, keeps.                      *)
LEMMA EndKept ==
    ASSUME IInv, [Next]_vars, NEW t \in Tasks, task[t].at \notin Places
    PROVE  /\ task'[t].state = task[t].state
           /\ task'[t].why = task[t].why
           /\ task'[t].base = task[t].base
           /\ task'[t].merge = task[t].merge
           /\ task'[t].at = task[t].at \/ task'[t].at = "crashed"
  <1>1. ASSUME NEW u \in Tasks, Step(u) PROVE task'[t] = task[t]
    <2>1. task[u].at \in Places
      BY <1>1, StepEffect DEF IInv, Effect
    <2> QED
      BY <1>1, <2>1, Others DEF IInv
  <1>2. ASSUME NEW u \in Tasks, u # t, loseTask(u) \/ crash(u) PROVE task'[t] = task[t]
    BY <1>2, Others DEF IInv
  <1>3. CASE loseTask(t) \/ crash(t)
    BY <1>3, Interrupted DEF IInv
  <1> QED
    BY <1>1, <1>2, <1>3 DEF Next, vars, pushToBranch, commitByOthers, queueLapses

(* Signed bases stay on main.                                              *)
LEMMA BasesStay ==
    ASSUME IInv, [Next]_vars, NEW t \in Tasks, task'[t].base # NoBase
    PROVE  IsPrefix(task'[t].base, main')
  <1>1. main \in Commit
    BY DEF IInv, TypeOK
  <1>2. CASE task'[t].base = task[t].base
    <2>1. task[t].base \in Commit /\ IsPrefix(task[t].base, main)
      BY <1>2, SignedCommits DEF IInv, MainIsSigned
    <2> QED
      BY <1>2, <2>1, PrefixKept
  <1>3. CASE task'[t].base = main /\ main' = main
    BY <1>1, <1>3, PrefixOfItself
  <1> QED
    BY <1>2, <1>3, BaseKept

(* The entries of main stay where they are; one may be added at its end.   *)
LEMMA EntriesStay ==
    ASSUME IInv, [Next]_vars, NEW i \in DOMAIN main'
    PROVE  \/ i \in DOMAIN main /\ main'[i] = main[i]
              /\ SubSeq(main', 1, i - 1) = SubSeq(main, 1, i - 1)
           \/ main' # main /\ i = Len(main) + 1 /\ SubSeq(main', 1, i - 1) = main
  <1>1. main \in Seq(Entry)
    BY DEF IInv, TypeOK, Commit
  <1>2. CASE main' = main
    BY <1>2
  <1>3. ASSUME NEW e \in Entry, main' = Append(main, e)
        PROVE  \/ i \in DOMAIN main /\ main'[i] = main[i]
                  /\ SubSeq(main', 1, i - 1) = SubSeq(main, 1, i - 1)
               \/ main' # main /\ i = Len(main) + 1 /\ SubSeq(main', 1, i - 1) = main
    <2>1. /\ Len(main') = Len(main) + 1 /\ DOMAIN main' = 1 .. Len(main) + 1
          /\ DOMAIN main = 1 .. Len(main) /\ Len(main) \in Nat
          /\ main' \in Seq(Entry)
          /\ \A j \in 1 .. Len(main) : main'[j] = main[j]
      BY <1>1, <1>3
    <2>2. ASSUME NEW n \in 0 .. Len(main)
          PROVE  SubSeq(main', 1, n) = SubSeq(main, 1, n)
      <3>1. /\ SubSeq(main', 1, n) \in Seq(Entry) /\ Len(SubSeq(main', 1, n)) = n
            /\ SubSeq(main, 1, n) \in Seq(Entry) /\ Len(SubSeq(main, 1, n)) = n
        BY <1>1, <2>1
      <3>2. \A j \in 1 .. n : SubSeq(main', 1, n)[j] = SubSeq(main, 1, n)[j]
        BY <1>1, <2>1
      <3> QED
        BY <3>1, <3>2, SeqEqual
    <2>3. SubSeq(main, 1, Len(main)) = main
      BY <1>1
    <2>4. main' # main
      BY <2>1
    <2> QED
      BY <2>1, <2>2, <2>3, <2>4
  <1> QED
    BY <1>2, <1>3, MainExtends

(* Gated work on signed bases: the inductive step of OnlyGatedWorkOnMain.  *)
LEMMA GatedStays ==
    ASSUME IInv, [Next]_vars
    PROVE  OnlyGatedWorkOnMain'
  <1> SUFFICES ASSUME NEW i \in DOMAIN main', main'[i].kind = "merge"
               PROVE  /\ main'[i].rev = Gated
                      /\ task'[main'[i].task].base = SubSeq(main', 1, i - 1)
    BY DEF OnlyGatedWorkOnMain
  <1>1. main \in Seq(Entry)
    BY DEF IInv, TypeOK, Commit
  <1>2. CASE i \in DOMAIN main /\ main'[i] = main[i]
             /\ SubSeq(main', 1, i - 1) = SubSeq(main, 1, i - 1)
    <2>1. main[i].rev = Gated /\ task[main[i].task].base = SubSeq(main, 1, i - 1)
      BY <1>2 DEF IInv, MainIsSigned, OnlyGatedWorkOnMain
    <2>2. SubSeq(main, 1, i - 1) # NoBase
      <3>1. i \in 1 .. Len(main)
        BY <1>1, <1>2
      <3>2. SubSeq(main, 1, i - 1) \in Commit
        BY <1>1, <3>1 DEF Commit
      <3> QED
        BY <3>2, Commits
    <2>3. main[i].task \in Tasks
      BY <1>2 DEF IInv, MainIsSigned
    <2> QED
      BY <1>2, <2>1, <2>2, <2>3, BaseKept
  <1>3. CASE main' # main /\ i = Len(main) + 1 /\ SubSeq(main', 1, i - 1) = main
    <2>1. ASSUME NEW e \in Entry, main' = Append(main, e) PROVE main'[i] = e
      <3>1. i = Len(main) + 1
        BY <1>3
      <3> QED
        BY <1>1, <2>1, <3>1
    <2>2. PICK u \in Tasks : task[u].base = main /\ main' = Append(main, Merged(u, Gated))
      <3>1. main' # Append(main, Other)
        BY <1>3, <2>1, Commits DEF Other
      <3>2. \A t \in Tasks : main' # Append(main, Reverted(t))
        BY <1>3, <2>1, Commits DEF Reverted
      <3> QED
        BY <1>3, <3>1, <3>2, MainGrows
    <2>3. main'[i] = Merged(u, Gated)
      BY <2>1, <2>2, Commits DEF Gated, Revisions
    <2>4. task'[u].base = main
      <3>1. main # NoBase
        BY <1>1, Commits DEF Commit
      <3> QED
        BY <2>2, <3>1, BaseKept
    <2> QED
      BY <1>3, <2>3, <2>4 DEF Merged
  <1> QED
    BY <1>2, <1>3, EntriesStay

(* What an entry of main is that is not there yet and not others'.         *)
LEMMA NewEntry ==
    ASSUME IInv, [Next]_vars, NEW i \in DOMAIN main', main'[i] # Other
    PROVE  \/ i \in DOMAIN main /\ main'[i] = main[i]
           \/ \E u \in Tasks : main'[i] = Merged(u, Gated) /\ Landed(u)'
           \/ \E t \in Tasks : /\ main'[i] = Reverted(t) /\ revertMerge(t)
                              /\ i = Len(main) + 1 /\ main' = Append(main, Reverted(t))
  <1>1. main \in Seq(Entry)
    BY DEF IInv, TypeOK, Commit
  <1>2. CASE main' # main /\ i = Len(main) + 1
    <2>1. ASSUME NEW e \in Entry, main' = Append(main, e) PROVE main'[i] = e
      BY <1>1, <1>2, <2>1
    <2>2. main' # Append(main, Other)
      BY <2>1, Commits
    <2>3. ASSUME NEW u \in Tasks, main' = Append(main, Merged(u, Gated))
          PROVE  main'[i] = Merged(u, Gated)
      BY <2>1, <2>3, Commits DEF Gated, Revisions
    <2>4. ASSUME NEW t \in Tasks, main' = Append(main, Reverted(t))
          PROVE  main'[i] = Reverted(t)
      BY <2>1, <2>4, Commits
    <2> QED
      BY <1>2, <2>2, <2>3, <2>4, MainGrows
  <1> QED
    BY <1>2, EntriesStay

(* What a revert takes back is below it, once: the inductive step.         *)
LEMMA RevertsKept ==
    ASSUME IInv, [Next]_vars
    PROVE  RevertsAreAnsweredFor'
  <1> SUFFICES ASSUME NEW i \in DOMAIN main', main'[i].kind = "revert"
               PROVE  /\ Withdrawn(main[i].task)'
                      /\ \E j \in 1..(i - 1) : main'[j] = Merged(main'[i].task, Gated)
                      /\ \A j \in 1..(i - 1) : main'[j] # main'[i]
    BY DEF RevertsAreAnsweredFor, Withdrawn
  <1>1. main \in Seq(Entry) /\ main' \in Seq(Entry)
    BY Typing DEF IInv, TypeOK, Commit
  <1>2. main'[i] # Other /\ \A u \in Tasks : main'[i] # Merged(u, Gated)
    BY DEF Other, Merged
  <1>3. CASE i \in DOMAIN main /\ main'[i] = main[i]
    <2>1. \A j \in 1..(i - 1) : j \in DOMAIN main /\ main'[j] = main[j]
      BY <1>1, <1>3, EntriesStay
    <2>2. PICK t \in Tasks : t = main[i].task /\ Withdrawn(t)
      BY <1>3 DEF IInv, MainIsSigned, RevertsAreAnsweredFor
    <2>3. Withdrawn(t)'
      BY <2>2, WithdrawnKept
    <2>4. Withdrawn(main[i].task)'
      BY <1>3, <2>2, <2>3 DEF Withdrawn
    <2>5. /\ \E j \in 1..(i - 1) : main[j] = Merged(main[i].task, Gated)
          /\ \A j \in 1..(i - 1) : main[j] # main[i]
      BY <1>3 DEF IInv, MainIsSigned, RevertsAreAnsweredFor
    <2> QED
      BY <1>3, <2>1, <2>4, <2>5
  <1>4. ASSUME NEW t \in Tasks, main'[i] = Reverted(t), revertMerge(t), i = Len(main) + 1,
               main' = Append(main, Reverted(t))
        PROVE  /\ Withdrawn(main[i].task)'
               /\ \E j \in 1..(i - 1) : main'[j] = Merged(main'[i].task, Gated)
               /\ \A j \in 1..(i - 1) : main'[j] # main'[i]
    <2>1. task[t].at = "revert" /\ Shape(t) /\ TypeOK
      BY <1>4 DEF revertMerge, At, IInv
    <2>2. task[t].state = "MERGE_QUEUED" /\ task[t].why = "none"
      BY <2>1 DEF Shape, InMerge, Places
    <2>3. Withdrawn(t)'
      BY <1>4, <2>1, <2>2, WentTo DEF revertMerge, Withdrawn
    <2>4. main'[i].task = t /\ \A j \in 1..(i - 1) : main'[j] = main[j] /\ j \in DOMAIN main
      BY <1>1, <1>4 DEF Reverted
    <2>5. \A j \in 1..(i - 1) : main[j] # Reverted(t)
      <3>1. ASSUME NEW j \in 1..(i - 1), main[j] = Reverted(t) PROVE FALSE
        <4>1. Withdrawn(t)
          BY <2>4, <3>1 DEF IInv, MainIsSigned, RevertsAreAnsweredFor, Reverted
        <4> QED
          BY <2>1, <2>2, <4>1 DEF Withdrawn
      <3> QED
        BY <3>1
    <2>6. \E j \in 1..(i - 1) : main[j] = Merged(t, Gated)
      <3>1. task[t].base # NoBase /\ task[t].merge = ItsMerge(t)
        BY <2>1 DEF Shape
      <3>2. IsPrefix(ItsMerge(t), main)
        BY <2>1, <3>1 DEF IInv, MainIsSigned
      <3>3. /\ task[t].base \in Seq(Entry)
            /\ ItsMerge(t) \in Commit /\ Len(ItsMerge(t)) = Len(task[t].base) + 1
        BY <2>1, <3>1, SignedCommits DEF Commit
      <3>4. ItsMerge(t)[Len(task[t].base) + 1] = Merged(t, Gated)
        BY <3>3, Commits DEF ItsMerge, Gated, Revisions
      <3>5. /\ Len(ItsMerge(t)) <= Len(main)
            /\ \A j \in 1..Len(ItsMerge(t)) : main[j] = ItsMerge(t)[j]
        BY <1>1, <3>2, <3>3, PrefixByEntries DEF Commit
      <3> DEFINE n == Len(task[t].base) + 1
      <3>6. n \in 1..Len(main) /\ main[n] = Merged(t, Gated)
        BY <3>3, <3>4, <3>5
      <3> QED
        BY <1>4, <3>6
    <2> QED
      BY <1>4, <2>3, <2>4, <2>5, <2>6 DEF Withdrawn
  <1> QED
    BY <1>2, <1>3, <1>4, NewEntry

(* The rest of MainIsSigned, conjunct by conjunct.                          *)
LEMMA MainKept ==
    ASSUME IInv, [Next]_vars, \A t \in Tasks : Shape(t)'
    PROVE  MainIsSigned'
  <1>1. \A t \in Tasks : task'[t].base # NoBase => IsPrefix(task'[t].base, main')
    BY BasesStay
  <1>2. OnlyGatedWorkOnMain'
    BY GatedStays
  <1>3. ASSUME NEW i \in DOMAIN main', main'[i] # Other
        PROVE  \/ i \in DOMAIN main /\ main'[i] = main[i]
               \/ \E u \in Tasks : main'[i] = Merged(u, Gated) /\ Landed(u)'
               \/ \E t \in Tasks : main'[i] = Reverted(t)
    BY <1>3, NewEntry
  <1>4. ASSUME NEW i \in DOMAIN main', main'[i].kind # "other" PROVE main'[i].task \in Tasks
    <2>1. main'[i] # Other
      BY <1>4 DEF Other
    <2>2. CASE i \in DOMAIN main /\ main'[i] = main[i]
      BY <1>4, <2>2 DEF IInv, MainIsSigned
    <2> QED
      BY <1>3, <2>1, <2>2 DEF Merged, Reverted
  <1>5. ASSUME NEW i \in DOMAIN main', main'[i].kind = "merge"
        PROVE  Landed(main[i].task)'
    <2>1. main'[i] # Other /\ \A t \in Tasks : main'[i] # Reverted(t)
      BY <1>5 DEF Other, Reverted
    <2>2. CASE i \in DOMAIN main /\ main'[i] = main[i]
      <3>1. main[i].task \in Tasks /\ Landed(main[i].task)
        BY <1>5, <2>2 DEF IInv, MainIsSigned
      <3>2. Landed(main[i].task)'
        <4>1. PICK u \in Tasks : u = main[i].task /\ Landed(u)
          BY <3>1
        <4>2. Landed(u)'
          BY <4>1, LandedKept
        <4> QED
          BY <2>2, <4>1, <4>2 DEF Landed
      <3> QED
        BY <3>2
    <2>3. ASSUME NEW u \in Tasks, main'[i] = Merged(u, Gated), Landed(u)'
          PROVE  Landed(main[i].task)'
      BY <2>3 DEF Merged, Landed
    <2> QED
      BY <1>3, <2>1, <2>2, <2>3
  <1>7. RevertsAreAnsweredFor'
    BY RevertsKept
  <1>6. ASSUME NEW t \in Tasks, task'[t].at = "revert" \/ task'[t].state = "COMPLETED"
        PROVE  IsPrefix(task'[t].merge, main')
    <2>1. main \in Commit
      BY DEF IInv, TypeOK
    <2>2. CASE main' = main /\ main = task[t].merge /\ task'[t].merge = task[t].merge
      BY <2>1, <2>2, PrefixOfItself
    <2>3. CASE /\ task[t].at = "revert" \/ task[t].state = "COMPLETED"
               /\ task'[t].merge = task[t].merge
      <3>1. task[t].merge \in Commit /\ IsPrefix(task[t].merge, main)
        BY <2>3 DEF IInv, MainIsSigned, TypeOK, Merging
      <3> QED
        BY <2>3, <3>1, PrefixKept
    <2>4. CASE Step(t)
      <3>1. Effect(t)
        BY <2>4, StepEffect DEF IInv
      <3>2. task'[t].at \notin {"update", "result"}
        BY <1>6 DEF Shape, InMerge, Places
      <3> QED
        BY <1>6, <2>2, <3>1, <3>2 DEF Effect
    <2>5. CASE loseTask(t) \/ crash(t)
      BY <1>6, <2>3, <2>5, Interrupted DEF IInv
    <2>6. CASE task'[t] = task[t]
      BY <1>6, <2>3, <2>6
    <2>7. Step(t) \/ loseTask(t) \/ crash(t) \/ task'[t] = task[t]
      BY Others DEF IInv, Next, vars, pushToBranch, commitByOthers, queueLapses
    <2> QED
      BY <2>4, <2>5, <2>6, <2>7
  <1> QED
    BY <1>1, <1>2, <1>4, <1>5, <1>6, <1>7 DEF MainIsSigned

------------------------------------------------------------------------------
(* Who holds the queue keeps it while others step, and the worktree is his. *)
LEMMA QueueHeld ==
    ASSUME IInv, NEW t \in Tasks, queue = [owner |-> t, live |-> TRUE],
           NEW u \in Tasks, u # t, Step(u)
    PROVE  queue' = queue
  <1>1. queue.owner = t /\ queue.live /\ NoTask \notin Tasks
    BY MergeAssumption
  <1>2. ~Claimable(u)
    BY <1>1 DEF Claimable
  <1>3. release(u) => queue' = queue
    BY <1>1 DEF release
  <1> QED
    BY <1>2, <1>3
    DEF Step, runAutoMerge, decide, approvalTimeout, enter, prepareDetachedMerge, updateRef,
        claim, reset, mergeCandidate, t2Ends, mergeResult, auditGate, auditResult, revertMerge,
        escalateMismatch, complete, fencedOut, FencedOut

(* Only the holder of the queue changes the worktree.                      *)
LEMMA WorktreeSteps ==
    ASSUME NEW u \in Tasks, Step(u)
    PROVE  \/ worktree' = worktree
           \/ At(u, "reset") /\ worktree' = main
           \/ At(u, "candidate") /\ worktree' = Append(worktree, Merged(u, task[u].artifact))
              /\ Goto(u, "t2")
BY DEF Step, runAutoMerge, decide, approvalTimeout, enter, prepareDetachedMerge, updateRef,
       claim, reset, mergeCandidate, t2Ends, mergeResult, auditGate, auditResult, revertMerge,
       escalateMismatch, complete, fencedOut, FencedOut

(* Every step is one of a task, an interruption of one, or nobody's.       *)
LEMMA WhoSteps ==
    ASSUME TypeOK, [Next]_vars, NEW t \in Tasks
    PROVE  \/ Step(t)
           \/ \E u \in Tasks : u # t /\ Step(u) /\ task'[t] = task[t]
           \/ UNCHANGED worktree /\ (queue' = queue \/ queueLapses)
              /\ (task'[t] = task[t] \/ loseTask(t) \/ crash(t))
  <1>1. ASSUME NEW u \in Tasks, Step(u)
        PROVE  Step(t) \/ (u # t /\ Step(u) /\ task'[t] = task[t])
    BY <1>1, Others
  <1>2. ASSUME NEW u \in Tasks, loseTask(u) \/ crash(u)
        PROVE  /\ UNCHANGED worktree /\ queue' = queue
               /\ task'[t] = task[t] \/ loseTask(t) \/ crash(t)
    BY <1>2, Others DEF loseTask, crash
  <1>3. ASSUME \/ \E u \in Tasks : pushToBranch(u)
               \/ commitByOthers
               \/ queueLapses
               \/ UNCHANGED vars
        PROVE  /\ UNCHANGED worktree /\ (queue' = queue \/ queueLapses)
               /\ task'[t] = task[t]
    BY <1>3 DEF pushToBranch, commitByOthers, queueLapses, vars
  <1> QED
    BY <1>1, <1>2, <1>3 DEF Next

(* The inductive step of WorktreeHasOneWriter.                             *)
LEMMA OneWriterKept ==
    ASSUME IInv, [Next]_vars
    PROVE  WorktreeHasOneWriter'
  <1> SUFFICES ASSUME NEW t \in Tasks, task'[t].at \in {"reset", "candidate"}
               PROVE  queue' = [owner |-> t, live |-> TRUE]
    BY DEF WorktreeHasOneWriter
  <1>1. CASE Step(t)
    <2>1. Effect(t)
      BY <1>1, StepEffect DEF IInv
    <2>2. CASE task'[t].at = "reset"
      BY <2>1, <2>2 DEF Effect
    <2>3. CASE task'[t].at = "candidate"
      <3>1. queue' = queue /\ task[t].at = "reset"
        BY <2>1, <2>3 DEF Effect
      <3> QED
        BY <3>1 DEF IInv, WorktreeIsSigned, WorktreeHasOneWriter
    <2> QED
      BY <2>2, <2>3
  <1>2. ASSUME task[t].at \in {"reset", "candidate"} PROVE queue = [owner |-> t, live |-> TRUE]
    BY <1>2 DEF IInv, WorktreeIsSigned, WorktreeHasOneWriter
  <1>3. ASSUME NEW u \in Tasks, u # t, Step(u), task'[t] = task[t]
        PROVE  queue' = [owner |-> t, live |-> TRUE]
    BY <1>2, <1>3, QueueHeld
  <1>4. CASE queue' = queue \/ queueLapses
    <2>1. CASE task'[t] = task[t] \/ loseTask(t) \/ crash(t)
      <3>1. task[t].at \in {"reset", "candidate"}
        BY <2>1, Interrupted DEF IInv
      <3>2. queue = [owner |-> t, live |-> TRUE]
        BY <1>2, <3>1
      <3>3. ~queueLapses
        <4>1. queue.owner = t
          BY <3>2
        <4> QED
          BY <3>1, <4>1 DEF queueLapses
      <3> QED
        BY <1>4, <3>2, <3>3
    <2>2. CASE ~(task'[t] = task[t] \/ loseTask(t) \/ crash(t))
      BY <1>1, <1>3, <2>2, WhoSteps DEF IInv
    <2> QED
      BY <2>1, <2>2
  <1> QED
    BY <1>1, <1>3, <1>4, WhoSteps DEF IInv

(* The rest of WorktreeIsSigned, conjunct by conjunct.                     *)
LEMMA WorktreeKept ==
    ASSUME IInv, [Next]_vars, TypeOK', \A t \in Tasks : Shape(t)', MainIsSigned'
    PROVE  WorktreeIsSigned'
  <1>0. main \in Commit /\ worktree \in Commit /\ main' \in Commit
    BY DEF IInv, TypeOK
  <1>1. WorktreeHasOneWriter'
    BY OneWriterKept
  <1>2. ASSUME NEW t \in Tasks, task[t].at \in Places \ {"reviewing"}
        PROVE  /\ task[t].base # NoBase
               /\ task'[t].base = task[t].base
               /\ task[t].artifact = Gated
               /\ task[t].base \in Commit
               /\ IsPrefix(task[t].base, main)
    <2>1. task[t].base # NoBase /\ task[t].artifact = Gated
      BY <1>2 DEF IInv, Shape
    <2> QED
      BY <2>1, BaseKept, SignedCommits DEF IInv, MainIsSigned
  <1>3. ASSUME NEW t \in Tasks, task'[t].at = "candidate" PROVE worktree' = task'[t].base
    <2>1. CASE Step(t)
      <3>1. main = task[t].base /\ worktree' = main /\ task[t].at = "reset"
        BY <1>3, <2>1, StepEffect DEF IInv, Effect
      <3> QED
        BY <1>2, <3>1 DEF Places
    <2>2. CASE task[t].at = "candidate" /\ ~Step(t)
      <3>1. queue = [owner |-> t, live |-> TRUE] /\ worktree = task[t].base
        BY <2>2 DEF IInv, WorktreeIsSigned, WorktreeHasOneWriter
      <3>2. ASSUME NEW u \in Tasks, u # t PROVE task[u].at \notin {"reset", "candidate"}
        <4>1. [owner |-> t, live |-> TRUE] # [owner |-> u, live |-> TRUE]
          BY <3>2
        <4> QED
          BY <3>1, <3>2, <4>1 DEF IInv, WorktreeIsSigned, WorktreeHasOneWriter
      <3>3. worktree' = worktree
        BY <2>2, <3>2, WhoSteps, WorktreeSteps DEF IInv, At
      <3> QED
        BY <1>2, <2>2, <3>1, <3>3 DEF Places
    <2>3. Step(t) \/ task[t].at = "candidate"
      BY <1>3, WhoSteps, Interrupted DEF IInv
    <2> QED
      BY <2>1, <2>2, <2>3
  <1>4. ASSUME NEW t \in Tasks, task'[t].at = "t2" PROVE IsPrefix(task'[t].base, worktree')
    <2>1. CASE Step(t)
      <3>1. /\ mergeCandidate(t)
            /\ worktree' = Append(worktree, Merged(t, task[t].artifact))
        BY <1>4, <2>1, StepEffect DEF IInv, Effect
      <3>2. task[t].at = "candidate" /\ worktree = task[t].base
        BY <3>1 DEF mergeCandidate, At, IInv, WorktreeIsSigned
      <3>3. task'[t].base = task[t].base /\ task[t].artifact = Gated
        BY <1>2, <3>2 DEF Places
      <3> QED
        BY <1>0, <3>1, <3>2, <3>3, PrefixOfItself, PrefixOfAppend, Commits DEF Gated, Revisions
    <2>2. CASE task[t].at = "t2"
      <3>1. /\ IsPrefix(task[t].base, worktree)
            /\ IsPrefix(task[t].base, main)
            /\ task'[t].base = task[t].base
            /\ task[t].base \in Commit
        BY <1>2, <2>2 DEF IInv, WorktreeIsSigned, Places
      <3>2. \/ worktree' = worktree
            \/ worktree' = main
            \/ \E e \in Entry : worktree' = Append(worktree, e)
        <4>1. ASSUME NEW u \in Tasks, Step(u)
              PROVE  \/ worktree' = worktree
                     \/ worktree' = main
                     \/ \E e \in Entry : worktree' = Append(worktree, e)
          <5>1. At(u, "candidate") => Merged(u, task[u].artifact) \in Entry
            BY <1>2, Commits DEF At, Places, Gated, Revisions
          <5> QED
            BY <4>1, <5>1, WorktreeSteps
        <4> QED
          BY <4>1, WhoSteps DEF IInv
      <3> QED
        BY <1>0, <3>1, <3>2, PrefixOfAppend
    <2>3. Step(t) \/ task[t].at = "t2"
      BY <1>4, WhoSteps, Interrupted DEF IInv
    <2> QED
      BY <2>1, <2>2, <2>3
  <1>5. \/ IsPrefix(worktree', main')
        \/ \E t \in Tasks : Landed(t)' /\ task'[t].base # NoBase /\ worktree' = ItsMerge(t)'
    <2>1. CASE worktree' = worktree
      <3>1. CASE IsPrefix(worktree, main)
        BY <1>0, <2>1, <3>1, PrefixKept
      <3>2. ASSUME NEW t \in Tasks, Landed(t), task[t].base # NoBase, worktree = ItsMerge(t)
            PROVE  Landed(t)' /\ task'[t].base # NoBase /\ worktree' = ItsMerge(t)'
        BY <2>1, <3>2, BaseKept, LandedKept DEF ItsMerge
      <3> QED
        BY <3>1, <3>2 DEF IInv, WorktreeIsSigned
    <2>2. CASE worktree' = main
      BY <1>0, <2>2, PrefixOfItself, PrefixKept
    <2>3. ASSUME NEW u \in Tasks, At(u, "candidate"),
                 worktree' = Append(worktree, Merged(u, task[u].artifact)), Goto(u, "t2")
          PROVE  Landed(u)' /\ task'[u].base # NoBase /\ worktree' = ItsMerge(u)'
      <3>1. worktree = task[u].base
        BY <2>3 DEF At, IInv, WorktreeIsSigned
      <3>2. Landed(u)'
        BY <2>3, WentTo DEF IInv, Landed, AfterMerge
      <3> QED
        BY <1>2, <2>3, <3>1, <3>2 DEF At, Places, ItsMerge
    <2>4. ASSUME NEW t \in Tasks
          PROVE  \/ worktree' = worktree
                 \/ worktree' = main
                 \/ \E u \in Tasks : At(u, "candidate")
                      /\ worktree' = Append(worktree, Merged(u, task[u].artifact))
                      /\ Goto(u, "t2")
      BY WhoSteps, WorktreeSteps DEF IInv
    <2>5. CASE Tasks = {}
      BY <2>1, <2>5 DEF Next, vars, commitByOthers, queueLapses
    <2> QED
      BY <2>1, <2>2, <2>3, <2>4, <2>5
  <1> QED
    BY <1>1, <1>3, <1>4, <1>5 DEF WorktreeIsSigned

------------------------------------------------------------------------------
(* The invariant of the merge: every step keeps it.                        *)
THEOREM MergeInv ==
    ASSUME IInv, [Next]_vars
    PROVE  IInv'
  <1>1. TypeOK'
    BY Typing DEF IInv
  <1>2. \A t \in Tasks : Shape(t)'
    BY ShapeKept DEF IInv
  <1>3. MainIsSigned'
    BY <1>2, MainKept
  <1>4. WorktreeIsSigned'
    BY <1>1, <1>2, <1>3, WorktreeKept
  <1> QED
    BY <1>1, <1>2, <1>3, <1>4 DEF IInv

(* It holds before anything has happened.                                  *)
LEMMA MergeInit ==
    ASSUME Init
    PROVE  IInv
  <1>1. PICK queued \in [Tasks -> BOOLEAN] :
          task = [t \in Tasks |->
                   [state |-> "REVIEWING", at |-> "reviewing", queued |-> queued[t],
                    owned |-> TRUE, base |-> NoBase, artifact |-> Gated, merge |-> <<>>,
                    t2 |-> "none", why |-> "none"]]
    BY DEF Init
  <1>2. TypeOK
    <2>1. "REVIEWING" \in TaskState /\ "reviewing" \in Places /\ Gated \in Revisions
          /\ <<>> \in Commit
      BY Kinds, Commits DEF Places, Gated, Revisions
    <2>2. task \in [Tasks -> Merging]
      BY <1>1, <2>1 DEF Merging
    <2> QED
      BY <2>1, <2>2 DEF Init, TypeOK, Free
  <1>3. \A t \in Tasks :
          /\ task[t].state = "REVIEWING"
          /\ task[t].at = "reviewing"
          /\ task[t].base = NoBase
          /\ task[t].artifact = Gated
          /\ task[t].why = "none"
    BY <1>1
  <1>4. \A t \in Tasks : Shape(t)
    BY <1>3 DEF Shape, Places, InMerge
  <1>5. MainIsSigned
    BY <1>3 DEF Init, MainIsSigned, OnlyGatedWorkOnMain, RevertsAreAnsweredFor
  <1>6. WorktreeIsSigned
    <2>1. IsPrefix(worktree, main)
      BY Commits, PrefixOfItself DEF Init
    <2> QED
      BY <1>3, <2>1 DEF WorktreeIsSigned, WorktreeHasOneWriter
  <1> QED
    BY <1>2, <1>4, <1>5, <1>6 DEF IInv

(* It holds for ever.                                                      *)
LEMMA MergeInvariant == Spec => []IInv
BY MergeInit, MergeInv, PTL DEF Spec

(* Every reachable state of the merge is well typed.                       *)
THEOREM TypeCorrect == Spec => []TypeOK
  <1>1. IInv => TypeOK
    BY DEF IInv
  <1> QED
    BY <1>1, MergeInvariant, PTL

(* What is COMPLETED was merged on the commit that was signed, with the    *)
(* tree the gates ran on, and stays on main.                               *)
THEOREM CompletedAsSignedHolds == Spec => []CompletedAsSigned
  <1>1. ASSUME IInv PROVE CompletedAsSigned
    <2> SUFFICES ASSUME NEW t \in Tasks, task[t].state = "COMPLETED"
                 PROVE  /\ task[t].merge = Append(task[t].base, Merged(t, Gated))
                        /\ IsPrefix(task[t].merge, main)
                        /\ \A i \in DOMAIN main : main[i] # Reverted(t)
      BY DEF CompletedAsSigned
    <2>1. task[t].merge = ItsMerge(t)
      BY <1>1 DEF IInv, Shape
    <2>2. IsPrefix(task[t].merge, main)
      BY <1>1 DEF IInv, MainIsSigned
    <2>3. ASSUME NEW i \in DOMAIN main, main[i] = Reverted(t) PROVE FALSE
      <3>1. main[i].kind = "revert" /\ main[i].task = t
        BY <2>3 DEF Reverted
      <3>2. Withdrawn(t)
        BY <1>1, <2>3, <3>1 DEF IInv, MainIsSigned, RevertsAreAnsweredFor
      <3> QED
        BY <3>2 DEF Withdrawn
    <2> QED
      BY <2>1, <2>2, <2>3 DEF ItsMerge
  <1> QED
    BY <1>1, MergeInvariant, PTL

(* Every merge on main is gated work on the commit its report names.       *)
THEOREM MainIsGated == Spec => []OnlyGatedWorkOnMain
  <1>1. IInv => OnlyGatedWorkOnMain
    BY DEF IInv, MainIsSigned
  <1> QED
    BY <1>1, MergeInvariant, PTL

(* A merge on main has a task at work on it, COMPLETED or ESCALATED, save   *)
(* for a lost lease or a death; a revert on main takes back a merge below   *)
(* it, once, of a task ESCALATED for the mismatch.                          *)
THEOREM MainAnswered == Spec => []MainIsAnsweredFor
  <1>1. ASSUME IInv PROVE MainIsAnsweredFor
    <2>1. ASSUME NEW i \in DOMAIN main, main[i].kind = "merge"
          PROVE  \/ AtWork(main[i].task)
                 \/ task[main[i].task].state \in {"COMPLETED", "ESCALATED"}
                 \/ task[main[i].task].why = "fenced"
      <3>1. Landed(main[i].task)
        BY <1>1, <2>1 DEF IInv, MainIsSigned
      <3> QED
        BY <3>1 DEF Landed, AtWork, AfterMerge, Places
    <2> QED
      BY <1>1, <2>1 DEF IInv, MainIsSigned, MainIsAnsweredFor, MergesAreAnsweredFor
  <1> QED
    BY <1>1, MergeInvariant, PTL

(* Whoever changes the shared worktree holds the live lease of the queue.  *)
THEOREM WorktreeExclusive == Spec => []WorktreeHasOneWriter
  <1>1. IInv => WorktreeHasOneWriter
    BY DEF IInv, WorktreeIsSigned
  <1> QED
    BY <1>1, MergeInvariant, PTL

------------------------------------------------------------------------------
(* The ledger: what the mapping sees of a step.                            *)
Signed == [t \in Tasks |-> task[t].base]
Completed == {t \in Tasks : task[t].state = "COMPLETED"}

(* A task's step signs for that task, completes it, or does neither.       *)
LEMMA LedgerEffect ==
    ASSUME IInv, IInv', NEW t \in Tasks, Step(t)
    PROVE  /\ \/ Signed' = Signed
              \/ Signed[t] = NoBase /\ Signed' = [Signed EXCEPT ![t] = main] /\ main' = main
                 /\ Completed' = Completed
           /\ \/ Completed' = Completed
              \/ Completed' = Completed \cup {t} /\ main' = main /\ Signed' = Signed
                 /\ Signed[t] # NoBase /\ main = Append(Signed[t], Merged(t, Gated))
           /\ t \notin Completed
  <1>1. \A u \in Tasks : u # t => task'[u] = task[u]
    BY Others DEF IInv
  <1>2. Effect(t) /\ Shape(t) /\ Shape(t)'
    BY StepEffect DEF IInv
  <1>3. task[t].state # "COMPLETED"
    BY <1>2, InPlaces DEF Effect
  <1>4. t \notin Completed
    BY <1>3 DEF Completed
  <1>5. CASE task'[t].base = task[t].base /\ task'[t].state # "COMPLETED"
    BY <1>1, <1>3, <1>4, <1>5 DEF Signed, Completed
  <1>6. CASE task'[t].base # task[t].base
    <2>1. task[t].base = NoBase /\ task'[t].base = main /\ main' = main
      BY <1>2, <1>6 DEF Effect
    <2>2. task'[t].state # "COMPLETED"
      <3>1. ASSUME task'[t].state = "COMPLETED" PROVE FALSE
        <4>1. task'[t].at \notin {"update", "result"}
          BY <1>2, <3>1 DEF Shape, Places, InMerge
        <4>2. task'[t].merge = task[t].merge /\ main = task[t].merge
          BY <1>2, <3>1, <4>1 DEF Effect
        <4>3. task'[t].merge = ItsMerge(t)' /\ task'[t].base # NoBase
          BY <1>2, <3>1 DEF Shape
        <4>4. Len(ItsMerge(t)') = Len(task'[t].base) + 1
          <5>1. TypeOK' /\ task'[t].base # NoBase
            BY <4>3 DEF IInv
          <5>2. task'[t].base \in Commit
            BY <5>1 DEF TypeOK, Merging
          <5>3. Merged(t, Gated) \in Entry
            BY Commits DEF Gated, Revisions
          <5> QED
            BY <5>2, <5>3 DEF ItsMerge, Commit
        <4>5. Len(main) \in Nat
          BY DEF IInv, TypeOK, Commit
        <4> QED
          BY <2>1, <4>2, <4>3, <4>4, <4>5
      <3> QED
        BY <3>1
    <2>3. Signed' = [Signed EXCEPT ![t] = main] /\ Signed[t] = NoBase
      BY <1>1, <2>1 DEF Signed
    <2>4. Completed' = Completed
      BY <1>1, <1>3, <2>2 DEF Completed
    <2> QED
      BY <1>4, <2>1, <2>3, <2>4
  <1>7. CASE task'[t].base = task[t].base /\ task'[t].state = "COMPLETED"
    <2>1. task'[t].at \notin {"update", "result"}
      BY <1>2, <1>7 DEF Shape, Places, InMerge
    <2>2. task'[t].merge = task[t].merge /\ main = task[t].merge /\ main' = main
      BY <1>2, <1>7, <2>1 DEF Effect
    <2>3. task'[t].merge = ItsMerge(t)' /\ task'[t].base # NoBase
      BY <1>2, <1>7 DEF Shape
    <2>4. main = Append(task[t].base, Merged(t, Gated))
      BY <1>7, <2>2, <2>3 DEF ItsMerge
    <2>5. Signed' = Signed /\ Signed[t] # NoBase /\ Signed[t] = task[t].base
      BY <1>1, <1>7, <2>3 DEF Signed
    <2>6. Completed' = Completed \cup {t}
      BY <1>1, <1>7 DEF Completed
    <2> QED
      BY <1>4, <2>2, <2>4, <2>5, <2>6
  <1> QED
    BY <1>5, <1>6, <1>7

(* A step that nobody's task takes changes neither.                        *)
LEMMA LedgerIdle ==
    ASSUME IInv, [Next]_vars, ~(\E t \in Tasks : Step(t))
    PROVE  Signed' = Signed /\ Completed' = Completed /\ (main' = main \/ main' = Append(main, Other))
  <1>1. ASSUME NEW t \in Tasks
        PROVE  task'[t].base = task[t].base /\ task'[t].state = task[t].state
    BY WhoSteps, Interrupted DEF IInv
  <1>2. main' = main \/ main' = Append(main, Other)
    BY DEF Next, vars, pushToBranch, loseTask, crash, commitByOthers, queueLapses
  <1> QED
    BY <1>1, <1>2 DEF Signed, Completed

(* Every step of the merge is a step of the ledger or none.                *)
LEMMA LedgerStep ==
    ASSUME IInv, IInv', [Next]_vars
    PROVE  [Ledger!LedgerNext]_<<main, Signed, Completed>>
  <1> USE DEF Ledger!Merged, Ledger!Reverted, Ledger!Other, Ledger!Gated,
              Merged, Reverted, Other, Gated
  <1>a. Signed = [t \in Tasks |-> task[t].base]
        /\ Completed = {t \in Tasks : task[t].state = "COMPLETED"}
    BY DEF Signed, Completed
  <1>1. ASSUME NEW t \in Tasks, Step(t)
        PROVE  [Ledger!LedgerNext]_<<main, Signed, Completed>>
    <2>1. CASE main' # main
      <3>1. Signed' = Signed /\ Completed' = Completed /\ t \notin Completed
        BY <1>1, <2>1, LedgerEffect
      <3>2. CASE \E u \in Tasks : task[u].base = main /\ main' = Append(main, Merged(u, 0))
        <4>1. PICK u \in Tasks : Signed[u] = main /\ main' = Append(main, Merged(u, 0))
          BY <3>2 DEF Signed
        <4>2. Ledger!Land(u)
          BY <3>1, <4>1 DEF Ledger!Land, Signed, Completed
        <4> QED
          BY <4>2 DEF Ledger!LedgerNext
      <3>3. CASE main' = Append(main, Reverted(t))
        <4>1. Ledger!Withdraw(t)
          BY <3>1, <3>3 DEF Ledger!Withdraw, Signed, Completed
        <4> QED
          BY <4>1 DEF Ledger!LedgerNext
      <3> QED
        BY <1>1, <2>1, <3>2, <3>3, Landing
    <2>2. CASE main' = main /\ Signed' # Signed
      <3>1. Ledger!Sign(t)
        BY <1>1, <2>2, LedgerEffect DEF Ledger!Sign, Signed, Completed
      <3> QED
        BY <3>1 DEF Ledger!LedgerNext
    <2>3. CASE main' = main /\ Signed' = Signed /\ Completed' # Completed
      <3>1. Ledger!Complete(t)
        BY <1>1, <2>3, LedgerEffect DEF Ledger!Complete, Signed, Completed
      <3> QED
        BY <3>1 DEF Ledger!LedgerNext
    <2> QED
      BY <2>1, <2>2, <2>3
  <1>2. CASE ~(\E t \in Tasks : Step(t))
    <2>1. CASE main' = Append(main, Other)
      <3>1. Ledger!Intervene
        BY <1>2, <2>1, LedgerIdle DEF Ledger!Intervene, Signed, Completed
      <3> QED
        BY <3>1 DEF Ledger!LedgerNext
    <2> QED
      BY <1>2, <2>1, LedgerIdle
  <1> QED
    BY <1>1, <1>2

(* The merge implements the ledger of MergeLedger.                         *)
THEOREM MergeImplementsLedger == Spec => ImplementsLedger
  <1>1. Init => Ledger!LedgerInit
    BY DEF Init, Ledger!LedgerInit
  <1>2. IInv /\ IInv' /\ [Next]_vars => [Ledger!LedgerNext]_(Ledger!ledgerVars)
    BY LedgerStep DEF Ledger!ledgerVars, Signed, Completed
  <1> QED
    BY <1>1, <1>2, MergeInvariant, PTL DEF Spec, ImplementsLedger, Ledger!LedgerSpec

=============================================================================
