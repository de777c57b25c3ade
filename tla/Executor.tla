------------------------------ MODULE Executor ------------------------------
(***************************************************************************)
(* The deterministic executor of core/src/executor/executor.ts: snapshot,  *)
(* ACTION_INTENT, apply, ACTION_APPLIED, and recoverWorktree, which every  *)
(* mutating action runs first.  Several processes may hold the worktree:   *)
(* one owns the lease, a replaced one does not know it yet.                *)
(*                                                                         *)
(* The worktree is abstracted to how often the effect of each action is in *)
(* it, plus what no action of this run put there; the artifact identity    *)
(* (resultHash) and the snapshot manifest are that value.  Each await of   *)
(* the code is a boundary between two actions of this module.              *)
(* ACTION_REJECTED events that carry neither intentSeq nor                 *)
(* invalidatesAppliedSeq are read by nobody here and are left out.         *)
(***************************************************************************)
EXTENDS Naturals, Sequences, FiniteSets

CONSTANTS
    Procs,      \* processes that run the task, one after or beside the other
    Ids,        \* action ids, each with one proposed action
    Shape,      \* Ids -> the fields of the action that validate() looks at
    Denied,     \* ids that the policy or the preparation refuses
    Flaky,      \* RUN_COMMAND ids whose output differs from run to run
    Blob,       \* the resultHash of a READ_FILE (a blob reference)
    MaxEvents,  \* bound: events in the log
    MaxFaults   \* bound: crashes, failures, foreign writes, changes of owner

VARIABLES
    events,     \* the ACTION_* events of this run and task; seq is the index
    worktree,   \* the authoritative artifacts
    owner,      \* the process whose generation passes the fence
    proc,       \* process -> where its execute() stands
    trust,      \* history: whether the worktree should agree with the log
    faults

executorVars == <<events, worktree, owner, proc, trust, faults>>

------------------------------------------------------------------------------
(* The action at the boundary *)

ActionTypes == {"WRITE_FILE", "APPLY_PATCH", "RUN_COMMAND", "READ_FILE", "REQUEST_TOOL", "OTHER"}
Field == {"good", "bad", "absent"}
ActionShape == [object : BOOLEAN, actionId : Field, type : ActionTypes, path : Field,
                ref : Field, cmd : Field, network : {"none", "allowlist", "bad"},
                cwd : Field, timeoutMs : Field, name : Field]

validate(a) ==
    /\ Shape[a].object
    /\ Shape[a].actionId = "good"
    /\ CASE Shape[a].type = "WRITE_FILE" -> Shape[a].path = "good" /\ Shape[a].ref = "good"
         [] Shape[a].type = "APPLY_PATCH" -> Shape[a].ref = "good"
         [] Shape[a].type = "RUN_COMMAND" ->
              /\ Shape[a].cmd = "good"
              /\ Shape[a].network # "bad"
              /\ "bad" \notin {Shape[a].cwd, Shape[a].timeoutMs}
         [] Shape[a].type = "READ_FILE" -> Shape[a].path = "good"
         [] Shape[a].type = "REQUEST_TOOL" -> Shape[a].name = "good"
         [] OTHER -> FALSE

Mutating(a) == Shape[a].type \in {"WRITE_FILE", "APPLY_PATCH", "RUN_COMMAND"}
Foreign == "foreign"
Content == Ids \cup {Foreign}
EmptyTree == [c \in Content |-> 0]
Tree == [Content -> Nat]

(* performApply on the tree t: a write puts its content there whatever was *)
(* there, a patch expects the content it was made for, a command may add   *)
(* to what it finds.  No element: MutationPathError or PatchRejected.      *)
performApply(a, t) ==
    CASE Shape[a].type = "WRITE_FILE" -> {[t EXCEPT ![a] = 1]}
      [] Shape[a].type = "APPLY_PATCH" -> {[t EXCEPT ![a] = 1] : x \in {0} \cap {t[a]}}
      [] OTHER -> {[t EXCEPT ![a] = @ + n] : n \in IF a \in Flaky THEN {1, 2} ELSE {1}}

ASSUME ExecutorAssumption ==
    /\ Shape \in [Ids -> ActionShape] /\ Ids # {}
    /\ Foreign \notin Ids
    /\ Denied \subseteq Ids
    /\ Flaky \subseteq Ids
    /\ Blob \notin Tree
    /\ MaxEvents \in Nat /\ MaxFaults \in Nat

------------------------------------------------------------------------------
(* What recovery reads from the log *)

Event == [type : {"ACTION_INTENT", "ACTION_APPLIED", "ACTION_REJECTED"}, actionId : Ids,
          intentSeq : Nat, tree : Tree \cup {Blob}, duplicate : BOOLEAN, invalidates : Nat]

appended(type, a, i, t, dup, inv) ==
    [type |-> type, actionId |-> a, intentSeq |-> i, tree |-> t, duplicate |-> dup,
     invalidates |-> inv]

Intents(l) == {i \in DOMAIN l : l[i].type = "ACTION_INTENT"}

Terminals(l, i) ==
    {j \in DOMAIN l : /\ j > i
                      /\ l[j].type \in {"ACTION_APPLIED", "ACTION_REJECTED"}
                      /\ l[j].actionId = l[i].actionId
                      /\ l[j].intentSeq = i}

danglingMutatingIntents(l) == {i \in Intents(l) : Terminals(l, i) = {}}

activeAppliedEvents(l) ==
    {i \in DOMAIN l :
        /\ l[i].type = "ACTION_APPLIED"
        /\ ~l[i].duplicate
        /\ \A j \in DOMAIN l : ~ (/\ j > i
                                  /\ l[j].type = "ACTION_REJECTED"
                                  /\ l[j].actionId = l[i].actionId
                                  /\ l[j].invalidates = i)}

AppliedOrder(l, i) == IF l[i].intentSeq # 0 THEN l[i].intentSeq ELSE i

LastOf(l, S) ==
    CHOOSE i \in S : \A j \in S : \/ AppliedOrder(l, j) < AppliedOrder(l, i)
                                  \/ AppliedOrder(l, j) = AppliedOrder(l, i) /\ j <= i

(* defect: an applied action id is not recognised when it is proposed again *)
alreadyAppliedNever(l, a) == FALSE

alreadyApplied(l, a) == \E i \in activeAppliedEvents(l) : l[i].actionId = a

Identified(l) == {i \in activeAppliedEvents(l) : l[i].tree # Blob}

EarliestDangling(l) ==
    CHOOSE i \in danglingMutatingIntents(l) : \A j \in danglingMutatingIntents(l) : i <= j

(* The accepted generation before the earliest dangling intent, else that  *)
(* intent itself.                                                          *)
RecoveryBoundary(l) ==
    LET d == EarliestDangling(l)
        preceding == {i \in Identified(l) : l[i].intentSeq # 0 /\ l[i].intentSeq < d}
    IN  IF preceding = {} THEN d ELSE l[LastOf(l, preceding)].intentSeq

(* The generations from the boundary on, each with its first terminal (0:  *)
(* none) as the log shows them when the plan is made.                      *)
FirstTerminal(l, i) ==
    IF Terminals(l, i) = {} THEN 0
    ELSE CHOOSE j \in Terminals(l, i) : \A k \in Terminals(l, i) : j <= k
SuffixFrom(l, b) ==
    {[intent |-> i, terminal |-> FirstTerminal(l, i)] : i \in {j \in Intents(l) : j >= b}}

(* The generation that comes first in the log. *)
Earliest(S) == CHOOSE g \in S : \A h \in S : g.intent <= h.intent

AcceptedTree(l) == IF Identified(l) = {} THEN EmptyTree ELSE l[LastOf(l, Identified(l))].tree

------------------------------------------------------------------------------
(* One execute() *)

Phases == {"idle", "admit", "restore", "replay", "recheck", "conclude", "closing",
           "invalidate", "gate", "snapshot", "intent", "apply", "capture", "record",
           "rollback", "undone"}
Idle == [at |-> "idle", id |-> CHOOSE a \in Ids : TRUE, mismatch |-> FALSE, tree |-> EmptyTree,
         hash |-> EmptyTree, seq |-> 0, suffix |-> {}, todo |-> {}, pending |-> <<>>, replayed |-> FALSE]

ExecutorInit ==
    /\ events = <<>>
    /\ worktree = EmptyTree
    /\ owner \in Procs
    /\ proc = [p \in Procs |-> Idle]
    /\ trust = "settled"
    /\ faults = 0

At(p, phase) == proc[p].at = phase
Goto(p, phase) == proc' = [proc EXCEPT ![p].at = phase]
Return(p) == proc' = [proc EXCEPT ![p] = Idle]
Fault == faults < MaxFaults /\ faults' = faults + 1
NoFault == UNCHANGED faults
Quietly == UNCHANGED owner
KeepLog == UNCHANGED events
KeepTree == UNCHANGED <<worktree, trust>>

(* A write by someone else is found by the next admission when the owner   *)
(* is not past its own and something was accepted to compare with          *)
(* ("suspect"); else nothing finds it ("lost").  The other two ways to     *)
(* lose track are a terminal from a replaced owner, which nothing fences,  *)
(* and the replay of a generation that was invalidated.  "halved": see     *)
(* HalfInvalidated.                                                        *)
Beyond == trust \in {"lost", "halved"}
Worse == IF Beyond \/ proc[owner].at \notin {"idle", "admit"} THEN "lost" ELSE "suspect"
Unfenced(p) == trust' = IF p = owner THEN trust ELSE "lost"
Known(p) == trust' = IF Beyond \/ p # owner THEN trust ELSE "settled"
Doubted(p) == trust' = IF Beyond \/ p # owner THEN trust ELSE "suspect"
Unnoticed(p) == trust' = IF trust = "suspect" /\ p = owner THEN "lost" ELSE trust

Log(e) == Len(events) < MaxEvents /\ events' = Append(events, e)

Overwrite(p, t) ==
    /\ worktree' = t
    /\ trust' = IF p # owner /\ t # worktree THEN Worse ELSE trust

(* executeOnce: an action that is not an object or does not validate is    *)
(* rejected; the loop asked requireOwnership just before.                  *)
executeOnce(p, a) ==
    /\ At(p, "idle")
    /\ owner = p
    /\ Len(events) < MaxEvents
    /\ validate(a)
    /\ proc' = [proc EXCEPT ![p].at = IF Mutating(a) THEN "admit" ELSE "gate", ![p].id = a]
    /\ KeepLog /\ KeepTree /\ Quietly /\ NoFault

(* recoverWorktree up to its first write: nothing dangles and the identity *)
(* of the last accepted generation is that of the worktree, or a boundary  *)
(* is chosen and the suffix validated.                                     *)
PlanRecovery(p) ==
    LET dangling == danglingMutatingIntents(events) # {}
        known == Identified(events) # {}
        last == LastOf(events, Identified(events))
        boundary == IF dangling THEN RecoveryBoundary(events) ELSE events[last].intentSeq
        suffix == SuffixFrom(events, boundary)
        ambiguous == \E g \in suffix : Cardinality(Terminals(events, g.intent)) > 1
        planned == proc' = [proc EXCEPT ![p].at = IF ambiguous THEN "closing" ELSE "restore",
                                        ![p].mismatch = ~dangling, ![p].suffix = suffix,
                                        ![p].todo = suffix]
    IN  /\ At(p, "admit")
        /\ KeepLog /\ Quietly
        /\ UNCHANGED worktree
        /\ \/ /\ ~dangling /\ ~known
              /\ Goto(p, "gate") /\ Unnoticed(p) /\ NoFault
           \/ /\ ~dangling /\ known /\ worktree = events[last].tree
              /\ \/ Goto(p, "gate") /\ Known(p) /\ NoFault
                 \* the capture fails: ArtifactIdentityError, or the deadline
                 \/ planned /\ Doubted(p) /\ Fault
                 \/ Return(p) /\ UNCHANGED trust /\ Fault
           \/ /\ dangling \/ (known /\ worktree # events[last].tree)
              /\ planned /\ NoFault
              /\ IF dangling THEN UNCHANGED trust ELSE Doubted(p)

(* reconcileAfterFailure to the boundary's snapshot, when its manifest and *)
(* its blobs are sound.                                                    *)
restoreArtifactSnapshot(p) ==
    /\ At(p, "restore")
    /\ KeepLog /\ Quietly
    /\ \/ /\ Overwrite(p, events[Earliest(proc[p].suffix).intent].tree)
          /\ Goto(p, "replay")
          /\ NoFault
       \/ Goto(p, "closing") /\ KeepTree /\ Fault

(* The replay loop: a rejected generation is skipped, an accepted or       *)
(* dangling one is applied again.                                          *)
Current(p) == Earliest(proc[p].todo)
Accepted(p) == Current(p).terminal # 0 /\ events[Current(p).terminal].type = "ACTION_APPLIED"
Rejected(p) == Current(p).terminal # 0 /\ events[Current(p).terminal].type = "ACTION_REJECTED"

SkipRejected(p) ==
    /\ At(p, "replay")
    /\ proc[p].todo # {}
    /\ Rejected(p)
    /\ proc' = [proc EXCEPT ![p].todo = @ \ {Current(p)}]
    /\ KeepLog /\ KeepTree /\ Quietly /\ NoFault

ReplayGeneration(p) ==
    LET a == events[Current(p).intent].actionId
        effects == performApply(a, worktree)
        invalidated == Accepted(p) /\ Current(p).terminal \notin activeAppliedEvents(events)
    IN  /\ At(p, "replay")
        /\ proc[p].todo # {}
        /\ ~Rejected(p)
        /\ KeepLog /\ Quietly
        /\ \/ /\ \E t \in effects :
                   IF invalidated THEN worktree' = t /\ trust' = "lost"
                   ELSE Overwrite(p, t)
              /\ Goto(p, "recheck")
              /\ NoFault
           \* rejected: a patch before it wrote, else back to this snapshot
           \/ /\ IF effects = {} THEN KeepTree /\ NoFault
                 ELSE Overwrite(p, events[Current(p).intent].tree) /\ Fault
              /\ IF Accepted(p) THEN Goto(p, "closing")
                 ELSE proc' = [proc EXCEPT ![p].todo = @ \ {Current(p)},
                                           ![p].pending = Append(@, [intent |-> Current(p).intent,
                                                                     tree |-> Blob])]
           \* the deadline, or the way back fails
           \/ Goto(p, "closing") /\ KeepTree /\ Fault

(* The identity after a replayed generation against the recorded one.      *)
Agrees(p) == Accepted(p) => events[Current(p).terminal].tree = worktree

RecheckGeneration(p) ==
    /\ At(p, "recheck")
    /\ KeepLog /\ KeepTree /\ Quietly
    /\ \/ /\ Agrees(p)
          /\ proc' = [proc EXCEPT
                        ![p].at = "replay", ![p].todo = @ \ {Current(p)}, ![p].hash = worktree,
                        ![p].replayed = TRUE,
                        ![p].pending = IF Accepted(p) THEN @
                                       ELSE Append(@, [intent |-> Current(p).intent,
                                                       tree |-> worktree])]
          /\ NoFault
       \/ /\ ~Agrees(p)
          /\ Goto(p, "closing")
          /\ NoFault
       \/ Goto(p, "closing") /\ Fault

(* The identity of the whole replayed suffix before its terminals go out.  *)
FinalIdentity(p) ==
    /\ At(p, "replay")
    /\ proc[p].todo = {}
    /\ Goto(p, IF proc[p].replayed /\ worktree # proc[p].hash THEN "closing" ELSE "conclude")
    /\ KeepLog /\ KeepTree /\ Quietly /\ NoFault

(* The pending terminals: ACTION_APPLIED under the fence, ACTION_REJECTED  *)
(* without it.  A lost fence sends the recovery to its catch.              *)
ConcludeRecovery(p) ==
    LET next == Head(proc[p].pending)
        a == events[next.intent].actionId
        type == IF next.tree = Blob THEN "ACTION_REJECTED" ELSE "ACTION_APPLIED"
    IN  /\ At(p, "conclude")
        /\ Quietly /\ NoFault
        /\ UNCHANGED worktree
        /\ \/ /\ proc[p].pending # <<>>
              /\ type = "ACTION_REJECTED" \/ owner = p
              /\ Log(appended(type, a, next.intent, next.tree, FALSE, 0))
              /\ proc' = [proc EXCEPT ![p].pending = Tail(@)]
              /\ Unfenced(p)
           \/ /\ proc[p].pending # <<>>
              /\ type = "ACTION_APPLIED" /\ owner # p
              /\ Goto(p, "closing")
              /\ KeepLog /\ UNCHANGED trust
           \/ /\ proc[p].pending = <<>>
              /\ IF danglingMutatingIntents(events) = {} THEN Goto(p, "gate") ELSE Return(p)
              /\ Known(p)
              /\ KeepLog

(* The catch of the recovery: back to the boundary, then every accepted or *)
(* dangling generation of the suffix is rejected, none of it fenced.  When *)
(* that rollback fails too, the error leaves recoverWorktree.              *)
FailClosed(p) ==
    /\ At(p, "closing")
    /\ KeepLog /\ Quietly
    /\ \/ /\ Overwrite(p, events[Earliest(proc[p].suffix).intent].tree)
          /\ proc' = [proc EXCEPT ![p].at = "invalidate", ![p].todo = proc[p].suffix]
          /\ NoFault
       \/ Return(p) /\ KeepTree /\ Fault

InvalidateSuffix(p) ==
    LET a == events[Current(p).intent].actionId
    IN  /\ At(p, "invalidate")
        /\ UNCHANGED worktree
        /\ Quietly /\ NoFault
        /\ \/ /\ proc[p].todo = {}
              /\ Return(p)
              /\ Known(p)
              /\ KeepLog
           \/ /\ proc[p].todo # {}
              /\ Unfenced(p)
              /\ proc' = [proc EXCEPT ![p].todo = @ \ {Current(p)}]
              /\ IF Accepted(p)
                 THEN Log(appended("ACTION_REJECTED", a, 0, Blob, FALSE, Current(p).terminal))
                 ELSE IF Rejected(p) THEN KeepLog
                 ELSE Log(appended("ACTION_REJECTED", a, Current(p).intent, Blob, FALSE, 0))

(* After the admission: a duplicate is skipped (refused when the recovery  *)
(* just found its artifact stale), a tool request goes to its handler, a   *)
(* read is recorded under its blob, the policy may refuse.                 *)
AfterAdmission(p) ==
    LET a == proc[p].id
        duplicate == alreadyApplied(events, a)
        granted == ~duplicate /\ a \notin Denied
        recorded == \/ duplicate /\ ~proc[p].mismatch
                    \/ granted /\ Shape[a].type = "READ_FILE"
        mutates == granted /\ Mutating(a) /\ Shape[a].network # "allowlist"
    IN  /\ At(p, "gate")
        /\ KeepTree /\ Quietly /\ NoFault
        /\ \/ /\ recorded /\ owner = p
              /\ Log(appended("ACTION_APPLIED", a, 0, Blob, duplicate, 0))
              /\ Return(p)
           \/ mutates /\ Goto(p, "snapshot") /\ KeepLog
           \/ ~mutates /\ ~(recorded /\ owner = p) /\ Return(p) /\ KeepLog

createActionSnapshot(p) ==
    /\ At(p, "snapshot")
    /\ KeepLog /\ KeepTree /\ Quietly
    /\ \/ proc' = [proc EXCEPT ![p].at = "intent", ![p].tree = worktree] /\ NoFault
       \/ Return(p) /\ Fault

AppendIntent(p) ==
    /\ At(p, "intent")
    /\ KeepTree /\ Quietly /\ NoFault
    /\ \/ /\ owner = p
          /\ Log(appended("ACTION_INTENT", proc[p].id, 0, proc[p].tree, FALSE, 0))
          /\ proc' = [proc EXCEPT ![p].at = "apply", ![p].seq = Len(events) + 1]
       \/ owner # p /\ Return(p) /\ KeepLog

Apply(p) ==
    LET effects == performApply(proc[p].id, worktree)
    IN  /\ At(p, "apply")
        /\ KeepLog /\ Quietly
        /\ \/ /\ \E t \in effects : Overwrite(p, t)
              /\ Goto(p, "capture")
              /\ NoFault
           \/ /\ Goto(p, "rollback")
              /\ KeepTree
              /\ IF effects = {} THEN NoFault ELSE Fault

captureArtifactState(p) ==
    /\ At(p, "capture")
    /\ KeepLog /\ KeepTree /\ Quietly
    /\ \/ /\ proc' = [proc EXCEPT ![p].at = "record", ![p].hash = worktree]
          /\ NoFault
       \/ Goto(p, "rollback") /\ Fault

AppendApplied(p) ==
    /\ At(p, "record")
    /\ KeepTree /\ Quietly /\ NoFault
    /\ \/ /\ owner = p
          /\ Log(appended("ACTION_APPLIED", proc[p].id, proc[p].seq, proc[p].hash, FALSE, 0))
          /\ Return(p)
       \/ owner # p /\ Goto(p, "rollback") /\ KeepLog

(* defect: a failed apply is reported without putting the snapshot back *)
RollbackForgotten(p) ==
    /\ At(p, "rollback")
    /\ KeepLog /\ Quietly
    /\ \/ KeepTree /\ Goto(p, "undone") /\ NoFault
       \/ Return(p) /\ KeepTree /\ Fault

(* reconcileAfterFailure to the action's own snapshot, whoever owns the    *)
(* lease by now; when it fails the error leaves execute() and the intent   *)
(* stays without a terminal.                                               *)
Rollback(p) ==
    /\ At(p, "rollback")
    /\ KeepLog /\ Quietly
    /\ \/ Overwrite(p, proc[p].tree) /\ Goto(p, "undone") /\ NoFault
       \/ Return(p) /\ KeepTree /\ Fault

RejectUndone(p) ==
    /\ At(p, "undone")
    /\ Log(appended("ACTION_REJECTED", proc[p].id, proc[p].seq, Blob, FALSE, 0))
    /\ Return(p)
    /\ Unfenced(p)
    /\ UNCHANGED worktree
    /\ Quietly /\ NoFault

------------------------------------------------------------------------------
(* The surroundings *)

(* The rejections of a failed recovery go out one by one.  Between two of  *)
(* them an accepted generation is withdrawn while a later one still        *)
(* dangles: the next recovery starts from the snapshot of the latter,      *)
(* which holds what the former did.                                        *)
HalfInvalidated(p) == At(p, "invalidate") /\ proc[p].todo \notin {{}, proc[p].suffix}

CrashInjected(p) ==
    /\ ~At(p, "idle")
    /\ Return(p)
    /\ Fault
    /\ trust' = IF HalfInvalidated(p) /\ trust # "lost" THEN "halved" ELSE trust
    /\ UNCHANGED worktree
    /\ KeepLog /\ Quietly

(* A later generation of the lease; a process takes it between actions.    *)
TakeLease(p) ==
    /\ owner # p
    /\ At(p, "idle")
    /\ owner' = p
    /\ Fault
    /\ KeepLog /\ KeepTree /\ UNCHANGED proc

WriteByOthers ==
    /\ worktree[Foreign] = 0
    /\ worktree' = [worktree EXCEPT ![Foreign] = 1]
    /\ trust' = Worse
    /\ Fault
    /\ KeepLog /\ UNCHANGED proc /\ Quietly

ExecutorNext ==
    \/ \E p \in Procs :
          \/ \E a \in Ids : executeOnce(p, a)
          \/ PlanRecovery(p)
          \/ restoreArtifactSnapshot(p)
          \/ SkipRejected(p)
          \/ ReplayGeneration(p)
          \/ RecheckGeneration(p)
          \/ FinalIdentity(p)
          \/ ConcludeRecovery(p)
          \/ FailClosed(p)
          \/ InvalidateSuffix(p)
          \/ AfterAdmission(p)
          \/ createActionSnapshot(p)
          \/ AppendIntent(p)
          \/ Apply(p)
          \/ captureArtifactState(p)
          \/ AppendApplied(p)
          \/ Rollback(p)
          \/ RejectUndone(p)
          \/ CrashInjected(p)
          \/ TakeLease(p)
    \/ WriteByOthers

ExecutorSpec == ExecutorInit /\ [][ExecutorNext]_executorVars

------------------------------------------------------------------------------
(* Properties *)

Step == [intent : Nat, terminal : Nat]
ExecutorTypeOK ==
    /\ events \in Seq(Event)
    /\ worktree \in Tree
    /\ owner \in Procs
    /\ \A p \in Procs :
          /\ proc[p].at \in Phases
          /\ proc[p].id \in Ids
          /\ proc[p].tree \in Tree /\ proc[p].hash \in Tree
          /\ proc[p].todo \subseteq proc[p].suffix /\ proc[p].suffix \subseteq Step
    /\ trust \in {"settled", "suspect", "halved", "lost"}
    /\ faults \in 0..MaxFaults

AtRest == (\A p \in Procs : At(p, "idle")) /\ danglingMutatingIntents(events) = {}
Settled == AtRest /\ trust = "settled"

(* When no action is under way and the executor did not lose track, the    *)
(* worktree holds of each action exactly what the last accepted identity   *)
(* says: a crash, a rollback, a failed replay or a takeover leaves nothing *)
(* behind.                                                                 *)
SettledTree ==
    Settled => \A a \in Ids : worktree[a] = AcceptedTree(events)[a]

(* The accepted generations as the ledger of ActionLedger.  The executor   *)
(* is on track until something happens that no admission finds out, or a   *)
(* replaced owner is between two of the rejections that nothing fences.    *)
OnTrack == ~Beyond /\ \A q \in Procs \ {owner} : ~HalfInvalidated(q)
EntryOf(e) == [gen |-> e.intentSeq, action |-> e.actionId, tree |-> e.tree]
AcceptedLedger(l) == {EntryOf(l[i]) : i \in Identified(l)}
RecordedReads(l) == {l[i].actionId : i \in activeAppliedEvents(l) \ Identified(l)}

Actions == INSTANCE ActionLedger WITH
    Effects <- performApply,
    ledger <- AcceptedLedger(events),
    reads <- RecordedReads(events),
    tracked <- OnTrack,
    rest <- Settled

(* The executor implements the ledger: an action is accepted once, on top  *)
(* of all that was accepted before and on exactly the tree that left; only *)
(* the newest is ever withdrawn; at rest the worktree is the newest's.     *)
ImplementsActionLedger == Actions!LedgerSpec

(* Exactly once: no settled worktree holds the effect of a deterministic   *)
(* action twice, however often it was run again after a crash.             *)
ExactlyOnce ==
    Settled => \A a \in Ids \ Flaky : worktree[a] <= 1

(* "Exactly-once semantics ... sound even for non-idempotent RUN_COMMAND"   *)
(* (executor.ts:1-4): the same when a recovery died between two of its     *)
(* rejections.  It does not hold: the withdrawn command stays in the       *)
(* worktree, is no longer known as applied and runs again.                 *)
OnceDespiteCrashes ==
    AtRest /\ trust \in {"settled", "halved"} => \A a \in Ids \ Flaky : worktree[a] <= 1
=============================================================================
