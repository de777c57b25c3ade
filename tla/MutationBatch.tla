---------------------------- MODULE MutationBatch ----------------------------
(***************************************************************************)
(* The worktree transaction of core/src/executor/mutation-path.ts (the     *)
(* descriptor-safe helper that runBoundary starts) and the two users of it *)
(* in executor.ts that are algorithms of their own: the plan that turns    *)
(* the current worktree into a snapshot, and a WRITE_FILE.                 *)
(*                                                                         *)
(* Each rename of the helper is a step; another process may write into the *)
(* worktree between two of them, and the deadline may kill the helper at   *)
(* any point.  Checking one object and removing it in a rollback is one    *)
(* step here.  Parents that are swapped, short writes and failing digests  *)
(* are all the same failure of a step (Fails).                             *)
(***************************************************************************)
EXTENDS Naturals, Sequences, FiniteSets

CONSTANTS
    Paths,      \* worktree-relative paths
    Ancestors,  \* of each path: the paths that are a prefix of it
    HardDenied, \* paths under .git, .ai/runs or test/golden
    Trees,      \* worktrees to start from and snapshots to restore
    MaxForeign, \* bound: writes by another process
    MaxBatches  \* bound: batches

VARIABLES
    fs,         \* the worktree
    batch,      \* the request of the running or last batch
    txn,        \* the helper: where it stands and its undo lists
    foreign,    \* history: paths another process wrote during the batch
    nForeign, nBatches

mutationVars == <<fs, batch, txn, foreign, nForeign, nBatches>>

------------------------------------------------------------------------------
(* Worktrees *)

Kinds == {"absent", "regular", "symlink", "directory"}
Absent == [kind |-> "absent", data |-> "none"]
Directory == [kind |-> "directory", data |-> "none"]
Node == {Absent, Directory} \cup [kind : {"regular", "symlink"}, data : {"old", "new", "theirs"}]
File(d) == [kind |-> "regular", data |-> d]

Depth(p) == Cardinality(Ancestors[p])
Below(p) == {q \in Paths : p \in Ancestors[q]}
WellFormed(t) ==
    \A p \in Paths : t[p] # Absent => \A q \in Ancestors[p] : t[q] = Directory
Entries(t) == {p \in Paths : t[p].kind \in {"regular", "symlink"}}

ASSUME MutationAssumption ==
    /\ Ancestors \in [Paths -> SUBSET Paths]
    /\ \A p \in Paths :
          /\ p \notin Ancestors[p] /\ IsFiniteSet(Ancestors[p])
          /\ \A q \in Ancestors[p] : Ancestors[q] \subseteq Ancestors[p]
          /\ \A q, r \in Ancestors[p] : q = r \/ q \in Ancestors[r] \/ r \in Ancestors[q]
    /\ Trees \subseteq {t \in [Paths -> Node] : WellFormed(t)}
    /\ HardDenied \subseteq Paths
    /\ MaxForeign \in Nat /\ MaxBatches \in Nat

------------------------------------------------------------------------------
(* Operations and the plan of a restore *)

Operation == [path : Paths, expected : [kind : Kinds \cup {"regular_or_absent", "any_artifact"},
                                        data : {"none", "old", "new", "theirs"}],
              desired : Node]

frozenExpected(t, p) ==
    CASE p \notin Entries(t) -> [kind |-> "absent", data |-> "none"]
      [] t[p].kind = "regular" -> t[p]
      [] OTHER -> [kind |-> "any_artifact", data |-> "none"]

obsoleteArtifactDirectories(current, wanted) ==
    (UNION {Ancestors[p] : p \in Entries(current)}) \ (UNION {Ancestors[p] : p \in Entries(wanted)})

(* restoreArtifactSnapshot: a file in the place of a wanted directory is   *)
(* replaced by one, what is not wanted goes, directories that lose their   *)
(* last entry go too.                                                      *)
RestoreOperations(current, wanted) ==
    LET differ == {p \in Entries(current) \cup Entries(wanted) :
                     ~(p \in Entries(current) /\ p \in Entries(wanted)
                       /\ current[p] = wanted[p])}
        blockers == {p \in Entries(current) \ Entries(wanted) : Below(p) \cap Entries(wanted) # {}}
        becomes(p) == IF p \in blockers THEN Directory
                      ELSE IF p \in Entries(wanted) THEN wanted[p] ELSE Absent
    IN  {[path |-> p, expected |-> frozenExpected(current, p), desired |-> becomes(p)] : p \in differ}
        \cup {[path |-> p, expected |-> [kind |-> "directory", data |-> "none"],
               desired |-> Absent] : p \in obsoleteArtifactDirectories(current, wanted)}

WriteFileOperations(p) ==
    {[path |-> p, expected |-> [kind |-> "regular_or_absent", data |-> "none"],
      desired |-> File("new")]}

matches_expected(actual, expected) ==
    CASE expected.kind = "any_artifact" -> TRUE
      [] expected.kind = "regular_or_absent" -> actual.kind \in {"regular", "absent"}
      [] expected.kind \in {"regular", "symlink"} -> actual = expected
      [] OTHER -> actual.kind = expected.kind

------------------------------------------------------------------------------
(* The request *)

NoTransaction == [at |-> "idle", todo |-> {}, plans |-> {}, item |-> {}, installed |-> <<>>,
         backups |-> <<>>, created |-> <<>>, residue |-> FALSE, outcome |-> "none"]

MutationInit ==
    /\ fs \in Trees
    /\ batch = [kind |-> "none", before |-> fs, ops |-> {}]
    /\ txn = NoTransaction
    /\ foreign = {}
    /\ nForeign = 0
    /\ nBatches = 0

Restoring == batch.kind = "restore"    \* allowSymlinkArtifacts
PlannedDirectories(ops) == {o.path : o \in {x \in ops : x.desired = Directory}}

(* What walk_parent and inspect_final see of p before anything is made.    *)
Reachable(p, planned) == \A q \in Ancestors[p] : fs[q].kind \in {"absent", "directory"}
                                                 \/ q \in planned
Seen(p) == IF \A q \in Ancestors[p] : fs[q] = Directory THEN fs[p] ELSE Absent

CheckAccepts(kind, ops) ==
    /\ \A o1, o2 \in ops : o1.path = o2.path => o1 = o2
    /\ \A o \in ops :
          /\ o.path \notin HardDenied
          /\ Reachable(o.path, PlannedDirectories(ops))
          /\ kind = "restore" \/ Seen(o.path).kind # "symlink"
          /\ matches_expected(Seen(o.path), o.expected)

(* runBoundary(commit): an empty batch is committed at once, the check     *)
(* pass of the helper refuses before it touches anything.                  *)
runBoundary(kind, ops) ==
    /\ txn.at \in {"idle", "done"}
    /\ nBatches < MaxBatches
    /\ nBatches' = nBatches + 1
    /\ batch' = [kind |-> kind, before |-> fs, ops |-> ops]
    /\ foreign' = {}
    /\ txn' = CASE ops = {} -> [NoTransaction EXCEPT !.at = "done", !.outcome = "committed"]
                [] ~CheckAccepts(kind, ops) -> [NoTransaction EXCEPT !.at = "done", !.outcome = "rejected"]
                [] OTHER -> [NoTransaction EXCEPT !.at = "prepare", !.todo = ops]
    /\ UNCHANGED <<fs, nForeign>>

Restore == \E wanted \in Trees : runBoundary("restore", RestoreOperations(fs, wanted))
WriteFile == \E p \in Paths : runBoundary("write", WriteFileOperations(p))

------------------------------------------------------------------------------
(* The helper *)

Rank(o) == CASE o.desired = Directory -> 0 [] o.desired = Absent -> 2 [] OTHER -> 1
Before(o1, o2) ==
    \/ Rank(o1) < Rank(o2)
    \/ /\ Rank(o1) = Rank(o2)
       /\ IF Rank(o1) = 2 THEN Depth(o1.path) > Depth(o2.path)
          ELSE Depth(o1.path) < Depth(o2.path)
FirstOf(S) == {o \in S : \A other \in S : ~Before(other, o)}

Keep == UNCHANGED <<batch, foreign, nForeign, nBatches>>
Fail(changes) == txn' = [changes EXCEPT !.at = "undo installed"]

(* Directories in the order they are made in: each below the one before.   *)
Downwards(S) ==
    {s \in [1..Cardinality(S) -> S] :
        /\ \A q \in S : \E i \in DOMAIN s : s[i] = q
        /\ \A i, j \in DOMAIN s : i < j => s[i] \in Ancestors[s[j]]}

(* walk_parent makes the missing parents, inspect_final looks again; with  *)
(* planned directories the item is installed before the next is prepared.  *)
PrepareItem(o) ==
    LET missing == {q \in Ancestors[o.path] : fs[q] = Absent}
        tree == [q \in Paths |-> IF q \in missing THEN Directory ELSE fs[q]]
        base(made) == [txn EXCEPT !.todo = @ \ {o}, !.plans = @ \cup {o}, !.created = @ \o made]
    IN  /\ txn.at = "prepare"
        /\ o \in FirstOf(txn.todo)
        /\ IF ~Reachable(o.path, {})
           THEN fs' = fs /\ Fail(txn)
           ELSE /\ fs' = tree
                /\ \E made \in Downwards(missing) :
                      IF \/ ~matches_expected(fs[o.path], o.expected)
                         \/ ~Restoring /\ fs[o.path].kind = "symlink"
                      THEN Fail(base(made))
                      ELSE txn' = IF PlannedDirectories(batch.ops) # {}
                                  THEN [base(made) EXCEPT !.at = "capture", !.item = {o}]
                                  ELSE [base(made) EXCEPT !.at = IF txn.todo = {o} THEN "next" ELSE "prepare"]
        /\ Keep

NextItem(o) ==
    /\ txn.at = "next"
    /\ o \in FirstOf(txn.plans)
    /\ txn' = [txn EXCEPT !.at = "capture", !.item = {o}]
    /\ fs' = fs
    /\ Keep

(* capture_current: what is there now, with all below it, is renamed into  *)
(* the quarantine and only then compared with the expectation.             *)
capture_current(o) ==
    LET taken == {o.path} \cup {q \in Below(o.path) : fs[q] # Absent}
        held == [txn EXCEPT !.backups = Append(@, [path |-> o.path,
                                                   nodes |-> [q \in taken |-> fs[q]]])]
        empty == \A q \in Below(o.path) : fs[q] = Absent
        fits == /\ matches_expected(fs[o.path], o.expected)
                /\ Restoring \/ fs[o.path].kind # "symlink"
                /\ o.expected.kind = "directory" => empty
    IN  /\ txn.at = "capture"
        /\ o \in txn.item
        /\ IF fs[o.path] = Absent
           THEN /\ fs' = fs
                /\ IF matches_expected(Absent, o.expected)
                   THEN txn' = [txn EXCEPT !.at = "place"] ELSE Fail(txn)
           ELSE /\ fs' = [q \in Paths |-> IF q \in taken THEN Absent ELSE fs[q]]
                /\ IF fits THEN txn' = [held EXCEPT !.at = "place"] ELSE Fail(held)
        /\ Keep

(* defect: what is installed is not noted for the rollback *)
install_item_unnoted(o) ==
    LET rest == txn.plans \ {o}
        next == CASE txn.todo # {} -> "prepare"
                  [] txn.todo = {} /\ rest # {} /\ PlannedDirectories(batch.ops) = {} -> "next"
                  [] OTHER -> "commit"
        placed == [txn EXCEPT !.at = next, !.plans = rest, !.item = {},
                              !.installed = @]
    IN  /\ txn.at = "place"
        /\ o \in txn.item
        /\ IF fs[o.path] # Absent \/ \E q \in Ancestors[o.path] : fs[q] # Directory
           THEN fs' = fs /\ Fail(txn)
           ELSE fs' = [fs EXCEPT ![o.path] = o.desired] /\ txn' = placed
        /\ Keep

(* install_item: the prepared object is renamed to its name, never over an *)
(* object, and looked at again.                                            *)
install_item(o) ==
    LET rest == txn.plans \ {o}
        next == CASE txn.todo # {} -> "prepare"
                  [] txn.todo = {} /\ rest # {} /\ PlannedDirectories(batch.ops) = {} -> "next"
                  [] OTHER -> "commit"
        placed == [txn EXCEPT !.at = next, !.plans = rest, !.item = {},
                              !.installed = IF o.desired = Absent THEN @
                                            ELSE Append(@, o)]
    IN  /\ txn.at = "place"
        /\ o \in txn.item
        /\ IF fs[o.path] # Absent \/ \E q \in Ancestors[o.path] : fs[q] # Directory
           THEN fs' = fs /\ Fail(txn)
           ELSE fs' = [fs EXCEPT ![o.path] = o.desired] /\ txn' = placed
        /\ Keep

(* Everything is in place: the quarantine is removed.                      *)
Committed ==
    /\ txn.at = "commit"
    /\ txn' = [NoTransaction EXCEPT !.at = "done", !.outcome = "committed"]
    /\ fs' = fs
    /\ Keep

Fails ==
    /\ txn.at \in {"prepare", "next", "capture", "place", "commit"}
    /\ Fail(txn)
    /\ fs' = fs
    /\ Keep

------------------------------------------------------------------------------
(* The rollback, newest first; what changed meanwhile stays and is residue *)

PopLast(s) == SubSeq(s, 1, Len(s) - 1)

UndoInstalled ==
    LET o == txn.installed[Len(txn.installed)]
        ours == fs[o.path] = o.desired /\ \A q \in Below(o.path) : fs[q] = Absent
    IN  /\ txn.at = "undo installed"
        /\ IF txn.installed = <<>>
           THEN txn' = [txn EXCEPT !.at = "undo backups"] /\ fs' = fs
           ELSE /\ fs' = IF ours THEN [fs EXCEPT ![o.path] = Absent] ELSE fs
                /\ txn' = [txn EXCEPT !.installed = PopLast(@),
                                      !.residue = @ \/ ~(ours \/ fs[o.path] = Absent)]
        /\ Keep

UndoBackup ==
    LET b == txn.backups[Len(txn.backups)]
        free == fs[b.path] = Absent /\ \A q \in Ancestors[b.path] : fs[q] = Directory
    IN  /\ txn.at = "undo backups"
        /\ IF txn.backups = <<>>
           THEN txn' = [txn EXCEPT !.at = "undo created"] /\ fs' = fs
           ELSE /\ fs' = IF free THEN [q \in Paths |-> IF q \in DOMAIN b.nodes THEN b.nodes[q]
                                                       ELSE fs[q]]
                         ELSE fs
                /\ txn' = [txn EXCEPT !.backups = PopLast(@), !.residue = @ \/ ~free]
        /\ Keep

(* defect: a directory is removed with what others put there *)
UndoCreatedWhole ==
    LET d == txn.created[Len(txn.created)]
        empty == fs[d] = Directory
    IN  /\ txn.at = "undo created"
        /\ IF txn.created = <<>>
           THEN /\ txn' = [txn EXCEPT !.at = "done",
                                      !.outcome = IF txn.residue THEN "residue" ELSE "rejected"]
                /\ fs' = fs
           ELSE /\ fs' = IF empty THEN [fs EXCEPT ![d] = Absent] ELSE fs
                /\ txn' = [txn EXCEPT !.created = PopLast(@),
                                      !.residue = @ \/ ~(empty \/ fs[d] = Absent)]
        /\ Keep

UndoCreated ==
    LET d == txn.created[Len(txn.created)]
        empty == fs[d] = Directory /\ \A q \in Below(d) : fs[q] = Absent
    IN  /\ txn.at = "undo created"
        /\ IF txn.created = <<>>
           THEN /\ txn' = [txn EXCEPT !.at = "done",
                                      !.outcome = IF txn.residue THEN "residue" ELSE "rejected"]
                /\ fs' = fs
           ELSE /\ fs' = IF empty THEN [fs EXCEPT ![d] = Absent] ELSE fs
                /\ txn' = [txn EXCEPT !.created = PopLast(@),
                                      !.residue = @ \/ ~(empty \/ fs[d] = Absent)]
        /\ Keep

(* The deadline or a cancellation kills the helper; the quarantine stays.  *)
Killed ==
    /\ txn.at \notin {"idle", "done"}
    /\ txn' = [txn EXCEPT !.at = "done", !.outcome = "timed_out"]
    /\ fs' = fs
    /\ Keep

(* Another process writes or removes a file.                               *)
ForeignWrite(p) ==
    /\ txn.at \notin {"idle", "done"}
    /\ nForeign < MaxForeign
    /\ nForeign' = nForeign + 1
    /\ \A q \in Ancestors[p] : fs[q] = Directory
    /\ \/ fs[p].kind \in {"absent", "regular"} /\ fs' = [fs EXCEPT ![p] = File("theirs")]
       \/ fs[p].kind = "regular" /\ fs' = [fs EXCEPT ![p] = Absent]
    /\ foreign' = foreign \cup {p}
    /\ UNCHANGED <<batch, txn, nBatches>>

MutationNext ==
    \/ Restore
    \/ WriteFile
    \/ \E o \in batch.ops : PrepareItem(o) \/ NextItem(o) \/ capture_current(o) \/ install_item(o)
    \/ Committed
    \/ Fails
    \/ UndoInstalled
    \/ UndoBackup
    \/ UndoCreated
    \/ Killed
    \/ \E p \in Paths : ForeignWrite(p)

MutationSpec == MutationInit /\ [][MutationNext]_mutationVars

------------------------------------------------------------------------------
(* Properties *)

MutationTypeOK ==
    /\ fs \in [Paths -> Node] /\ WellFormed(fs)
    /\ batch.before \in [Paths -> Node] /\ batch.ops \subseteq Operation
    /\ txn.outcome \in {"none", "committed", "rejected", "residue", "timed_out"}
    /\ txn.todo \cup txn.plans \cup txn.item \subseteq batch.ops
    /\ foreign \subseteq Paths

Result(t, ops) ==
    [p \in Paths |-> IF \E o \in ops : o.path = p
                     THEN (CHOOSE o \in ops : o.path = p).desired ELSE t[p]]

(* All or nothing: a batch that nobody else disturbs leaves every path of  *)
(* it as desired when it commits, and the worktree as it was when it is    *)
(* refused; only the parents that a committed write needed are new.        *)
AllOrNothing ==
    txn.at = "done" /\ foreign = {} =>
        /\ txn.outcome = "committed" =>
              LET wanted == Result(batch.before, batch.ops)
              IN  \A p \in Paths : \/ fs[p] = wanted[p]
                                   \/ /\ wanted[p] = Absent /\ fs[p] = Directory
                                      /\ \E o \in batch.ops : p \in Ancestors[o.path]
        /\ txn.outcome = "rejected" => fs = batch.before
=============================================================================
