----------------------------- MODULE EffectProofs -----------------------------
(* Proofs about CommandExecutor for any files, roots, policies and writes,     *)
(* about MutationBatch for any paths, worktrees and batches and about          *)
(* CommandRunner for any descendants and limits, and the types of the four     *)
(* components of the execution side together.                                  *)
(*                                                                             *)
(* FrozenIsAMoment is about a tree that was read one path after the other      *)
(* while others wrote.  What makes it true is that a read is repeated: a path  *)
(* that reads the same twice was like that when the second reading began       *)
(* (Moments), because every write has a content of its own, so that a path     *)
(* which changed in between never reads as before (ContentsAreSeen: nothing    *)
(* read is newer than the last write).  While the second reading goes on, that *)
(* holds of the part already read (SecondReads), and of a snapshot, which is   *)
(* listed and read twice from the start, in full (StrictReads).                *)
(* OnlyAllowedEffects needs that the comparison of the two trees, made before  *)
(* the input is read again, is still true when the change is promoted          *)
(* (CheckedChanges), and that an ignored path outside the roots is not read at *)
(* all (IgnoredAreRoots).                                                      *)
(*                                                                             *)
(* AllOrNothing is about a batch that nobody disturbs.  While the helper goes  *)
(* forward, what is through is as desired and only that was taken away         *)
(* (InPlace), and at every step undoing the three lists would give the         *)
(* worktree of before (Undoable): what was taken, installed and made do not    *)
(* overlap.  That they do not is what the order of the items is for (InOrder): *)
(* directories come first and the upper ones before the lower, removals last   *)
(* and the lower ones first, so that an item never takes away what an earlier  *)
(* one put there, nor makes again what an earlier one removed.                 *)
(*                                                                             *)
(* VerdictMatchesCause is about the moment a call resolves.  The invariant     *)
(* carries the cause there (CauseKnown): only the profile and the runner kill, *)
(* the runner says so in the call, and neither reaches a child that has ended. *)
EXTENDS MCExecution, ExecutorProofs, NaturalsInduction, WellFoundedInduction,
        FiniteSetTheorems, TLAPS

\* Which freeze is going on where the action is, and for which kinds of action.
CommandInfo ==
    /\ task.at = "freeze" <=> scan.at # "off"
    /\ task.alive => task.at \in {"spawn", "done"}
    /\ task.at = "idle" => task = NoTask
    /\ scan.at = "off" => scan = NoScan
    /\ scan.at # "off" =>
          /\ scan.into \in Slots
          /\ scan.into \in {"input", "fresh"} => scan.of = "worktree"
          /\ scan.into \in {"pre", "post"} => scan.of = "workspace"
          /\ scan.into = "captured" => scan.of = "capture"
          /\ scan.strict <=> task.kind = "snapshot"
          /\ scan.roots \subseteq Roots
          /\ scan.roots = Roots \/ task.kind \in {"patch", "snapshot"}
          /\ scan.at = "reread" => scan.strict
          /\ scan.into = "input" \/ task.kind \in {"command", "install"}
          /\ scan.at = "list" => scan.into # "input"
    /\ task.at \in {"spawn", "verify", "pre", "post", "captured", "fresh"} =>
          task.kind \in {"command", "install"}
    /\ task.at \notin {"idle", "done"} => task.kind # "none"
    /\ task.at = "promote" => task.kind # "snapshot"
    /\ task.at # "input"

\* A tree whose contents are those of the writes so far, or the approved one.
NoNewer(t) == \A p \in Files : t[p].blob <= stamp \/ t[p].blob = Approved
\* Every tree there is, on disk or in a snapshot, is such a tree.
ContentsAreSeen ==
    /\ \A d \in Places : NoNewer(disk[d]) /\ NoNewer(base[d])
    /\ NoNewer(scan.got)
    /\ NoNewer(snap.input) /\ NoNewer(snap.pre) /\ NoNewer(snap.post) /\ NoNewer(snap.captured) /\ NoNewer(snap.fresh)

\* An action that runs a command, in a workspace of its own.
Commanded == task.kind \in {"command", "install"}
\* Ignored paths are tracked, listed and frozen only under the roots that were asked for.
IgnoredAreRoots ==
    /\ index["worktree"] \cap Ignored = {}
    /\ index["workspace"] \cap Ignored \subseteq Roots
    /\ Commanded => \A p \in Ignored \ Roots : snap.input[p] = NoEntry
    /\ scan.at = "read" /\ Commanded /\ scan.of # "capture" => scan.listed \cap Ignored \subseteq Roots
    /\ scan.at = "read" => \A p \in Files : scan.got[p] # NoEntry => p \in scan.listed \ scan.todo

\* A second reading of a place under way: m is what the first reading gave.
Rereads(m, place) ==
    \A p \in Files :
       /\ m[p] # NoEntry /\ disk[place][p] = m[p] => base[place][p] = m[p]
       /\ scan.got[p] # NoEntry /\ scan.got[p] = m[p] => base[place][p] = m[p]
       /\ p \notin scan.listed => Visible(base[place], Roots)[p] = NoEntry
       /\ p \in scan.listed \ scan.todo /\ scan.got[p] = NoEntry =>
             base[place][p] = NoEntry \/ disk[place][p] # base[place][p]

\* The same when everything is read again: t is what the second reading gave.
Reread(t, m, place) ==
    \A p \in Files :
       /\ t[p] # NoEntry => p \notin Ignored \ Roots
       /\ t[p] # NoEntry /\ t[p] = m[p] => base[place][p] = t[p]
       /\ t[p] = NoEntry => \/ Visible(base[place], Roots)[p] = NoEntry
                            \/ disk[place][p] # base[place][p]

\* The two freezes that repeat one: of the workspace after the command, of the worktree before promotion.
SecondReads ==
    /\ scan.at = "read" /\ scan.into = "post" => Rereads(snap.pre, "workspace")
    /\ scan.at = "read" /\ scan.into = "fresh" => Rereads(snap.input, "worktree")
    /\ task.at = "post" => Reread(snap.post, snap.pre, "workspace")
    /\ task.at = "fresh" => Reread(snap.fresh, snap.input, "worktree")

\* Once two readings were found equal, the first is a state its place had.
Moments ==
    /\ task.at = "captured" \/ scan.into = "captured" => IsMomentOf(snap.pre, "workspace")
    /\ task.at = "fresh" \/ scan.into = "fresh" \/ (task.at = "promote" /\ Commanded) =>
          IsMomentOf(snap.captured, "workspace")
    /\ task.at = "promote" /\ Commanded => IsMomentOf(snap.input, "worktree")

\* A snapshot: the first reading is full, the second is of exactly what the first gave.
StrictReads ==
    /\ scan.strict /\ scan.at \in {"read", "reread"} =>
          /\ scan.of = "worktree"
          /\ \A p \in scan.listed \ scan.todo : scan.got[p] # NoEntry
          /\ \A p \in Files \ scan.listed : scan.got[p] = NoEntry
    /\ scan.at = "reread" =>
          \A p \in Files :
             /\ disk["worktree"][p] = scan.got[p] /\ scan.got[p] # NoEntry => base["worktree"][p] = scan.got[p]
             /\ p \in scan.listed => scan.got[p] # NoEntry
             /\ p \in scan.listed \ scan.todo => base["worktree"][p] = scan.got[p]
             /\ p \notin scan.listed => base["worktree"][p] = NoEntry
    /\ task.at = "materialize" /\ task.kind = "snapshot" => snap.input = base["worktree"]
    /\ task.status = "snapshot" => snap.input = base["worktree"] /\ task.at = "done"

\* What waits to be promoted passed its checks.
CheckedChanges ==
    /\ scan.into = "fresh" \/ (task.at \in {"fresh", "promote"} /\ Commanded) =>
          DiffAccepts /\ (Install => InstalledSetIsExact)
    /\ task.at = "promote" /\ task.kind = "patch" => \A p \in Changes : checkWrite(task.role, p)

\* What every step keeps.
CommandInv ==
    /\ CommandTypeOK /\ CommandInfo /\ ContentsAreSeen /\ IgnoredAreRoots
    /\ SecondReads /\ Moments /\ StrictReads /\ CheckedChanges

\* The path that is read next is one of those still to be read.
LEMMA FirstIsMember ==
    ASSUME NEW S \in SUBSET Files, S # {}
    PROVE  First(S) \in S
  <1>1. S \subseteq Nat
    BY CommandAssumption
  <1>2. PICK x \in S : \A y \in S : ~(<<y, x>> \in OpToRel(<, Nat))
    BY <1>1, NatLessThanWellFounded, WFMin
  <1>3. ASSUME NEW y \in S PROVE x <= y
    <2>1. ~(y < x)
      BY <1>1, <1>2 DEF OpToRel
    <2>2. QED
      BY <1>1, <2>1
  <1>4. QED
    BY <1>3 DEF First

\* The empty tree, its entries and the numbers of writes have their types.
LEMMA TreeFacts ==
    /\ NoTree \in FileTrees
    /\ NoEntry \in Entry
    /\ \A n \in 0..Approved : [kind |-> "file", blob |-> n] \in Entry /\ [kind |-> "link", blob |-> n] \in Entry
    /\ Approved \in Nat /\ MaxWrites \in Nat
    /\ \A p \in Files : NoTree[p] = NoEntry
    /\ NoEntry.blob = 0
  BY CommandAssumption DEF NoTree, FileTrees, Entry, NoEntry, Approved

\* What was there before a step is not newer after it.
LEMMA StaysOld ==
    ASSUME CommandInv, stamp' \in stamp..MaxWrites, NEW t \in FileTrees, NoNewer(t)
    PROVE  \A p \in Files : t[p].blob <= stamp' \/ t[p].blob = Approved
  <1>1. \A e \in Entry : e.blob \in Nat
    BY TreeFacts DEF Entry
  <1>2. QED
    BY <1>1, TreeFacts DEF CommandInv, CommandTypeOK, FileTrees, NoNewer

\* It holds when nothing was frozen yet.
LEMMA InitCommandInv == CommandInit => CommandInv
  <1> SUFFICES ASSUME CommandInit PROVE CommandInv
    OBVIOUS
  <1>1. CommandTypeOK
    <2>1. disk \in [Places -> FileTrees]
      <3>0. 0 \in 0..Approved
        BY TreeFacts
      <3>1. [kind |-> "file", blob |-> 0] \in Entry
        BY <3>0, TreeFacts
      <3>2. [p \in Files |-> IF p \in Present THEN [kind |-> "file", blob |-> 0] ELSE NoEntry] \in FileTrees
        BY <3>1, TreeFacts DEF FileTrees
      <3>3. QED
        BY <3>2, TreeFacts DEF CommandInit, Places
    <2>2. base \in [Places -> FileTrees] /\ index \in [Places -> SUBSET Files]
      <3>1. Present \ Ignored \in SUBSET Files /\ {} \in SUBSET Files
        BY CommandAssumption
      <3>2. QED
        BY <3>1, TreeFacts DEF CommandInit, Places
    <2>3. task \in TaskTypes
      BY DEF CommandInit, NoTask, TaskTypes, Roles
    <2>4. scan \in [of : Places \cup {"nothing"}, into : Slots \cup {"nothing"}, strict : BOOLEAN,
                     roots : SUBSET Files, at : {"off", "list", "read", "reread"},
                     todo : SUBSET Files, listed : SUBSET Files, got : FileTrees]
      BY TreeFacts DEF CommandInit, NoScan
    <2>5. /\ snap \in [input : FileTrees, pre : FileTrees, post : FileTrees, captured : FileTrees, fresh : FileTrees]
          /\ scan.todo \subseteq scan.listed /\ stamp \in 0..MaxWrites
      BY TreeFacts DEF CommandInit, NoSnap, NoScan
    <2>6. QED
      BY <2>1, <2>2, <2>3, <2>4, <2>5 DEF CommandTypeOK
  <1>2. CommandInfo
    BY DEF CommandInit, CommandInfo, NoScan, NoTask, NoSnap
  <1>3. ContentsAreSeen
    BY TreeFacts DEF CommandInit, ContentsAreSeen, NoNewer, NoScan, NoSnap, Places
  <1>4. IgnoredAreRoots
    BY TreeFacts DEF CommandInit, IgnoredAreRoots, NoScan, NoSnap, NoTask, Commanded, Places
  <1>5. SecondReads /\ Moments /\ StrictReads /\ CheckedChanges
    BY DEF CommandInit, SecondReads, Moments, StrictReads, CheckedChanges, NoScan, NoTask, Slots
  <1>6. QED
    BY <1>1, <1>2, <1>3, <1>4, <1>5 DEF CommandInv

\* An action that is done leaves nothing to be promoted.
LEMMA DoneKeepsInv ==
    ASSUME CommandInv, scan' = NoScan, index' = index, snap' \in {snap, NoSnap},
           stamp' \in stamp..MaxWrites, base' = base,
           disk' \in [Places -> FileTrees],
           \A d \in Places, p \in Files : disk'[d][p].blob <= stamp' \/ disk'[d][p].blob = Approved,
           task' \in TaskTypes, task'.at = "done", task'.kind = task.kind \/ snap' = NoSnap,
           task'.status = "snapshot" => snap'.input = base["worktree"]
    PROVE  CommandInv'
  <1>1. CommandTypeOK'
    BY TreeFacts DEF CommandInv, CommandTypeOK, NoScan, NoSnap, Slots
  <1>2. CommandInfo'
    BY DEF CommandInv, CommandTypeOK, TaskTypes, CommandInfo, NoScan, NoTask
  <1>3. ContentsAreSeen'
    <2>1. \A t \in FileTrees : NoNewer(t) => \A p \in Files : t[p].blob <= stamp' \/ t[p].blob = Approved
      BY StaysOld
    <2>2. stamp' \in Nat
      BY TreeFacts DEF CommandInv, CommandTypeOK
    <2>3. \A p \in Files : NoTree[p].blob <= stamp'
      BY TreeFacts, <2>2
    <2>4. QED
      BY <2>1, <2>3, TreeFacts DEF CommandInv, CommandTypeOK, ContentsAreSeen, NoNewer, NoScan, NoSnap
  <1>4. IgnoredAreRoots'
    <2>1. IgnoredAreRoots
      BY DEF CommandInv
    <2>2. scan'.at = "off"
      BY DEF NoScan
    <2>3. CASE snap' = NoSnap
      <3>1. \A p \in Ignored \ Roots : snap'.input[p] = NoEntry
        BY <2>3, TreeFacts, CommandAssumption DEF NoSnap
      <3>2. QED
        BY <2>1, <2>2, <3>1 DEF IgnoredAreRoots
    <2>4. CASE snap' = snap /\ task'.kind = task.kind
      BY <2>1, <2>2, <2>4 DEF IgnoredAreRoots, Commanded
    <2>5. QED
      BY <2>3, <2>4
  <1>5. SecondReads' /\ Moments' /\ CheckedChanges'
    BY DEF CommandInv, CommandTypeOK, TaskTypes, SecondReads, Moments, CheckedChanges, NoScan
  <1>6. StrictReads'
    BY DEF CommandInv, CommandTypeOK, TaskTypes, StrictReads, NoScan
  <1>7. QED
    BY <1>1, <1>2, <1>3, <1>4, <1>5, <1>6 DEF CommandInv


\* Rejecting an action is ending it.
LEMMA RejectKeepsInv ==
    ASSUME CommandInv, index' = index, snap' = snap,
           stamp' \in stamp..MaxWrites, base' = base,
           NEW st \in {"capture_rejected", "no_changes", "patch_rejected"}, Reject(st)
    PROVE  CommandInv'
  <1>1. /\ scan' = NoScan
        /\ disk' = [disk EXCEPT !["workspace"] = NoTree, !["capture"] = NoTree]
        /\ task' = [task EXCEPT !.at = "done", !.status = st]
    BY DEF Reject, Dropped, Ends
  <1>2. disk' \in [Places -> FileTrees]
    BY <1>1, TreeFacts DEF CommandInv, CommandTypeOK
  <1>3. \A d \in Places, p \in Files : disk'[d][p].blob <= stamp' \/ disk'[d][p].blob = Approved
    <2>1. \A t \in FileTrees : NoNewer(t) => \A p \in Files : t[p].blob <= stamp' \/ t[p].blob = Approved
      BY StaysOld
    <2>2. stamp' \in Nat
      BY TreeFacts DEF CommandInv, CommandTypeOK
    <2>3. \A p \in Files : NoTree[p].blob <= stamp'
      BY TreeFacts, <2>2
    <2>4. \A d \in Places : disk'[d] = disk[d] \/ disk'[d] = NoTree
      BY <1>1 DEF CommandInv, CommandTypeOK
    <2>5. \A d \in Places : disk[d] \in FileTrees /\ NoNewer(disk[d])
      BY DEF CommandInv, CommandTypeOK, ContentsAreSeen
    <2>6. QED
      BY <2>1, <2>3, <2>4, <2>5
  <1>4. /\ task' \in TaskTypes /\ task'.at = "done" /\ task'.kind = task.kind
        /\ task'.status # "snapshot"
    BY <1>1 DEF CommandInv, CommandTypeOK, TaskTypes
  <1>5. QED
    BY <1>1, <1>2, <1>3, <1>4, DoneKeepsInv

\* Listing a tree begins a scan of it.
LEMMA ListFacts ==
    ASSUME CommandInv, NEW place \in Places, NEW strict \in BOOLEAN, NEW roots \in SUBSET Roots
    PROVE  /\ ListOf(place, strict, roots) \in SUBSET Files
           /\ strict => ListOf(place, strict, roots) = Exists(disk[place])
           /\ ~strict /\ index[place] \cap Ignored \subseteq Roots =>
                 ListOf(place, strict, roots) \cap Ignored \subseteq Roots
           /\ ~strict => \A p \in Files \ ListOf(place, strict, roots) :
                 disk[place][p] = NoEntry \/ p \in Ignored \ roots
  BY CommandAssumption DEF CommandInv, CommandTypeOK, ListOf, auditFilesystemShapes, Exists


\* An action begins with a freeze of the worktree.
LEMMA FirstFreezeKeepsInv ==
    ASSUME CommandInv, task.at = "idle",
           NEW kind \in {"command", "install", "patch", "snapshot"}, NEW role \in Roles,
           NEW class \in {"none", "artifact_mutation", "read_only_probe", "gate_check"},
           NEW roots \in SUBSET Roots, kind \in {"command", "install"} => roots = Roots,
           NEW strict \in BOOLEAN, strict <=> kind = "snapshot",
           task' = [at |-> "freeze", kind |-> kind, role |-> role, class |-> class,
                    alive |-> FALSE, escaped |-> FALSE, denied |-> FALSE, status |-> "none"],
           Freeze("worktree", "input", strict, roots),
           snap' = NoSnap, disk' = disk, index' = index, stamp' = stamp
    PROVE  CommandInv'
  <1> DEFINE L == ListOf("worktree", strict, roots)
  <1>0. "worktree" \in Places
    BY DEF Places
  <1>a. L \in SUBSET Files /\ roots \in SUBSET Files
    BY <1>0, ListFacts, CommandAssumption
  <1>b. ~strict => L \cap Ignored \subseteq Roots
    BY <1>0, ListFacts DEF CommandInv, IgnoredAreRoots
  <1>c. strict => L = Exists(disk["worktree"])
    BY <1>0, ListFacts
  <1>d. /\ scan' = [of |-> "worktree", into |-> "input", strict |-> strict, roots |-> roots, at |-> "read",
                    todo |-> L, listed |-> L, got |-> NoTree]
        /\ base' = [base EXCEPT !["worktree"] = disk["worktree"]]
    BY DEF Freeze
  <1> HIDE DEF L
  <1>1. CommandTypeOK'
    <2>1. task' \in TaskTypes
      BY DEF TaskTypes
    <2>2. scan' \in [of : Places \cup {"nothing"}, into : Slots \cup {"nothing"}, strict : BOOLEAN,
                     roots : SUBSET Files, at : {"off", "list", "read", "reread"},
                     todo : SUBSET Files, listed : SUBSET Files, got : FileTrees]
      BY <1>0, <1>a, <1>d, TreeFacts DEF Slots
    <2>3. base' \in [Places -> FileTrees]
      BY <1>0, <1>d DEF CommandInv, CommandTypeOK
    <2>4. snap' \in [input : FileTrees, pre : FileTrees, post : FileTrees, captured : FileTrees, fresh : FileTrees]
      BY TreeFacts DEF NoSnap
    <2>5. scan'.todo \subseteq scan'.listed
      BY <1>d
    <2>6. QED
      BY <2>1, <2>2, <2>3, <2>4, <2>5 DEF CommandInv, CommandTypeOK
  <1>2. CommandInfo'
    BY <1>d DEF CommandInfo, Slots
  <1>3. ContentsAreSeen'
    <2>1. \A p \in Files : NoTree[p].blob <= stamp
      BY TreeFacts DEF CommandInv, CommandTypeOK
    <2>2. scan'.got = NoTree
      BY <1>d
    <2>3. \A d \in Places : base'[d] = base[d] \/ base'[d] = disk[d]
      BY <1>0, <1>d DEF CommandInv, CommandTypeOK
    <2>4. \A d \in Places : NoNewer(base[d])'
      BY <2>3 DEF CommandInv, ContentsAreSeen, NoNewer
    <2>5. QED
      BY <2>1, <2>2, <2>4 DEF CommandInv, ContentsAreSeen, NoNewer, NoSnap
  <1>4. IgnoredAreRoots'
    BY <1>b, <1>d, TreeFacts, CommandAssumption DEF CommandInv, IgnoredAreRoots, Commanded, NoSnap
  <1>5. SecondReads' /\ Moments' /\ CheckedChanges'
    BY <1>d DEF SecondReads, Moments, CheckedChanges
  <1>6. StrictReads'
    BY <1>d, TreeFacts DEF StrictReads
  <1>7. QED
    BY <1>1, <1>2, <1>3, <1>4, <1>5, <1>6 DEF CommandInv


\* Listing a tree begins a freeze: nothing of it is read yet.
LEMMA BeginScanKeepsInv ==
    ASSUME CommandInv, BeginScan
    PROVE  CommandInv'
  <1> DEFINE L == ListOf(scan.of, scan.strict, scan.roots)
  <1>0. /\ scan.of \in {"worktree", "workspace", "capture"} /\ scan.strict \in BOOLEAN /\ ~scan.strict /\ scan.roots = Roots
        /\ scan.into \in {"pre", "post", "captured", "fresh"} /\ Commanded /\ task.at = "freeze"
    BY DEF CommandInv, CommandTypeOK, CommandInfo, BeginScan, Commanded, Slots
  <1>a. L \in SUBSET Files
    BY <1>0, ListFacts DEF Places, L
  <1>c. \A p \in Files \ L : disk[scan.of][p] = NoEntry \/ p \in Ignored \ Roots
    BY <1>0, ListFacts DEF Places
  <1>d. /\ scan' = [of |-> scan.of, into |-> scan.into, strict |-> scan.strict, roots |-> scan.roots,
                    at |-> "read", todo |-> L, listed |-> L, got |-> NoTree]
        /\ base' = [base EXCEPT ![scan.of] = disk[scan.of]]
        /\ disk' = disk /\ index' = index /\ snap' = snap /\ task' = task /\ stamp' = stamp
    BY DEF Freeze, BeginScan
  <1> HIDE DEF L
  <1>1. CommandTypeOK'
    <2>2. scan' \in [of : Places \cup {"nothing"}, into : Slots \cup {"nothing"}, strict : BOOLEAN,
                     roots : SUBSET Files, at : {"off", "list", "read", "reread"},
                     todo : SUBSET Files, listed : SUBSET Files, got : FileTrees]
      BY <1>a, <1>d, TreeFacts DEF CommandInv, CommandTypeOK
    <2>3. base' \in [Places -> FileTrees]
      BY <1>0, <1>d DEF CommandInv, CommandTypeOK
    <2>5. scan'.todo \subseteq scan'.listed
      BY <1>d
    <2>6. QED
      BY <1>d, <2>2, <2>3, <2>5 DEF CommandInv, CommandTypeOK
  <1>2. CommandInfo'
    BY <1>0, <1>d DEF CommandInv, CommandInfo, BeginScan
  <1>3. ContentsAreSeen'
    <2>1. \A p \in Files : NoTree[p].blob <= stamp
      BY TreeFacts DEF CommandInv, CommandTypeOK
    <2>2. scan'.got = NoTree
      BY <1>d
    <2>3. \A d \in Places : base'[d] = base[d] \/ base'[d] = disk[d]
      BY <1>0, <1>d DEF CommandInv, CommandTypeOK
    <2>4. \A d \in Places : NoNewer(base[d])'
      BY <1>d, <2>3 DEF CommandInv, ContentsAreSeen, NoNewer
    <2>5. QED
      BY <1>d, <2>1, <2>2, <2>4 DEF CommandInv, ContentsAreSeen, NoNewer
  <1>4. IgnoredAreRoots'
    <2>1. scan.of # "capture" => L \cap Ignored \subseteq Roots
      BY <1>0, ListFacts DEF Places, CommandInv, IgnoredAreRoots, L
    <2>2. QED
      BY <1>d, <2>1, TreeFacts, CommandAssumption DEF CommandInv, IgnoredAreRoots, Commanded
  <1>5. SecondReads'
    <2>1. ASSUME NEW m \in FileTrees, NEW place \in {"worktree", "workspace"}, scan.of = place
          PROVE  Rereads(m, place)'
      <3>1. base'[place] = disk[place] /\ disk'[place] = disk[place]
        BY <1>d, <2>1 DEF CommandInv, CommandTypeOK, Places
      <3>2. scan'.got = NoTree /\ scan'.listed = L /\ scan'.todo = L
        BY <1>d
      <3>3. ASSUME NEW p \in Files PROVE p \notin L => Visible(base'[place], Roots)[p] = NoEntry
        BY <1>c, <2>1, <3>1 DEF Visible
      <3>4. QED
        BY <3>1, <3>2, <3>3, TreeFacts DEF Rereads
    <2>2. scan.into = "post" => Rereads(snap.pre, "workspace")'
      BY <1>0, <1>d, <2>1 DEF CommandInv, CommandInfo, CommandTypeOK
    <2>3. scan.into = "fresh" => Rereads(snap.input, "worktree")'
      BY <1>0, <1>d, <2>1 DEF CommandInv, CommandInfo, CommandTypeOK
    <2>4. QED
      BY <1>0, <1>d, <2>2, <2>3 DEF SecondReads
  <1>6. Moments'
    <2>1. scan.into \in {"captured", "fresh"} => base'["workspace"] = base["workspace"]
      BY <1>0, <1>d DEF CommandInv, CommandInfo, CommandTypeOK, Places
    <2>2. QED
      BY <1>0, <1>d, <2>1 DEF CommandInv, Moments, IsMomentOf
  <1>7. StrictReads'
    BY <1>0, <1>d DEF CommandInv, CommandInfo, StrictReads
  <1>8. CheckedChanges'
    BY <1>0, <1>d DEF CommandInv, CheckedChanges, Commanded, DiffAccepts, Changes, Allowed, checkWrite,
                      Install, InstalledSetIsExact, MetadataIsValid
  <1>9. QED
    BY <1>1, <1>2, <1>3, <1>4, <1>5, <1>6, <1>7, <1>8 DEF CommandInv

\* A reader returns what is there.
LEMMA ReadIsExact ==
    ASSUME NEW t \in FileTrees, NEW p \in Files
    PROVE  readFrozenEntryContent(t, p) = t[p]
  <1>1. t[p] \in Entry
    BY DEF FileTrees
  <1>2. t[p] = NoEntry \/ t[p].kind \in {"file", "link"}
    BY <1>1 DEF Entry
  <1>3. QED
    BY <1>2 DEF readFrozenEntryContent, readSymlinkByDescriptor, readRegularFileByDescriptor, NoEntry


\* One entry is read, or the freeze fails.
LEMMA ReadEntryKeepsInv ==
    ASSUME CommandInv, ReadEntry
    PROVE  CommandInv'
  <1> DEFINE p == First(scan.todo)
             e == readFrozenEntryContent(disk[scan.of], p)
             d == disk[scan.of]
  <1>0. /\ scan.of \in Places /\ scan.at \in {"read", "reread"} /\ task.at = "freeze"
        /\ scan.into \in Slots
        /\ index' = index /\ snap' = snap /\ stamp' = stamp /\ base' = base
    BY DEF CommandInv, CommandTypeOK, CommandInfo, ReadEntry, Places, Slots
  <1>a. p \in scan.todo /\ p \in Files /\ p \in scan.listed
    BY FirstIsMember DEF CommandInv, CommandTypeOK, ReadEntry
  <1>b. d \in FileTrees /\ e = d[p] /\ e \in Entry
    BY <1>0, <1>a, ReadIsExact DEF CommandInv, CommandTypeOK, FileTrees
  <1>c. stamp' \in stamp..MaxWrites
    BY <1>0, TreeFacts DEF CommandInv, CommandTypeOK
  <1>1. CASE Reject("capture_rejected")
    BY <1>0, <1>1, <1>c, RejectKeepsInv
  <1>2. ASSUME ~(scan.strict /\ e = NoEntry), ~(scan.at = "reread" /\ e # scan.got[p]),
               scan' = [scan EXCEPT !.todo = @ \ {p}, !.got[p] = e], UNCHANGED <<task, disk>>
        PROVE  CommandInv'
    <2>1. /\ scan'.todo = scan.todo \ {p} /\ scan'.got = [scan.got EXCEPT ![p] = e]
          /\ scan'.of = scan.of /\ scan'.into = scan.into /\ scan'.strict = scan.strict
          /\ scan'.roots = scan.roots /\ scan'.at = scan.at /\ scan'.listed = scan.listed
      BY <1>2 DEF CommandInv, CommandTypeOK
    <2>2. scan'.got \in FileTrees /\ \A q \in Files : scan'.got[q] = IF q = p THEN e ELSE scan.got[q]
      BY <1>a, <1>b, <2>1 DEF CommandInv, CommandTypeOK, FileTrees
    <2> HIDE DEF p, e, d
    <2>3. CommandTypeOK'
      <3>1. scan' \in [of : Places \cup {"nothing"}, into : Slots \cup {"nothing"}, strict : BOOLEAN,
                       roots : SUBSET Files, at : {"off", "list", "read", "reread"},
                       todo : SUBSET Files, listed : SUBSET Files, got : FileTrees]
        BY <1>a, <1>2, <2>1, <2>2 DEF CommandInv, CommandTypeOK
      <3>2. QED
        BY <1>0, <1>2, <2>1, <3>1 DEF CommandInv, CommandTypeOK
    <2>4. CommandInfo'
      BY <1>0, <1>2, <2>1 DEF CommandInv, CommandInfo
    <2>5. ContentsAreSeen'
      BY <1>0, <1>2, <1>a, <1>b, <2>2 DEF CommandInv, ContentsAreSeen, NoNewer, d
    <2>6. IgnoredAreRoots'
      BY <1>0, <1>2, <1>a, <2>1, <2>2 DEF CommandInv, IgnoredAreRoots, Commanded
    <2>7. SecondReads'
      <3>1. ASSUME NEW m \in FileTrees, scan.at = "read", Rereads(m, scan.of)
            PROVE  \A q \in Files :
                      /\ m[q] # NoEntry /\ d[q] = m[q] => base[scan.of][q] = m[q]
                      /\ scan'.got[q] # NoEntry /\ scan'.got[q] = m[q] => base[scan.of][q] = m[q]
                      /\ q \notin scan.listed => Visible(base[scan.of], Roots)[q] = NoEntry
                      /\ q \in scan.listed \ scan'.todo /\ scan'.got[q] = NoEntry =>
                            base[scan.of][q] = NoEntry \/ d[q] # base[scan.of][q]
        BY <1>a, <1>b, <2>1, <2>2, <3>1 DEF Rereads, d
      <3>2. ASSUME NEW m \in FileTrees, NEW place \in {"worktree", "workspace"},
                   scan.at = "read", scan.of = place, Rereads(m, place)
            PROVE  Rereads(m, place)'
        BY <1>0, <1>2, <2>1, <3>1, <3>2 DEF Rereads, Visible, d
      <3>3. QED
        BY <1>0, <1>2, <2>1, <3>2 DEF CommandInv, CommandInfo, CommandTypeOK, SecondReads
    <2>8. Moments'
      BY <1>0, <1>2, <2>1 DEF CommandInv, Moments, IsMomentOf, Visible
    <2>9. StrictReads'
      BY <1>0, <1>2, <1>a, <1>b, <2>1, <2>2 DEF CommandInv, CommandInfo, StrictReads, d
    <2>10. CheckedChanges'
      BY <1>0, <1>2, <2>1 DEF CommandInv, CheckedChanges, Commanded, DiffAccepts, Changes, Allowed, checkWrite,
                        Install, InstalledSetIsExact, MetadataIsValid
    <2>11. QED
      BY <2>3, <2>4, <2>5, <2>6, <2>7, <2>8, <2>9, <2>10 DEF CommandInv
  <1>3. QED
    BY <1>1, <1>2 DEF ReadEntry


\* The strict freeze lists and reads everything a second time.
LEMMA ListAgainKeepsInv ==
    ASSUME CommandInv, ListAgain
    PROVE  CommandInv'
  <1>0. /\ scan.of = "worktree" /\ scan.at = "read" /\ task.at = "freeze" /\ scan.strict /\ scan.todo = {}
        /\ scan.into = "input" /\ scan.roots \in SUBSET Roots /\ task.kind = "snapshot"
        /\ index' = index /\ snap' = snap /\ stamp' = stamp
    BY DEF CommandInv, CommandTypeOK, CommandInfo, StrictReads, ListAgain, Slots
  <1>c. stamp' \in stamp..MaxWrites
    BY <1>0, TreeFacts DEF CommandInv, CommandTypeOK
  <1>1. CASE Reject("capture_rejected") /\ base' = base
    BY <1>0, <1>1, <1>c, RejectKeepsInv
  <1>2. ASSUME ListOf(scan.of, TRUE, {}) = scan.listed,
               scan' = [scan EXCEPT !.at = "reread", !.todo = scan.listed],
               base' = [base EXCEPT ![scan.of] = disk[scan.of]], UNCHANGED <<task, disk>>
        PROVE  CommandInv'
    <2>1. /\ scan'.todo = scan.listed /\ scan'.got = scan.got
          /\ scan'.of = scan.of /\ scan'.into = scan.into /\ scan'.strict = scan.strict
          /\ scan'.roots = scan.roots /\ scan'.at = "reread" /\ scan'.listed = scan.listed
      BY <1>2 DEF CommandInv, CommandTypeOK
    <2>2. scan.listed = Exists(disk["worktree"])
      BY <1>0, <1>2 DEF ListOf, auditFilesystemShapes
    <2>3. CommandTypeOK'
      <3>1. scan' \in [of : Places \cup {"nothing"}, into : Slots \cup {"nothing"}, strict : BOOLEAN,
                       roots : SUBSET Files, at : {"off", "list", "read", "reread"},
                       todo : SUBSET Files, listed : SUBSET Files, got : FileTrees]
        BY <1>2, <2>1 DEF CommandInv, CommandTypeOK
      <3>2. base' \in [Places -> FileTrees]
        BY <1>0, <1>2 DEF CommandInv, CommandTypeOK, Places
      <3>3. QED
        BY <1>0, <1>2, <2>1, <3>1, <3>2 DEF CommandInv, CommandTypeOK
    <2>4. CommandInfo'
      BY <1>0, <1>2, <2>1 DEF CommandInv, CommandInfo
    <2>5. base'["worktree"] = disk["worktree"]
      BY <1>0, <1>2 DEF CommandInv, CommandTypeOK, Places
    <2>6. ContentsAreSeen'
      <3>1. \A d \in Places : base'[d] = base[d] \/ base'[d] = disk[d]
        BY <1>0, <1>2 DEF CommandInv, CommandTypeOK
      <3>2. \A d \in Places : NoNewer(base[d])'
        BY <1>0, <3>1 DEF CommandInv, ContentsAreSeen, NoNewer
      <3>3. QED
        BY <1>0, <1>2, <2>1, <3>2 DEF CommandInv, ContentsAreSeen, NoNewer
    <2>7. IgnoredAreRoots'
      BY <1>0, <1>2, <2>1 DEF CommandInv, IgnoredAreRoots, Commanded
    <2>8. SecondReads' /\ Moments' /\ CheckedChanges'
      BY <1>0, <1>2, <2>1 DEF SecondReads, Moments, CheckedChanges
    <2>9. StrictReads'
      <3>1. \A q \in scan.listed : scan.got[q] # NoEntry
        BY <1>0 DEF CommandInv, StrictReads
      <3>2. \A q \in Files \ scan.listed : scan.got[q] = NoEntry /\ disk["worktree"][q] = NoEntry
        BY <1>0, <2>2 DEF CommandInv, StrictReads, Exists
      <3>3. QED
        BY <1>0, <1>2, <2>1, <2>5, <3>1, <3>2 DEF CommandInv, CommandInfo, StrictReads
    <2>10. QED
      BY <2>3, <2>4, <2>6, <2>7, <2>8, <2>9 DEF CommandInv
  <1>3. QED
    BY <1>1, <1>2 DEF ListAgain

\* What was read the second time, when all of it is read.
LEMMA RereadEnds ==
    ASSUME CommandInv, NEW m \in FileTrees, NEW place \in {"worktree", "workspace"}, scan.of = place,
           Rereads(m, place), scan.todo = {}, Commanded, scan.at = "read"
    PROVE  Reread(scan.got, m, place)
  BY CommandAssumption DEF CommandInv, IgnoredAreRoots, Rereads, Reread, Visible

\* What was read is kept under its name.
LEMMA FrozenKeepsInv ==
    ASSUME CommandInv, Frozen
    PROVE  CommandInv'
  <1>0. /\ scan.at \in {"read", "reread"} /\ task.at = "freeze" /\ scan.into \in Slots /\ scan.todo = {}
        /\ (scan.strict => scan.at = "reread") /\ (~scan.strict => scan.at = "read")
        /\ scan' = NoScan /\ UNCHANGED <<disk, index, stamp, base>> /\ scan.got \in FileTrees
        /\ snap' = [snap EXCEPT ![scan.into] = scan.got]
        /\ task' = [task EXCEPT !.at = IF scan.into = "input" THEN "materialize" ELSE scan.into]
    BY DEF CommandInv, CommandTypeOK, CommandInfo, Frozen
  <1>a. /\ task'.at = IF scan.into = "input" THEN "materialize" ELSE scan.into
        /\ task'.kind = task.kind /\ task'.alive = task.alive /\ task'.status = task.status
        /\ task'.role = task.role /\ task'.class = task.class
        /\ task'.escaped = task.escaped /\ task'.denied = task.denied
    BY <1>0 DEF CommandInv, CommandTypeOK, TaskTypes
  <1>b. /\ snap'.input = IF scan.into = "input" THEN scan.got ELSE snap.input
        /\ snap'.pre = IF scan.into = "pre" THEN scan.got ELSE snap.pre
        /\ snap'.post = IF scan.into = "post" THEN scan.got ELSE snap.post
        /\ snap'.captured = IF scan.into = "captured" THEN scan.got ELSE snap.captured
        /\ snap'.fresh = IF scan.into = "fresh" THEN scan.got ELSE snap.fresh
        /\ snap' \in [input : FileTrees, pre : FileTrees, post : FileTrees, captured : FileTrees, fresh : FileTrees]
    BY <1>0 DEF CommandInv, CommandTypeOK, Slots
  <1>1. CommandTypeOK'
    <2>1. task' \in TaskTypes
      BY <1>0 DEF CommandInv, CommandTypeOK, TaskTypes, Slots
    <2>2. scan' \in [of : Places \cup {"nothing"}, into : Slots \cup {"nothing"}, strict : BOOLEAN,
                     roots : SUBSET Files, at : {"off", "list", "read", "reread"},
                     todo : SUBSET Files, listed : SUBSET Files, got : FileTrees]
      BY <1>0, TreeFacts DEF NoScan
    <2>3. scan'.todo \subseteq scan'.listed
      BY <1>0 DEF NoScan
    <2>4. QED
      BY <1>0, <1>b, <2>1, <2>2, <2>3 DEF CommandInv, CommandTypeOK
  <1>2. CommandInfo'
    BY <1>0, <1>a DEF CommandInv, CommandInfo, NoScan, Slots
  <1>3. ContentsAreSeen'
    <2>1. \A p \in Files : NoTree[p].blob <= stamp
      BY TreeFacts DEF CommandInv, CommandTypeOK
    <2>2. NoNewer(scan.got)'
      BY <1>0, <2>1 DEF NoScan, NoNewer
    <2>3. /\ NoNewer(snap.input)' /\ NoNewer(snap.pre)' /\ NoNewer(snap.post)'
          /\ NoNewer(snap.captured)' /\ NoNewer(snap.fresh)'
      BY <1>0, <1>b DEF CommandInv, ContentsAreSeen, NoNewer
    <2>4. QED
      BY <1>0, <2>2, <2>3 DEF CommandInv, ContentsAreSeen, NoNewer
  <1>4. IgnoredAreRoots'
    <2>1. Commanded => ~scan.strict
      BY <1>0 DEF CommandInv, CommandInfo, Commanded
    <2>2. Commanded /\ scan.into = "input" => \A p \in Ignored \ Roots : scan.got[p] = NoEntry
      BY <1>0, <2>1, CommandAssumption DEF CommandInv, CommandInfo, IgnoredAreRoots
    <2>3. QED
      BY <1>0, <1>a, <1>b, <2>2 DEF CommandInv, IgnoredAreRoots, Commanded, NoScan
  <1>5. SecondReads'
    <2>1. scan.into # "input" => Commanded /\ scan.at = "read"
      BY <1>0 DEF CommandInv, CommandInfo, Commanded
    <2>2. scan.into = "post" => Reread(scan.got, snap.pre, "workspace")
      BY <1>0, <2>1, RereadEnds DEF CommandInv, CommandInfo, CommandTypeOK, SecondReads
    <2>3. scan.into = "fresh" => Reread(scan.got, snap.input, "worktree")
      BY <1>0, <2>1, RereadEnds DEF CommandInv, CommandInfo, CommandTypeOK, SecondReads
    <2>4. scan.into = "post" => Reread(snap.post, snap.pre, "workspace")'
      BY <1>0, <1>b, <2>2 DEF Reread, Visible
    <2>5. scan.into = "fresh" => Reread(snap.fresh, snap.input, "worktree")'
      BY <1>0, <1>b, <2>3 DEF Reread, Visible
    <2>6. QED
      BY <1>0, <1>a, <2>4, <2>5 DEF SecondReads, NoScan, Slots
  <1>6. Moments'
    BY <1>0, <1>a, <1>b DEF CommandInv, Moments, IsMomentOf, Visible, NoScan, Slots
  <1>7. StrictReads'
    <2>1. scan.at = "reread" => scan.got = base["worktree"]
      <3>1. base["worktree"] \in FileTrees
        BY DEF CommandInv, CommandTypeOK, Places
      <3>2. scan.at = "reread" => \A p \in Files : scan.got[p] = base["worktree"][p]
        BY <1>0 DEF CommandInv, CommandInfo, StrictReads
      <3>3. QED
        BY <1>0, <3>1, <3>2 DEF FileTrees
    <2>2. task.kind = "snapshot" => scan.at = "reread" /\ scan.into = "input"
      BY <1>0 DEF CommandInv, CommandInfo
    <2>3. task.status # "snapshot"
      BY <1>0 DEF CommandInv, StrictReads
    <2>4. QED
      BY <1>0, <1>a, <1>b, <2>1, <2>2, <2>3 DEF StrictReads, NoScan
  <1>8. CheckedChanges'
    <2>1. task'.at # "promote" /\ scan'.into # "fresh"
      BY <1>0, <1>a DEF NoScan, Slots
    <2>2. task'.at = "fresh" => scan.into = "fresh"
      BY <1>0, <1>a DEF Slots
    <2>3. QED
      BY <1>0, <1>a, <1>b, <2>1, <2>2 DEF CommandInv, CheckedChanges, Commanded, DiffAccepts, Changes, Allowed,
           checkWrite, Install, InstalledSetIsExact, MetadataIsValid
  <1>9. QED
    BY <1>1, <1>2, <1>3, <1>4, <1>5, <1>6, <1>7, <1>8 DEF CommandInv


\* A tree where one entry was written.
LEMMA WriteKeepsInv ==
    ASSUME CommandInv, NEW place \in {"worktree", "workspace"}, NEW p \in Files, NEW e \in Entry,
           e = NoEntry \/ e.blob = stamp + 1 \/ (task.alive /\ place = "workspace" /\ e.blob = Approved),
           stamp < MaxWrites, disk' = [disk EXCEPT ![place][p] = e], stamp' = stamp + 1,
           UNCHANGED <<index, scan, snap, task, base>>
    PROVE  CommandInv'
  <1>a. /\ disk' \in [Places -> FileTrees] /\ place \in Places
        /\ \A d \in Places : d # place => disk'[d] = disk[d]
        /\ \A q \in Files : disk'[place][q] = IF q = p THEN e ELSE disk[place][q]
    BY DEF CommandInv, CommandTypeOK, Places, FileTrees
  <1>b. stamp \in Nat /\ stamp' \in stamp..MaxWrites /\ Approved > stamp + 1
    BY TreeFacts DEF CommandInv, CommandTypeOK, Approved
  <1>c. \A t \in FileTrees : NoNewer(t) => \A q \in Files : t[q].blob <= stamp' \/ t[q].blob = Approved
    BY <1>b, StaysOld
  <1>d. task.at \notin {"spawn", "done"} =>
           \A t \in FileTrees : NoNewer(t) => \A q \in Files : t[q] # NoEntry =>
              (disk'[place][q] = t[q] => disk[place][q] = t[q])
    <2>1. ASSUME task.at \notin {"spawn", "done"}, NEW t \in FileTrees, NoNewer(t), t[p] # NoEntry PROVE e # t[p]
      <3>1. ~task.alive
        BY <2>1 DEF CommandInv, CommandInfo
      <3>2. t[p].blob <= stamp \/ t[p].blob = Approved
        BY <2>1 DEF NoNewer
      <3>3. t[p].blob \in Nat
        <4>1. t[p] \in Entry
          BY <2>1 DEF FileTrees
        <4>2. QED
          BY <4>1, TreeFacts DEF Entry
      <3>4. QED
        BY <1>b, <2>1, <3>1, <3>2, <3>3
    <2>2. QED
      BY <1>a, <2>1
  <1>e. /\ \A d \in Places : NoNewer(base[d]) /\ base[d] \in FileTrees /\ NoNewer(disk[d]) /\ disk[d] \in FileTrees
        /\ NoNewer(scan.got) /\ scan.got \in FileTrees /\ NoNewer(snap.pre) /\ snap.pre \in FileTrees
        /\ NoNewer(snap.input) /\ snap.input \in FileTrees /\ NoNewer(snap.post) /\ snap.post \in FileTrees
        /\ NoNewer(snap.captured) /\ snap.captured \in FileTrees /\ NoNewer(snap.fresh) /\ snap.fresh \in FileTrees
    BY DEF CommandInv, CommandTypeOK, ContentsAreSeen
  <1>1. CommandTypeOK'
    BY <1>a, <1>b, TreeFacts DEF CommandInv, CommandTypeOK
  <1>2. CommandInfo'
    BY DEF CommandInv, CommandInfo
  <1>3. ContentsAreSeen'
    <2>1. e.blob <= stamp' \/ e.blob = Approved
      BY <1>b, TreeFacts
    <2>2. \A d \in Places : NoNewer(disk[d])'
      BY <1>a, <1>c, <1>e, <2>1 DEF NoNewer
    <2>3. QED
      BY <1>c, <1>e, <2>2 DEF ContentsAreSeen, NoNewer
  <1>4. IgnoredAreRoots'
    BY DEF CommandInv, IgnoredAreRoots, Commanded
  <1>5. ASSUME NEW other \in Places, task.at \notin {"spawn", "done"}
        PROVE  \A t \in FileTrees : NoNewer(t) => \A q \in Files : t[q] # NoEntry =>
                  (disk'[other][q] = t[q] => disk[other][q] = t[q])
    BY <1>a, <1>d, <1>5
  <1>6. SecondReads'
    <2>1. ASSUME NEW m \in FileTrees, NoNewer(m), NEW other \in Places, scan.at = "read", Rereads(m, other)
          PROVE  Rereads(m, other)'
      <3>1. task.at \notin {"spawn", "done"}
        BY <2>1 DEF CommandInv, CommandInfo
      <3>2. QED
        BY <1>5, <1>e, <2>1, <3>1 DEF Rereads, Visible
    <2>2. ASSUME NEW t \in FileTrees, NEW m \in FileTrees, NEW other \in Places, task.at \notin {"spawn", "done"},
                 Reread(t, m, other)
          PROVE  Reread(t, m, other)'
      <3>1. ASSUME NEW q \in Files, disk[other][q] # base[other][q]
            PROVE  Visible(base[other], Roots)[q] = NoEntry \/ disk'[other][q] # base[other][q]
        BY <1>5, <1>e, <2>2, <3>1 DEF Visible
      <3>2. QED
        BY <2>2, <3>1 DEF Reread, Visible
    <2>3. scan.at = "read" /\ scan.into = "post" => Rereads(snap.pre, "workspace")'
      BY <1>e, <2>1 DEF CommandInv, SecondReads, Places
    <2>4. scan.at = "read" /\ scan.into = "fresh" => Rereads(snap.input, "worktree")'
      BY <1>e, <2>1 DEF CommandInv, SecondReads, Places
    <2>5. task.at = "post" => Reread(snap.post, snap.pre, "workspace")'
      BY <1>e, <2>2 DEF CommandInv, SecondReads, Places
    <2>6. task.at = "fresh" => Reread(snap.fresh, snap.input, "worktree")'
      BY <1>e, <2>2 DEF CommandInv, SecondReads, Places
    <2>7. QED
      BY <2>3, <2>4, <2>5, <2>6 DEF SecondReads, Rereads, Reread, Visible
  <1>7. Moments'
    <2>1. ASSUME NEW t \in FileTrees, NEW other \in Places, task.at \notin {"spawn", "done"}, IsMomentOf(t, other)
          PROVE  IsMomentOf(t, other)'
      <3>1. ASSUME NEW q \in Files, t[q] = NoEntry, disk[other][q] # base[other][q]
            PROVE  t[q] = Visible(base[other], Roots)[q] \/ disk'[other][q] # base[other][q]
        BY <1>5, <1>e, <2>1, <3>1 DEF Visible
      <3>2. QED
        BY <2>1, <3>1 DEF IsMomentOf, Visible
    <2>2. scan.into \in {"captured", "fresh"} => task.at \notin {"spawn", "done"}
      BY DEF CommandInv, CommandInfo, NoScan
    <2>3. task.at = "captured" \/ scan.into = "captured" => IsMomentOf(snap.pre, "workspace")'
      BY <1>e, <2>1, <2>2 DEF CommandInv, Moments, Places
    <2>4. task.at = "fresh" \/ scan.into = "fresh" \/ (task.at = "promote" /\ Commanded) =>
             IsMomentOf(snap.captured, "workspace")'
      BY <1>e, <2>1, <2>2 DEF CommandInv, Moments, Places
    <2>5. task.at = "promote" /\ Commanded => IsMomentOf(snap.input, "worktree")'
      BY <1>e, <2>1 DEF CommandInv, Moments, Places
    <2>6. QED
      BY <2>3, <2>4, <2>5 DEF Moments, IsMomentOf, Visible, Commanded
  <1>8. StrictReads'
    <2>1. scan.at = "reread" => task.at \notin {"spawn", "done"}
      BY DEF CommandInv, CommandInfo
    <2>2. scan.at = "reread" => \A q \in Files :
             scan.got[q] # NoEntry => (disk'["worktree"][q] = scan.got[q] => disk["worktree"][q] = scan.got[q])
      BY <1>5, <1>e, <2>1 DEF Places
    <2>3. QED
      BY <2>2 DEF CommandInv, StrictReads
  <1>9. CheckedChanges'
    BY DEF CommandInv, CheckedChanges, Commanded, DiffAccepts, Changes, Allowed, checkWrite,
           Install, InstalledSetIsExact, MetadataIsValid
  <1>10. QED
    BY <1>1, <1>2, <1>3, <1>4, <1>6, <1>7, <1>8, <1>9 DEF CommandInv

\* The command writes into its workspace, or an escaped process of it does.
LEMMA CommandWritesKeepsInv ==
    ASSUME CommandInv, NEW p \in Files, NEW e \in Entry, CommandWrites(p, e)
    PROVE  CommandInv'
  <1>1. e = NoEntry \/ e.blob = stamp + 1 \/ (task.alive /\ e.blob = Approved)
    BY DEF CommandWrites
  <1>2. QED
    BY <1>1, WriteKeepsInv DEF CommandWrites

\* Others write into the worktree.
LEMMA OthersWriteKeepsInv ==
    ASSUME CommandInv, NEW p \in Files, NEW e \in Entry, OthersWrite(p, e)
    PROVE  CommandInv'
  <1>1. e = NoEntry \/ e.blob = stamp + 1
    BY DEF OthersWrite
  <1>2. QED
    BY <1>1, WriteKeepsInv DEF OthersWrite

\* Only the running command itself is touched: nothing was read yet.
LEMMA DeniedKeepsInv ==
    ASSUME CommandInv, NEW p \in Files, CommandDenied(p)
    PROVE  CommandInv'
  <1>1. /\ UNCHANGED <<disk, index, scan, snap, stamp, base>> /\ task.at \in {"spawn", "done"}
        /\ task' \in TaskTypes /\ task'.at = task.at /\ task'.kind = task.kind /\ ~task'.alive
        /\ task'.role = task.role /\ task'.status = task.status
    BY DEF CommandInv, CommandTypeOK, TaskTypes, CommandInfo, CommandDenied
  <1>2. CommandTypeOK' /\ CommandInfo' /\ ContentsAreSeen'
    BY <1>1 DEF CommandInv, CommandTypeOK, CommandInfo, ContentsAreSeen, NoNewer
  <1>3. IgnoredAreRoots' /\ SecondReads' /\ Moments' /\ StrictReads' /\ CheckedChanges'
    BY <1>1 DEF CommandInv, CommandInfo, IgnoredAreRoots, Commanded, SecondReads, Moments, StrictReads, CheckedChanges, NoScan
  <1>4. QED
    BY <1>2, <1>3 DEF CommandInv


\* No scan goes on while an action is between two freezes.
LEMMA NoScanBetween ==
    ASSUME CommandInv, task.at # "freeze"
    PROVE  scan = NoScan
  BY DEF CommandInv, CommandInfo

\* The workspace is made from the frozen input.
LEMMA MaterializeKeepsInv ==
    ASSUME CommandInv, Materialize
    PROVE  CommandInv'
  <1>0. /\ task.at = "materialize" /\ Commanded /\ scan = NoScan /\ snap' = snap /\ stamp' = stamp /\ base' = base
        /\ stamp' \in stamp..MaxWrites /\ task.status # "snapshot"
    BY NoScanBetween, TreeFacts DEF CommandInv, CommandTypeOK, StrictReads, Materialize, Commanded
  <1>1. CASE Reject("capture_rejected") /\ index' = index
    BY <1>0, <1>1, RejectKeepsInv
  <1>2. ASSUME NEW extra \in SUBSET Staging, MaterializeInto("workspace", snap.input, extra),
               task' = [task EXCEPT !.at = "spawn", !.alive = TRUE], scan' = scan
        PROVE  CommandInv'
    <2> DEFINE T == [p \in Files |-> IF p \in extra THEN [kind |-> "file", blob |-> Approved] ELSE snap.input[p]]
    <2>1. T \in FileTrees
      <3>1. [kind |-> "file", blob |-> Approved] \in Entry
        <4>1. Approved \in 0..Approved
          BY TreeFacts
        <4>2. QED
          BY <4>1, TreeFacts
      <3>2. snap.input \in FileTrees
        BY DEF CommandInv, CommandTypeOK
      <3>3. QED
        BY <3>1, <3>2 DEF FileTrees
    <2>2. NoNewer(T)
      BY DEF CommandInv, ContentsAreSeen, NoNewer
    <2>3. disk' = [disk EXCEPT !["workspace"] = T] /\ index' = [index EXCEPT !["workspace"] = Exists(snap.input)]
      BY <1>2 DEF MaterializeInto
    <2>4. /\ task' \in TaskTypes /\ task'.at = "spawn" /\ task'.kind = task.kind /\ task'.status = task.status
      BY <1>2 DEF CommandInv, CommandTypeOK, TaskTypes
    <2> HIDE DEF T
    <2>5. CommandTypeOK'
      <3>1. disk' \in [Places -> FileTrees] /\ index' \in [Places -> SUBSET Files]
        BY <2>1, <2>3 DEF CommandInv, CommandTypeOK, Exists
      <3>2. QED
        BY <1>0, <1>2, <2>4, <3>1 DEF CommandInv, CommandTypeOK
    <2>6. CommandInfo'
      BY <1>0, <1>2, <2>4 DEF CommandInv, CommandInfo, Commanded
    <2>7. ContentsAreSeen'
      <3>1. \A d \in Places : disk'[d] = disk[d] \/ disk'[d] = T
        BY <2>3 DEF CommandInv, CommandTypeOK
      <3>2. \A d \in Places : NoNewer(disk[d])'
        BY <1>0, <2>2, <3>1 DEF CommandInv, ContentsAreSeen, NoNewer
      <3>3. QED
        BY <1>0, <1>2, <3>2 DEF CommandInv, ContentsAreSeen, NoNewer
    <2>8. IgnoredAreRoots'
      <3>1. index'["workspace"] = Exists(snap.input) /\ index'["worktree"] = index["worktree"]
        BY <2>3 DEF CommandInv, CommandTypeOK, Places
      <3>2. Exists(snap.input) \cap Ignored \subseteq Roots
        BY <1>0, CommandAssumption DEF CommandInv, IgnoredAreRoots, Exists
      <3>3. QED
        BY <1>0, <1>2, <2>4, <3>1, <3>2 DEF CommandInv, IgnoredAreRoots, Commanded, NoScan
    <2>9. SecondReads' /\ Moments' /\ StrictReads' /\ CheckedChanges'
      BY <1>0, <1>2, <2>4 DEF SecondReads, Moments, StrictReads, CheckedChanges, NoScan
    <2>10. QED
      BY <2>5, <2>6, <2>7, <2>8, <2>9 DEF CommandInv
  <1>3. QED
    BY <1>1, <1>2 DEF Materialize

\* The command is over; a clean one is going to be captured.
LEMMA CommandEndsKeepsInv ==
    ASSUME CommandInv, NEW leaves \in BOOLEAN,
           NEW how \in {"exit0", "exit1", "signaled", "rejected", "sandbox_violation"},
           CommandEnds(how, leaves)
    PROVE  CommandInv'
  <1>0. /\ task.at = "spawn" /\ scan = NoScan /\ UNCHANGED <<index, snap, stamp, base>>
        /\ stamp' \in stamp..MaxWrites
    BY NoScanBetween, TreeFacts DEF CommandInv, CommandTypeOK, CommandEnds
  <1>1. CASE task' = [Finished EXCEPT !.at = "verify", !.escaped = leaves] /\ UNCHANGED <<disk, scan>>
    <2>1. /\ task' \in TaskTypes /\ task'.at = "verify" /\ task'.kind = task.kind /\ ~task'.alive
          /\ task'.role = task.role /\ task'.status = task.status
      BY <1>0, <1>1 DEF CommandInv, CommandTypeOK, TaskTypes, Finished
    <2>2. CommandTypeOK' /\ CommandInfo' /\ ContentsAreSeen'
      BY <1>0, <1>1, <2>1 DEF CommandInv, CommandTypeOK, CommandInfo, ContentsAreSeen, NoNewer
    <2>3. IgnoredAreRoots' /\ SecondReads' /\ Moments' /\ StrictReads' /\ CheckedChanges'
      BY <1>0, <1>1, <2>1 DEF CommandInv, CommandInfo, IgnoredAreRoots, Commanded, SecondReads, Moments,
                             StrictReads, CheckedChanges, NoScan
    <2>4. QED
      BY <2>2, <2>3 DEF CommandInv
  <1>2. ASSUME NEW st \in {"preflight_rejected", "sandbox_violation", "command_failed", "signaled", "completed"},
               task' = [Finished EXCEPT !.at = "done", !.status = st], Dropped, scan' = scan
        PROVE  CommandInv'
    <2>1. /\ task' \in TaskTypes /\ task'.at = "done" /\ task'.kind = task.kind
          /\ task'.status # "snapshot"
      BY <1>2 DEF CommandInv, CommandTypeOK, TaskTypes, Finished
    <2>2. disk' \in [Places -> FileTrees]
      BY <1>2, TreeFacts DEF CommandInv, CommandTypeOK, Dropped
    <2>3. \A d \in Places, p \in Files : disk'[d][p].blob <= stamp' \/ disk'[d][p].blob = Approved
      <3>1. \A d \in Places : disk'[d] = disk[d] \/ disk'[d] = NoTree
        BY <1>2 DEF CommandInv, CommandTypeOK, Dropped
      <3>2. \A p \in Files : NoTree[p].blob <= stamp
        BY TreeFacts DEF CommandInv, CommandTypeOK
      <3>3. QED
        BY <1>0, <3>1, <3>2 DEF CommandInv, ContentsAreSeen, NoNewer
    <2>4. QED
      BY <1>0, <1>2, <2>1, <2>2, <2>3, DoneKeepsInv
  <1>3. ASSUME ~(how = "exit0" /\ task.class = "artifact_mutation")
        PROVE  \E st \in {"preflight_rejected", "sandbox_violation", "command_failed", "signaled", "completed"} :
                  (CASE how = "rejected" -> "preflight_rejected"
                     [] how = "sandbox_violation" -> how
                     [] task.class = "artifact_mutation" -> "command_failed"
                     [] how = "signaled" -> "signaled"
                     [] OTHER -> "completed") = st
    BY <1>3
  <1>4. QED
    BY <1>1, <1>2, <1>3 DEF CommandEnds

\* The next freeze is prepared: what it needs of the ones before holds.
LEMMA ScanNextKeepsInv ==
    ASSUME CommandInv, NEW of \in Places, NEW into \in {"pre", "post", "captured", "fresh"},
           task.at \in {"verify", "pre", "post", "captured"}, ScanNext(of, into),
           into = "fresh" => of = "worktree", into \in {"pre", "post"} => of = "workspace",
           into = "captured" => of = "capture",
           UNCHANGED <<snap, stamp, base>>, disk' \in [Places -> FileTrees], index' \in [Places -> SUBSET Files],
           \A d \in Places, p \in Files : disk'[d][p].blob <= stamp \/ disk'[d][p].blob = Approved,
           index'["worktree"] = index["worktree"], index'["workspace"] = index["workspace"],
           into = "captured" => IsMomentOf(snap.pre, "workspace")',
           into = "fresh" => /\ IsMomentOf(snap.captured, "workspace")'
                             /\ DiffAccepts /\ (Install => InstalledSetIsExact)
    PROVE  CommandInv'
  <1>0. /\ scan' = [of |-> of, into |-> into, strict |-> FALSE, roots |-> Roots,
                    at |-> "list", todo |-> {}, listed |-> {}, got |-> NoTree]
        /\ task' = [task EXCEPT !.at = "freeze"]
    BY DEF ScanNext, PersistentRoots
  <1>a. /\ task' \in TaskTypes /\ task'.at = "freeze" /\ task'.kind = task.kind /\ task'.alive = task.alive
        /\ task'.role = task.role /\ task'.status = task.status
    BY <1>0 DEF CommandInv, CommandTypeOK, TaskTypes
  <1>b. ~task.alive /\ Commanded /\ task.kind # "snapshot" /\ task.status # "snapshot"
    BY DEF CommandInv, CommandInfo, Commanded, StrictReads
  <1>1. CommandTypeOK'
    <2>1. scan' \in [of : Places \cup {"nothing"}, into : Slots \cup {"nothing"}, strict : BOOLEAN,
                     roots : SUBSET Files, at : {"off", "list", "read", "reread"},
                     todo : SUBSET Files, listed : SUBSET Files, got : FileTrees]
      BY <1>0, TreeFacts, CommandAssumption DEF Slots
    <2>2. QED
      BY <1>0, <1>a, <2>1 DEF CommandInv, CommandTypeOK
  <1>2. CommandInfo'
    BY <1>0, <1>a, <1>b DEF CommandInv, CommandInfo, Commanded, Slots
  <1>3. ContentsAreSeen'
    <2>1. \A p \in Files : NoTree[p].blob <= stamp
      BY TreeFacts DEF CommandInv, CommandTypeOK
    <2>2. NoNewer(scan.got)'
      BY <1>0, <2>1 DEF NoNewer
    <2>3. QED
      BY <2>2 DEF CommandInv, ContentsAreSeen, NoNewer
  <1>4. IgnoredAreRoots'
    BY <1>0, <1>a DEF CommandInv, IgnoredAreRoots, Commanded
  <1>5. SecondReads' /\ StrictReads'
    BY <1>0, <1>a, <1>b DEF SecondReads, StrictReads
  <1>6. Moments'
    BY <1>0, <1>a DEF Moments
  <1>7. CheckedChanges'
    BY <1>0, <1>a DEF CheckedChanges, Commanded, DiffAccepts, Changes, Allowed, checkWrite,
                      Install, InstalledSetIsExact, MetadataIsValid
  <1>8. QED
    BY <1>1, <1>2, <1>3, <1>4, <1>5, <1>6, <1>7 DEF CommandInv


\* The installed packages are looked at once the command has ended.
LEMMA VerifyInstallKeepsInv ==
    ASSUME CommandInv, VerifyInstall
    PROVE  CommandInv'
  <1>0. /\ task.at = "verify" /\ UNCHANGED <<index, snap, stamp, base>> /\ stamp' \in stamp..MaxWrites
    BY TreeFacts DEF CommandInv, CommandTypeOK, VerifyInstall
  <1>1. CASE Reject("capture_rejected")
    BY <1>0, <1>1, RejectKeepsInv
  <1>2. ASSUME disk' = [disk EXCEPT !["workspace"] = [p \in Files |-> IF Install /\ p \in Staging THEN NoEntry ELSE @[p]]],
               ScanNext("workspace", "pre")
        PROVE  CommandInv'
    <2>1. /\ disk' \in [Places -> FileTrees]
          /\ \A d \in Places, p \in Files : disk'[d][p] = disk[d][p] \/ disk'[d][p] = NoEntry
      BY <1>2, TreeFacts DEF CommandInv, CommandTypeOK, FileTrees, Places
    <2>2. \A d \in Places, p \in Files : disk'[d][p].blob <= stamp \/ disk'[d][p].blob = Approved
      BY <2>1, TreeFacts DEF CommandInv, CommandTypeOK, ContentsAreSeen, NoNewer
    <2>3. QED
      BY <1>0, <1>2, <2>1, <2>2, ScanNextKeepsInv DEF CommandInv, CommandTypeOK, Places
  <1>3. QED
    BY <1>1, <1>2 DEF VerifyInstall

\* What was frozen is copied for capture, and the workspace is read again.
LEMMA CopyKeepsInv ==
    ASSUME CommandInv, Copy
    PROVE  CommandInv'
  <1>0. /\ task.at = "pre" /\ UNCHANGED <<snap, stamp, base>> /\ ScanNext("workspace", "post")
        /\ snap.pre \in FileTrees /\ NoNewer(snap.pre)
    BY DEF CommandInv, CommandTypeOK, ContentsAreSeen, Copy
  <1>1. /\ disk' = [disk EXCEPT !["capture"] = [p \in Files |-> snap.pre[p]]]
        /\ index' = [index EXCEPT !["capture"] = Exists(snap.pre)]
    BY DEF Copy, MaterializeInto
  <1>2. [p \in Files |-> snap.pre[p]] = snap.pre
    BY <1>0 DEF FileTrees
  <1>3. /\ disk' \in [Places -> FileTrees] /\ index' \in [Places -> SUBSET Files]
        /\ index'["worktree"] = index["worktree"] /\ index'["workspace"] = index["workspace"]
        /\ \A d \in Places : disk'[d] = disk[d] \/ disk'[d] = snap.pre
    BY <1>0, <1>1, <1>2 DEF CommandInv, CommandTypeOK, Exists, Places
  <1>4. \A d \in Places, p \in Files : disk'[d][p].blob <= stamp \/ disk'[d][p].blob = Approved
    BY <1>0, <1>3 DEF CommandInv, ContentsAreSeen, NoNewer
  <1>5. QED
    BY <1>0, <1>3, <1>4, ScanNextKeepsInv DEF Places

\* Comparisons write nothing.
LEMMA DiskIsSeen ==
    ASSUME CommandInv
    PROVE  /\ disk \in [Places -> FileTrees] /\ index \in [Places -> SUBSET Files] /\ stamp \in stamp..MaxWrites
           /\ \A d \in Places, p \in Files : disk[d][p].blob <= stamp \/ disk[d][p].blob = Approved
  BY TreeFacts DEF CommandInv, CommandTypeOK, ContentsAreSeen, NoNewer

\* What reads the same twice was there in between, in one state of the workspace.
LEMMA ComparePostKeepsInv ==
    ASSUME CommandInv, ComparePost
    PROVE  CommandInv'
  <1>0. /\ task.at = "post" /\ UNCHANGED <<index, snap, stamp, base>>
    BY DEF ComparePost
  <1>1. CASE Reject("capture_rejected")
    BY <1>0, <1>1, DiskIsSeen, RejectKeepsInv
  <1>2. ASSUME snap.pre = snap.post, ScanNext("capture", "captured"), disk' = disk
        PROVE  CommandInv'
    <2>1. Reread(snap.post, snap.pre, "workspace")
      BY <1>0 DEF CommandInv, SecondReads
    <2>2. IsMomentOf(snap.pre, "workspace")'
      BY <1>0, <1>2, <2>1 DEF Reread, IsMomentOf, Visible
    <2>3. QED
      BY <1>0, <1>2, <2>2, DiskIsSeen, ScanNextKeepsInv DEF Places
  <1>3. QED
    BY <1>1, <1>2 DEF ComparePost

\* The captured copy is compared with the input: this is where the changes are checked.
LEMMA CompareCaptureKeepsInv ==
    ASSUME CommandInv, CompareCapture
    PROVE  CommandInv'
  <1>0. /\ task.at = "captured" /\ UNCHANGED <<index, snap, stamp, base>>
    BY DEF CompareCapture
  <1>1. ASSUME NEW st \in {"capture_rejected", "no_changes"}, Reject(st)
        PROVE  CommandInv'
    BY <1>0, <1>1, DiskIsSeen, RejectKeepsInv
  <1>2. ASSUME snap.captured = snap.pre, Install => InstalledSetIsExact, DiffAccepts,
               ScanNext("worktree", "fresh"), disk' = disk
        PROVE  CommandInv'
    <2>1. IsMomentOf(snap.pre, "workspace")
      BY <1>0 DEF CommandInv, Moments
    <2>2. IsMomentOf(snap.captured, "workspace")'
      BY <1>0, <1>2, <2>1 DEF IsMomentOf, Visible
    <2>3. QED
      BY <1>0, <1>2, <2>2, DiskIsSeen, ScanNextKeepsInv DEF Places
  <1>3. QED
    BY <1>1, <1>2 DEF CompareCapture

\* Nothing a check depends on changes while the checked changes wait to be promoted.
LEMMA CompareInputKeepsInv ==
    ASSUME CommandInv, CompareInput
    PROVE  CommandInv'
  <1>0. /\ task.at = "fresh" /\ scan = NoScan /\ UNCHANGED <<index, snap, stamp, base>> /\ Commanded
        /\ task.status # "snapshot"
    BY NoScanBetween DEF CommandInv, CommandInfo, CompareInput, Commanded, StrictReads
  <1>1. CASE Reject("capture_rejected")
    BY <1>0, <1>1, DiskIsSeen, RejectKeepsInv
  <1>2. ASSUME snap.fresh = snap.input, task' = [task EXCEPT !.at = "promote"], UNCHANGED <<disk, scan>>
        PROVE  CommandInv'
    <2>1. /\ task' \in TaskTypes /\ task'.at = "promote" /\ task'.kind = task.kind
          /\ task'.alive = task.alive /\ task'.role = task.role /\ task'.status = task.status
      BY <1>2 DEF CommandInv, CommandTypeOK, TaskTypes
    <2>2. CommandTypeOK' /\ CommandInfo' /\ ContentsAreSeen' /\ IgnoredAreRoots'
      BY <1>0, <1>2, <2>1 DEF CommandInv, CommandTypeOK, CommandInfo, ContentsAreSeen, NoNewer, IgnoredAreRoots,
                              Commanded, NoScan
    <2>3. SecondReads' /\ StrictReads'
      BY <1>0, <1>2, <2>1 DEF SecondReads, StrictReads, NoScan
    <2>4. Moments'
      <3>1. Reread(snap.fresh, snap.input, "worktree") /\ IsMomentOf(snap.captured, "workspace")
        BY <1>0 DEF CommandInv, SecondReads, Moments
      <3>2. IsMomentOf(snap.captured, "workspace")'
        BY <1>0, <1>2, <3>1 DEF IsMomentOf, Visible
      <3>3. IsMomentOf(snap.input, "worktree")'
        BY <1>0, <1>2, <3>1 DEF Reread, IsMomentOf, Visible
      <3>4. QED
        BY <1>0, <1>2, <2>1, <3>2, <3>3 DEF Moments, NoScan
    <2>5. CheckedChanges'
      BY <1>0, <1>2, <2>1 DEF CommandInv, CheckedChanges, Commanded, DiffAccepts, Changes, Allowed, checkWrite,
                        Install, InstalledSetIsExact, MetadataIsValid
    <2>6. QED
      BY <2>2, <2>3, <2>4, <2>5 DEF CommandInv
  <1>3. QED
    BY <1>1, <1>2 DEF CompareInput

\* Promoted, or put back after the helper was killed: either way the action is done.
LEMMA PromotionKeepsInv ==
    ASSUME CommandInv, applyMutationBatch \/ BatchKilled
    PROVE  CommandInv'
  <1>0. /\ task.at = "promote" /\ scan = NoScan /\ UNCHANGED <<index, snap, stamp, base>>
    BY NoScanBetween DEF applyMutationBatch, BatchKilled
  <1>1. CASE Reject("capture_rejected")
    BY <1>0, <1>1, DiskIsSeen, RejectKeepsInv
  <1>2. ASSUME NEW st \in {"promoted", "capture_rejected"}, Ends(st), scan' = scan, NEW S \in SUBSET Files,
               disk' = [d \in Places |-> IF d # "worktree" THEN NoTree
                                         ELSE [p \in Files |-> IF p \in S THEN snap.captured[p]
                                                               ELSE disk["worktree"][p]]]
        PROVE  CommandInv'
    <2> DEFINE W == [p \in Files |-> IF p \in S THEN snap.captured[p] ELSE disk["worktree"][p]]
    <2>1. /\ task' \in TaskTypes /\ task'.at = "done" /\ task'.kind = task.kind
          /\ task'.status # "snapshot"
      BY <1>2 DEF CommandInv, CommandTypeOK, TaskTypes, Ends
    <2>2. W \in FileTrees /\ NoNewer(W)
      BY DEF CommandInv, CommandTypeOK, ContentsAreSeen, NoNewer, FileTrees, Places
    <2>3. \A d \in Places : disk'[d] = W \/ disk'[d] = NoTree
      BY <1>2
    <2> HIDE DEF W
    <2>4. disk' \in [Places -> FileTrees]
      BY <1>2, <2>2, TreeFacts DEF W
    <2>5. \A p \in Files : NoTree[p].blob <= stamp
      BY TreeFacts DEF CommandInv, CommandTypeOK
    <2>6. \A d \in Places, p \in Files : disk'[d][p].blob <= stamp' \/ disk'[d][p].blob = Approved
      BY <1>0, <2>2, <2>3, <2>5 DEF NoNewer
    <2>7. QED
      BY <1>0, <1>2, <2>1, <2>4, <2>6, DiskIsSeen, DoneKeepsInv
  <1>3. CASE applyMutationBatch
    <2>1. Changes \in SUBSET Files
      BY DEF Changes, Changed
    <2>2. QED
      BY <1>1, <1>2, <1>3, <2>1 DEF applyMutationBatch
  <1>4. CASE BatchKilled
    <2>1. SUBSET {p \in Changes : disk["worktree"][p] = snap.input[p]} \subseteq SUBSET Files
      BY DEF Changes, Changed
    <2>2. QED
      BY <1>2, <1>4, <2>1 DEF BatchKilled
  <1>5. QED
    BY <1>3, <1>4

\* An attempt may be interrupted wherever it is.
LEMMA InterruptedKeepsInv ==
    ASSUME CommandInv, Interrupted
    PROVE  CommandInv'
  BY DiskIsSeen, RejectKeepsInv DEF Interrupted


\* A patch is promoted from the inspection copy, its paths checked.
LEMMA InspectPatchKeepsInv ==
    ASSUME CommandInv, NEW S \in SUBSET Files, InspectPatch(S)
    PROVE  CommandInv'
  <1>0. /\ task.at = "materialize" /\ task.kind = "patch" /\ scan = NoScan /\ UNCHANGED <<index, base>>
        /\ stamp' = stamp + 1 /\ stamp' \in stamp..MaxWrites /\ task.status # "snapshot" /\ stamp < MaxWrites
    BY NoScanBetween, TreeFacts DEF CommandInv, CommandTypeOK, StrictReads, InspectPatch
  <1>1. CASE Reject("patch_rejected") /\ snap' = snap
    BY <1>0, <1>1, RejectKeepsInv
  <1>2. ASSUME NEW e \in {NoEntry, [kind |-> "file", blob |-> stamp + 1]}, \A p \in S : checkWrite(task.role, p),
               snap' = [snap EXCEPT !.captured = [p \in Files |-> IF p \in S THEN e ELSE snap.input[p]]],
               task' = [task EXCEPT !.at = "promote"], UNCHANGED <<disk, scan>>
        PROVE  CommandInv'
    <2>1. /\ task' \in TaskTypes /\ task'.at = "promote" /\ task'.kind = "patch"
          /\ task'.alive = task.alive /\ task'.role = task.role /\ task'.status = task.status
      BY <1>0, <1>2 DEF CommandInv, CommandTypeOK, TaskTypes
    <2>2. e \in Entry /\ e.blob <= stamp'
      <3>1. stamp + 1 \in 0..Approved /\ stamp + 1 \in Nat
        BY <1>0, TreeFacts DEF CommandInv, CommandTypeOK, Approved
      <3>2. CASE e = NoEntry
        BY <1>0, <3>1, <3>2, TreeFacts
      <3>3. CASE e = [kind |-> "file", blob |-> stamp + 1]
        <4>1. e \in Entry
          BY <3>1, <3>3, TreeFacts
        <4>2. e.blob = stamp'
          BY <1>0, <3>3
        <4>3. QED
          BY <1>0, <3>1, <4>1, <4>2
      <3>4. QED
        BY <3>2, <3>3
    <2>3. /\ snap'.captured \in FileTrees /\ snap'.input = snap.input /\ snap'.pre = snap.pre
          /\ snap'.post = snap.post /\ snap'.fresh = snap.fresh
          /\ snap' \in [input : FileTrees, pre : FileTrees, post : FileTrees, captured : FileTrees, fresh : FileTrees]
          /\ \A p \in Files : snap'.captured[p] = IF p \in S THEN e ELSE snap.input[p]
      BY <1>2, <2>2 DEF CommandInv, CommandTypeOK, FileTrees
    <2>4. CommandTypeOK' /\ CommandInfo'
      BY <1>0, <1>2, <2>1, <2>3, TreeFacts DEF CommandInv, CommandTypeOK, CommandInfo
    <2>5. ContentsAreSeen'
      <3>1. \A t \in FileTrees : NoNewer(t) => \A p \in Files : t[p].blob <= stamp' \/ t[p].blob = Approved
        BY <1>0, StaysOld
      <3>0. /\ \A d \in Places : disk[d] \in FileTrees /\ base[d] \in FileTrees /\ NoNewer(disk[d]) /\ NoNewer(base[d])
            /\ scan.got \in FileTrees /\ snap.input \in FileTrees /\ snap.pre \in FileTrees
            /\ snap.post \in FileTrees /\ snap.fresh \in FileTrees
            /\ NoNewer(scan.got) /\ NoNewer(snap.input) /\ NoNewer(snap.pre) /\ NoNewer(snap.post) /\ NoNewer(snap.fresh)
        BY DEF CommandInv, CommandTypeOK, ContentsAreSeen
      <3>a. \A d \in Places : NoNewer(disk[d])' /\ NoNewer(base[d])'
        BY <1>0, <1>2, <3>0, <3>1 DEF NoNewer
      <3>b. NoNewer(scan.got)' /\ NoNewer(snap.input)' /\ NoNewer(snap.pre)' /\ NoNewer(snap.post)' /\ NoNewer(snap.fresh)'
        BY <1>2, <2>3, <3>0, <3>1 DEF NoNewer
      <3>2. /\ \A d \in Places : NoNewer(disk[d])' /\ NoNewer(base[d])'
            /\ NoNewer(scan.got)' /\ NoNewer(snap.input)' /\ NoNewer(snap.pre)' /\ NoNewer(snap.post)' /\ NoNewer(snap.fresh)'
        BY <3>a, <3>b
      <3>3. NoNewer(snap.captured)'
        BY <2>2, <2>3, <3>2 DEF NoNewer
      <3>4. QED
        BY <3>2, <3>3 DEF ContentsAreSeen
    <2>6. IgnoredAreRoots' /\ SecondReads' /\ Moments' /\ StrictReads'
      BY <1>0, <1>2, <2>1 DEF CommandInv, IgnoredAreRoots, Commanded, SecondReads, Moments, StrictReads, NoScan
    <2>7. CheckedChanges'
      <3>1. \A p \in Changes' : p \in S
        BY <2>3 DEF Changes, Changed
      <3>2. QED
        BY <1>0, <1>2, <2>1, <3>1 DEF CheckedChanges, Commanded, checkWrite, NoScan
    <2>8. QED
      BY <2>4, <2>5, <2>6, <2>7 DEF CommandInv
  <1>3. QED
    BY <1>1, <1>2 DEF InspectPatch

\* A snapshot is what the second reading found unchanged.
LEMMA SnapshotTakenKeepsInv ==
    ASSUME CommandInv, SnapshotTaken
    PROVE  CommandInv'
  <1>1. /\ task' \in TaskTypes /\ task'.at = "done" /\ task'.kind = task.kind
    BY DEF CommandInv, CommandTypeOK, TaskTypes, Ends, SnapshotTaken
  <1>2. snap.input = base["worktree"]
    BY DEF CommandInv, StrictReads, SnapshotTaken
  <1>3. scan' = NoScan /\ UNCHANGED <<disk, index, snap, stamp, base>>
    BY NoScanBetween DEF SnapshotTaken
  <1>4. QED
    BY <1>1, <1>2, <1>3, DiskIsSeen, DoneKeepsInv

\* A patch begins with a freeze of the worktree.
LEMMA PreparePatchKeepsInv ==
    ASSUME CommandInv, NEW role \in Roles, preparePatch(role)
    PROVE  CommandInv'
  <1>1. /\ task.at = "idle" /\ Freeze("worktree", "input", FALSE, {}) /\ snap' = NoSnap
        /\ disk' = disk /\ index' = index /\ stamp' = stamp
    BY DEF preparePatch
  <1>2. task' = [at |-> "freeze", kind |-> "patch", role |-> role, class |-> "none",
                 alive |-> FALSE, escaped |-> FALSE, denied |-> FALSE, status |-> "none"]
    BY DEF preparePatch, NoTask
  <1>3. QED
    BY <1>1, <1>2, FirstFreezeKeepsInv

\* A snapshot begins with a strict freeze of the worktree.
LEMMA CaptureStateKeepsInv ==
    ASSUME CommandInv, CaptureState
    PROVE  CommandInv'
  <1>1. /\ task.at = "idle" /\ Freeze("worktree", "input", TRUE, {}) /\ snap' = NoSnap
        /\ disk' = disk /\ index' = index /\ stamp' = stamp
    BY DEF CaptureState
  <1>2. task' = [at |-> "freeze", kind |-> "snapshot", role |-> "implementer", class |-> "none",
                 alive |-> FALSE, escaped |-> FALSE, denied |-> FALSE, status |-> "none"]
    BY DEF CaptureState, NoTask
  <1>3. "implementer" \in Roles
    BY DEF Roles
  <1>4. QED
    BY <1>1, <1>2, <1>3, FirstFreezeKeepsInv

\* A command begins with a freeze of the worktree, or is refused at once.
LEMMA ExecuteKeepsInv ==
    ASSUME CommandInv, NEW kind \in {"command", "install"}, NEW role \in Roles, NEW network \in {"none", "allow"},
           NEW class \in {"artifact_mutation", "read_only_probe", "gate_check"},
           NEW policy \in OfflinePolicies, NEW sourcesIntact \in BOOLEAN,
           Execute(kind, role, class, network, policy, sourcesIntact)
    PROVE  CommandInv'
  <1>0. task.at = "idle" /\ snap' = NoSnap /\ UNCHANGED <<disk, index, stamp>>
    BY DEF Execute
  <1>1. ASSUME task' = [NoTask EXCEPT !.at = "freeze", !.kind = kind, !.role = role, !.class = class],
               Freeze("worktree", "input", FALSE, PersistentRoots)
        PROVE  CommandInv'
    <2>1. task' = [at |-> "freeze", kind |-> kind, role |-> role, class |-> class,
                   alive |-> FALSE, escaped |-> FALSE, denied |-> FALSE, status |-> "none"]
      BY <1>1 DEF NoTask
    <2>2. QED
      BY <1>0, <1>1, <2>1, FirstFreezeKeepsInv DEF PersistentRoots
  <1>2. ASSUME task' = [NoTask EXCEPT !.at = "done", !.kind = kind, !.role = role,
                                      !.class = class, !.status = "preflight_rejected"],
               UNCHANGED <<scan, base>>
        PROVE  CommandInv'
    <2>1. task' = [at |-> "done", kind |-> kind, role |-> role, class |-> class,
                   alive |-> FALSE, escaped |-> FALSE, denied |-> FALSE, status |-> "preflight_rejected"]
      BY <1>2 DEF NoTask
    <2>2. task' \in TaskTypes /\ task'.at = "done" /\ task'.status # "snapshot"
      BY <2>1 DEF TaskTypes
    <2>3. scan' = NoScan
      BY <1>0, <1>2, NoScanBetween
    <2>4. QED
      BY <1>0, <1>2, <2>2, <2>3, DiskIsSeen, DoneKeepsInv
  <1>3. QED
    BY <1>1, <1>2 DEF Execute

\* Every step keeps the invariant.
LEMMA CommandStep ==
    ASSUME CommandInv, [CommandNext]_commandVars
    PROVE  CommandInv'
  <1>1. CASE UNCHANGED commandVars
    <2>1. CommandTypeOK' /\ CommandInfo' /\ ContentsAreSeen' /\ IgnoredAreRoots'
      BY <1>1 DEF commandVars, CommandInv, CommandTypeOK, CommandInfo, ContentsAreSeen, NoNewer, IgnoredAreRoots,
                  Commanded
    <2>2. SecondReads' /\ Moments' /\ StrictReads'
      BY <1>1 DEF commandVars, CommandInv, SecondReads, Rereads, Reread, Visible, Moments, IsMomentOf,
                  Commanded, StrictReads
    <2>3. CheckedChanges'
      BY <1>1 DEF commandVars, CommandInv, CheckedChanges, Commanded, DiffAccepts, Changes, Allowed, checkWrite,
                  Install, InstalledSetIsExact, MetadataIsValid
    <2>4. QED
      BY <2>1, <2>2, <2>3 DEF CommandInv
  <1>2. CASE \E kind \in {"command", "install"}, role \in Roles, network \in {"none", "allow"},
                class \in {"artifact_mutation", "read_only_probe", "gate_check"},
                policy \in OfflinePolicies, sourcesIntact \in BOOLEAN :
                  Execute(kind, role, class, network, policy, sourcesIntact)
    BY <1>2, ExecuteKeepsInv
  <1>3. CASE BeginScan \/ ReadEntry \/ ListAgain \/ Frozen \/ Materialize
    BY <1>3, BeginScanKeepsInv, ReadEntryKeepsInv, ListAgainKeepsInv, FrozenKeepsInv, MaterializeKeepsInv
  <1>4. CASE \E p \in Files, e \in Entry : CommandWrites(p, e) \/ OthersWrite(p, e)
    BY <1>4, CommandWritesKeepsInv, OthersWriteKeepsInv
  <1>5. CASE \/ \E p \in Files : CommandDenied(p)
             \/ \E how \in {"exit0", "exit1", "signaled", "rejected", "sandbox_violation"},
                   leaves \in BOOLEAN : CommandEnds(how, leaves)
    BY <1>5, DeniedKeepsInv, CommandEndsKeepsInv
  <1>6. CASE VerifyInstall \/ Copy \/ ComparePost \/ CompareCapture \/ CompareInput
    BY <1>6, VerifyInstallKeepsInv, CopyKeepsInv, ComparePostKeepsInv, CompareCaptureKeepsInv, CompareInputKeepsInv
  <1>7. CASE applyMutationBatch \/ BatchKilled \/ Interrupted
    BY <1>7, PromotionKeepsInv, InterruptedKeepsInv
  <1>8. CASE \/ \E role \in Roles : preparePatch(role)
             \/ \E S \in SUBSET Files : InspectPatch(S)
             \/ CaptureState \/ SnapshotTaken
    BY <1>8, PreparePatchKeepsInv, InspectPatchKeepsInv, CaptureStateKeepsInv, SnapshotTakenKeepsInv
  <1>9. QED
    BY <1>1, <1>2, <1>3, <1>4, <1>5, <1>6, <1>7, <1>8 DEF CommandNext

\* The invariant holds in every state, for any files, roots, policies and number of writes.
THEOREM CommandInvHolds == CommandSpec => []CommandInv
  <1>1. CommandInit => CommandInv
    BY InitCommandInv
  <1>2. CommandInv /\ [CommandNext]_commandVars => CommandInv'
    BY CommandStep
  <1>3. QED
    BY <1>1, <1>2, PTL DEF CommandSpec

\* The state always has its type.
THEOREM CommandTypesHold == CommandSpec => []CommandTypeOK
  <1>1. CommandInv => CommandTypeOK
    BY DEF CommandInv
  <1>2. QED
    BY <1>1, CommandInvHolds, PTL

\* What is promoted or kept as a snapshot is a state its tree really had, whatever was
\* written while it was read.
THEOREM WhatIsFrozenIsAMoment == CommandSpec => []FrozenIsAMoment
  <1>1. CommandInv => FrozenIsAMoment
    BY DEF CommandInv, Moments, StrictReads, FrozenIsAMoment, Commanded
  <1>2. QED
    BY <1>1, CommandInvHolds, PTL

\* A change that was checked is one its role may make, or an approved file.
LEMMA CheckedIsAllowed ==
    ASSUME CommandInv, task.at = "promote", NEW p \in Changes
    PROVE  /\ p \notin Golden
           /\ task.role = "implementer" => p \notin FrozenRed
           /\ p \in Writable[task.role] \/ (task.kind = "install" /\ snap.captured[p].blob = Approved)
  <1>1. CASE checkWrite(task.role, p)
    BY <1>1 DEF checkWrite
  <1>2. CASE ~checkWrite(task.role, p)
    <2>1. Commanded /\ DiffAccepts /\ (Install => InstalledSetIsExact)
      BY <1>2 DEF CommandInv, CommandInfo, CommandTypeOK, TaskTypes, CheckedChanges, Commanded
    <2>2. Install /\ p \in Installed
      BY <1>2, <2>1 DEF DiffAccepts, Allowed
    <2>3. snap.captured[p].blob = Approved
      BY <2>1, <2>2 DEF InstalledSetIsExact, MetadataIsValid, IsApproved, Installed
    <2>4. p \in Roots
      BY <2>2, CommandAssumption DEF Installed
    <2>5. QED
      BY <2>2, <2>3, <2>4, CommandAssumption DEF Install
  <1>3. QED
    BY <1>1, <1>2

\* Whatever reaches the worktree is a change its role may make, or an approved file with
\* its approved content; golden files and frozen RED tests never change, and nothing
\* written by others since the freeze is lost.
THEOREM EffectsAreAllowed == CommandSpec => OnlyAllowedEffects
  <1> DEFINE Fine == disk'["worktree"] # disk["worktree"] /\ stamp' = stamp =>
         \A p \in Changed(disk["worktree"], disk'["worktree"]) :
            /\ disk["worktree"][p] = snap.input[p]
            /\ p \notin Golden
            /\ task.role = "implementer" => p \notin FrozenRed
            /\ \/ p \in Writable[task.role]
               \/ task.kind = "install" /\ disk'["worktree"][p].blob = Approved
  <1>1. ASSUME CommandInv, CommandNext PROVE Fine
    <2>0. disk \in [Places -> FileTrees] /\ stamp \in Nat /\ "worktree" \in Places
      BY <1>1, TreeFacts DEF CommandInv, CommandTypeOK, Places
    <2>1. ASSUME NEW st, Reject(st) PROVE disk'["worktree"] = disk["worktree"]
      BY <2>0, <2>1 DEF Reject, Dropped
    <2>2. ASSUME task.at = "promote", NEW S \in SUBSET Changes, \A p \in S : disk["worktree"][p] = snap.input[p],
                 disk' = [d \in Places |-> IF d # "worktree" THEN NoTree
                                           ELSE [p \in Files |-> IF p \in S THEN snap.captured[p]
                                                                 ELSE disk["worktree"][p]]]
          PROVE  Fine
      <3>1. \A p \in Files : disk'["worktree"][p] = IF p \in S THEN snap.captured[p] ELSE disk["worktree"][p]
        BY <2>0, <2>2
      <3>2. \A p \in Changed(disk["worktree"], disk'["worktree"]) : p \in S
        BY <3>1 DEF Changed
      <3>3. QED
        BY <1>1, <2>2, <3>1, <3>2, CheckedIsAllowed DEF Changed
    <2>3. CASE applyMutationBatch
      BY <2>1, <2>2, <2>3 DEF applyMutationBatch
    <2>4. CASE BatchKilled
      BY <2>2, <2>4 DEF BatchKilled
    <2>5. CASE \E p \in Files, e \in Entry : CommandWrites(p, e) \/ OthersWrite(p, e)
      BY <2>0, <2>5 DEF CommandWrites, OthersWrite
    <2>6. CASE \E S \in SUBSET Files : InspectPatch(S)
      BY <2>0, <2>6 DEF InspectPatch
    <2>7. CASE Materialize \/ VerifyInstall \/ Copy
      BY <2>0, <2>1, <2>7 DEF Materialize, VerifyInstall, Copy, MaterializeInto
    <2>8. CASE ReadEntry \/ ListAgain \/ ComparePost \/ CompareCapture \/ CompareInput \/ Interrupted
      BY <2>0, <2>1, <2>8 DEF ReadEntry, ListAgain, ComparePost, CompareCapture, CompareInput, Interrupted
    <2>9. CASE \E how \in {"exit0", "exit1", "signaled", "rejected", "sandbox_violation"},
                  leaves \in BOOLEAN : CommandEnds(how, leaves)
      BY <2>0, <2>9 DEF CommandEnds, Dropped
    <2>10. CASE BeginScan \/ Frozen \/ (\E p \in Files : CommandDenied(p))
                \/ (\E role \in Roles : preparePatch(role)) \/ CaptureState \/ SnapshotTaken
      BY <2>10 DEF BeginScan, Frozen, CommandDenied, preparePatch, CaptureState, SnapshotTaken
    <2>11. CASE \E kind \in {"command", "install"}, role \in Roles, network \in {"none", "allow"},
                   class \in {"artifact_mutation", "read_only_probe", "gate_check"},
                   policy \in OfflinePolicies, sourcesIntact \in BOOLEAN :
                     Execute(kind, role, class, network, policy, sourcesIntact)
      BY <2>11 DEF Execute
    <2>12. QED
      BY <1>1, <2>3, <2>4, <2>5, <2>6, <2>7, <2>8, <2>9, <2>10, <2>11 DEF CommandNext
  <1>2. CommandInv /\ [CommandNext]_commandVars => [Fine]_commandVars
    BY <1>1
  <1>3. QED
    BY <1>2, CommandInvHolds, PTL DEF OnlyAllowedEffects, CommandSpec

------------------------------------------------------------------------------
(* The mutation helper *)

\* Where the helper stands when it goes forward.
Going == {"prepare", "next", "capture", "place", "commit"}
\* Where it stands when it rolls back, newest first.
Undoing == {"undo installed", "undo backups", "undo created"}
\* How a batch ended.
Outcomes == {"none", "committed", "rejected", "residue", "timed_out"}
\* A worktree: what is at every path.
Worktree == [Paths -> Node]
\* An object in the quarantine, with all that was below it.
Backup == [path : Paths, nodes : UNION {[S -> Node] : S \in SUBSET Paths}]
\* A request: the worktree it was made on and its operations.
Batch == [kind : {"none", "restore", "write"}, before : Worktree, ops : SUBSET Operation]
\* Where the helper stands, what is left to do, and its undo lists.
Transaction == [at : Going \cup Undoing \cup {"idle", "done"},
                todo : SUBSET Operation, plans : SUBSET Operation, item : SUBSET Operation,
                installed : Seq(Operation), backups : Seq(Backup), created : Seq(Paths),
                residue : BOOLEAN, outcome : Outcomes]

\* What was renamed away is a part of a worktree: the directories above what is in it are in it.
IsPart(b) ==
    /\ b.path \in DOMAIN b.nodes /\ DOMAIN b.nodes \subseteq {b.path} \cup Below(b.path)
    /\ \A q \in DOMAIN b.nodes : b.nodes[q] # Absent
    /\ \A q \in DOMAIN b.nodes : \A r \in Ancestors[q] \ Ancestors[b.path] :
          r \in DOMAIN b.nodes /\ b.nodes[r] = Directory

\* The operations that the check pass of the helper accepts, on the worktree w.
Consistent(ops, w) ==
    /\ \A o1, o2 \in ops : o1.path = o2.path => o1 = o2
    /\ \A o1, o2 \in ops : o1.path \in Ancestors[o2.path] /\ o2.desired # Absent => o1.desired = Directory
    /\ \A o \in ops : o.expected.kind = "any_artifact" => w[o.path].kind = "symlink"
    /\ \A o \in ops : o.desired = Absent => w[o.path] # Absent

\* The state is well formed, whoever else writes.
Steady(t, b) ==
    /\ t \in Transaction
    /\ t.todo \cup t.plans \cup t.item \subseteq b.ops
    /\ \A i \in DOMAIN t.backups : IsPart(t.backups[i])
    /\ t.at \in Going \cup Undoing => Consistent(b.ops, b.before)
    /\ t.at \in {"undo backups", "undo created"} => t.installed = <<>>
    /\ t.at = "undo created" => t.backups = <<>>
\* The worktree, the request and the helper.
HelperShape ==
    /\ fs \in Worktree /\ WellFormed(fs)
    /\ batch \in Batch /\ WellFormed(batch.before)
    /\ foreign \subseteq Paths
    /\ Steady(txn, batch)

\* The items that are through, in the transaction t of the operations ops.
Through(ops, t) == ops \ (t.todo \cup t.plans)
\* The items are taken in their order, one at a time where directories are planned.
InOrder(ops, t) ==
    /\ \A f \in Through(ops, t), o \in t.todo \cup t.plans : ~Before(o, f)
    /\ t.todo \cap t.plans = {}
    /\ t.at = "prepare" =>
          /\ t.todo # {}
          /\ IF PlannedDirectories(ops) # {} THEN t.plans = {} ELSE Through(ops, t) = {}
    /\ t.at = "next" => t.todo = {} /\ PlannedDirectories(ops) = {}
    /\ t.at \in {"capture", "place"} =>
          \E o \in t.plans :
             /\ t.item = {o}
             /\ \A other \in t.todo \cup t.plans : ~Before(other, o)
             /\ IF PlannedDirectories(ops) # {} THEN t.plans = {o} ELSE t.todo = {}
    /\ t.at = "commit" => t.todo = {} /\ t.plans = {}

\* The members of a list.
Elements(s) == {s[i] : i \in DOMAIN s}
\* The parents that the transaction t made.
MadeBy(t) == Elements(t.created)
\* The paths where it put something new.
InstalledBy(t) == {t.installed[i].path : i \in DOMAIN t.installed}
\* The paths that it emptied, with what was below them.
TakenBy(t) == UNION {DOMAIN t.backups[i].nodes : i \in DOMAIN t.backups}

\* Going forward, what is through is as desired in w, and only that was taken away.
InPlace(ops, t, w) ==
    /\ \A f \in Through(ops, t) : w[f.path] = f.desired
    /\ \A p \in TakenBy(t) : \/ \E f \in Through(ops, t) : f.path = p
                             \/ t.at = "place" /\ \E o \in t.item : o.path = p
    /\ \A p \in InstalledBy(t) : \E f \in Through(ops, t) : f.path = p /\ f.desired # Absent
    /\ \A q \in MadeBy(t) : w[q] = Directory
    /\ t.at = "place" => \A o \in t.item : w[o.path] = Absent
    /\ \A q \in MadeBy(t) : \E o \in ops \ t.todo : q \in Ancestors[o.path] /\ o.desired # Absent

\* What undoing everything makes of w is the worktree that was there before.
Undoable(t, w, before) ==
    /\ \A p \in Paths \ (TakenBy(t) \cup InstalledBy(t) \cup MadeBy(t)) : w[p] = before[p]
    /\ \A p \in (InstalledBy(t) \cup MadeBy(t)) \ TakenBy(t) : before[p] = Absent
    /\ \A i, j \in DOMAIN t.backups : i # j => DOMAIN t.backups[i].nodes \cap DOMAIN t.backups[j].nodes = {}
    /\ TakenBy(t) \cap MadeBy(t) = {}
    /\ \A i \in DOMAIN t.backups : \A p \in DOMAIN t.backups[i].nodes : t.backups[i].nodes[p] = before[p]

\* Undisturbed, the helper can always finish, and always go back.
Undisturbed ==
    /\ txn.at \in Going => InOrder(batch.ops, txn) /\ InPlace(batch.ops, txn, fs) /\ ~txn.residue
    /\ txn.at \in Going \cup Undoing /\ ~txn.residue => Undoable(txn, fs, batch.before)
\* The invariant: nobody else wrote, or the above, and what a batch that is over shows.
BatchInv == HelperShape /\ (foreign = {} => Undisturbed) /\ AllOrNothing

------------------------------------------------------------------------------
\* Paths form a tree.
LEMMA PathTree ==
    /\ \A p \in Paths : Ancestors[p] \subseteq Paths /\ p \notin Ancestors[p] /\ IsFiniteSet(Ancestors[p])
    /\ \A p \in Paths : \A q \in Ancestors[p] : Ancestors[q] \subseteq Ancestors[p]
    /\ \A p \in Paths : \A q, r \in Ancestors[p] : q = r \/ q \in Ancestors[r] \/ r \in Ancestors[q]
BY MutationAssumption

\* A path is deeper than those above it.
LEMMA DepthGrows ==
    ASSUME NEW p \in Paths, NEW q \in Ancestors[p]
    PROVE  Depth(q) \in Nat /\ Depth(p) \in Nat /\ Depth(q) < Depth(p)
<1>1. /\ Ancestors[q] \in SUBSET Ancestors[p] /\ Ancestors[q] # Ancestors[p]
      /\ IsFiniteSet(Ancestors[p]) /\ IsFiniteSet(Ancestors[q])
  BY PathTree
<1>2. Cardinality(Ancestors[q]) \in Nat /\ Cardinality(Ancestors[p]) \in Nat
  BY <1>1, FS_CardinalityType
<1>3. Cardinality(Ancestors[q]) <= Cardinality(Ancestors[p]) /\ Cardinality(Ancestors[q]) # Cardinality(Ancestors[p])
  <2> HIDE <1>2
  <2> QED BY <1>1, FS_Subset
<1> QED BY <1>2, <1>3 DEF Depth

\* What is absent and a directory are kinds of their own.
LEMMA AbsentAndDirectory == Absent \in Node /\ Directory \in Node /\ Absent # Directory
               /\ Absent.kind = "absent" /\ Directory.kind = "directory"
BY DEF Node, Absent, Directory
\* The kind of an object says whether it is absent or a directory.
LEMMA NodeKinds ==
    ASSUME NEW n \in Node
    PROVE  /\ n.kind \in {"absent", "directory", "regular", "symlink"}
           /\ n.kind = "absent" => n = Absent
           /\ n.kind = "directory" => n = Directory
BY DEF Node, Absent, Directory

\* Removals come last, the deepest first; directories first, the deepest last.
LEMMA Order ==
    ASSUME NEW o \in Operation, NEW f \in Operation, ~Before(o, f), o.path \in Ancestors[f.path]
    PROVE  f.desired # Absent => ~(o.desired = Directory)
<1>1. Depth(o.path) \in Nat /\ Depth(f.path) \in Nat /\ Depth(o.path) < Depth(f.path)
  BY DepthGrows DEF Operation
<1> SUFFICES ASSUME f.desired # Absent, o.desired = Directory PROVE FALSE
  OBVIOUS
<1>2. Rank(o) = 0 /\ Rank(f) \in {0, 1}
  BY AbsentAndDirectory DEF Rank
<1> QED BY <1>1, <1>2 DEF Before

\* What is taken before an item below it is not removed.
LEMMA RemovedLast ==
    ASSUME NEW o \in Operation, NEW f \in Operation, ~Before(o, f), f.path \in Ancestors[o.path]
    PROVE  f.desired # Absent
<1>1. Depth(o.path) \in Nat /\ Depth(f.path) \in Nat /\ Depth(f.path) < Depth(o.path)
  BY DepthGrows DEF Operation
<1> SUFFICES ASSUME f.desired = Absent PROVE FALSE
  OBVIOUS
<1>2. Rank(f) = 2 /\ Rank(o) \in {0, 1, 2}
  BY AbsentAndDirectory DEF Rank
<1> QED BY <1>1, <1>2 DEF Before

\* A list without its last member.
LEMMA Popped ==
    ASSUME NEW S, NEW s \in Seq(S), s # <<>>
    PROVE  /\ PopLast(s) \in Seq(S) /\ Len(s) \in DOMAIN s /\ s[Len(s)] \in S
           /\ DOMAIN PopLast(s) = DOMAIN s \ {Len(s)}
           /\ \A i \in DOMAIN s \ {Len(s)} : PopLast(s)[i] = s[i]
<1>1. Len(s) \in Nat /\ Len(s) > 0 /\ DOMAIN s = 1..Len(s)
  OBVIOUS
<1>2. PopLast(s) \in Seq(S) /\ Len(PopLast(s)) = Len(s) - 1 /\ \A i \in 1..(Len(s) - 1) : PopLast(s)[i] = s[i]
  BY <1>1 DEF PopLast
<1>3. 1..(Len(s) - 1) = (1..Len(s)) \ {Len(s)}
  BY <1>1
<1>4. DOMAIN PopLast(s) = 1..(Len(s) - 1)
  BY <1>2, <1>1
<1>5. s[Len(s)] \in S
  BY <1>1
<1> QED BY <1>1, <1>2, <1>3, <1>4, <1>5

\* A list with one member more.
LEMMA Appended ==
    ASSUME NEW S, NEW s \in Seq(S), NEW e \in S
    PROVE  /\ Append(s, e) \in Seq(S) /\ Len(s) + 1 \notin DOMAIN s
           /\ DOMAIN Append(s, e) = DOMAIN s \cup {Len(s) + 1}
           /\ Append(s, e)[Len(s) + 1] = e
           /\ \A i \in DOMAIN s : Append(s, e)[i] = s[i]
OBVIOUS

\* The parents that were missing, in the order they are made in.
LEMMA MadeInOrder ==
    ASSUME NEW S, IsFiniteSet(S), S \subseteq Paths, NEW made \in Downwards(S)
    PROVE  made \in Seq(Paths) /\ Elements(made) = S
<1>1. Cardinality(S) \in Nat
  BY FS_CardinalityType
<1>2. made \in [1..Cardinality(S) -> S] /\ \A q \in S : \E i \in DOMAIN made : made[i] = q
  BY DEF Downwards
<1>3. made \in [1..Cardinality(S) -> Paths] /\ DOMAIN made = 1..Cardinality(S)
  BY <1>2
<1>4. made \in Seq(Paths)
  BY <1>1, <1>3
<1>5. \A i \in DOMAIN made : made[i] \in S
  BY <1>2
<1> QED BY <1>2, <1>4, <1>5 DEF Elements

\* Two lists in one.
LEMMA Joined ==
    ASSUME NEW S, NEW s \in Seq(S), NEW t \in Seq(S)
    PROVE  /\ s \o t \in Seq(S)
           /\ Elements(s \o t) = Elements(s) \cup Elements(t)
<1>1. /\ s \o t \in Seq(S) /\ Len(s) \in Nat /\ Len(t) \in Nat
      /\ DOMAIN (s \o t) = 1..(Len(s) + Len(t)) /\ DOMAIN s = 1..Len(s) /\ DOMAIN t = 1..Len(t)
      /\ \A i \in 1..(Len(s) + Len(t)) : (s \o t)[i] = IF i <= Len(s) THEN s[i] ELSE t[i - Len(s)]
  OBVIOUS
<1>2. \A i \in DOMAIN (s \o t) : (s \o t)[i] \in {s[j] : j \in DOMAIN s} \cup {t[j] : j \in DOMAIN t}
  <2> TAKE i \in DOMAIN (s \o t)
  <2>1. CASE i <= Len(s)
    BY <1>1, <2>1
  <2>2. CASE ~(i <= Len(s))
    <3>1. i - Len(s) \in DOMAIN t /\ (s \o t)[i] = t[i - Len(s)]
      BY <1>1, <2>2
    <3> QED BY <3>1
  <2> QED BY <2>1, <2>2
<1>3. \A j \in DOMAIN s : s[j] = (s \o t)[j] /\ j \in DOMAIN (s \o t)
  BY <1>1
<1>4. \A j \in DOMAIN t : t[j] = (s \o t)[Len(s) + j] /\ Len(s) + j \in DOMAIN (s \o t)
  BY <1>1
<1>5. \A x : x \in {s[j] : j \in DOMAIN s} \cup {t[j] : j \in DOMAIN t}
             => \E i \in DOMAIN (s \o t) : x = (s \o t)[i]
  BY <1>3, <1>4
<1> QED BY <1>1, <1>2, <1>5 DEF Elements

\* The fields of an object in the quarantine.
LEMMA BackupFacts ==
    ASSUME NEW b \in Backup
    PROVE  b.path \in Paths /\ DOMAIN b.nodes \subseteq Paths /\ \A q \in DOMAIN b.nodes : b.nodes[q] \in Node
BY DEF Backup

\* The fields of a transaction.
LEMMA TransactionFacts ==
    ASSUME NEW t \in Transaction
    PROVE  /\ t.at \in Going \cup Undoing \cup {"idle", "done"}
           /\ t.todo \subseteq Operation /\ t.plans \subseteq Operation /\ t.item \subseteq Operation
           /\ t.installed \in Seq(Operation) /\ t.backups \in Seq(Backup) /\ t.created \in Seq(Paths)
           /\ t.residue \in BOOLEAN /\ t.outcome \in Outcomes
BY DEF Transaction

\* The fields of an operation.
LEMMA OperationFacts ==
    ASSUME NEW o \in Operation
    PROVE  o.path \in Paths /\ o.desired \in Node
           /\ o.expected.kind \in Kinds \cup {"regular_or_absent", "any_artifact"}
BY DEF Operation

\* The parents of p that are missing, and the worktree that has them.
Missing(w, p) == {q \in Ancestors[p] : w[q] = Absent}
\* The worktree with the missing parents of p.
Filling(w, p) == [q \in Paths |-> IF q \in Missing(w, p) THEN Directory ELSE w[q]]

\* Making the missing parents of p leaves a worktree.
LEMMA Filled ==
    ASSUME NEW w \in Worktree, WellFormed(w), NEW p \in Paths,
           \A q \in Ancestors[p] : w[q].kind \in {"absent", "directory"}
    PROVE  /\ Filling(w, p) \in Worktree /\ WellFormed(Filling(w, p))
           /\ Missing(w, p) \subseteq Paths /\ IsFiniteSet(Missing(w, p))
           /\ \A q \in Ancestors[p] : Filling(w, p)[q] = Directory
<1> DEFINE S == Missing(w, p)
<1>0. \A q \in Ancestors[p] : w[q] = Absent => q \in S
  BY DEF Missing
<1> DEFINE tree == [q \in Paths |-> IF q \in S THEN Directory ELSE w[q]]
<1>1. \A q \in Paths : w[q] \in Node
  BY DEF Worktree
<1>2. S \in SUBSET Ancestors[p] /\ S \subseteq Paths /\ IsFiniteSet(S)
  <2>1. S \in SUBSET Ancestors[p] /\ S \subseteq Paths /\ IsFiniteSet(Ancestors[p])
    BY PathTree DEF Missing
  <2> QED BY <2>1, FS_Subset
<1>3. \A q \in Ancestors[p] : q \in Paths /\ tree[q] = Directory
  <2> TAKE q \in Ancestors[p]
  <2>1. q \in Paths
    BY PathTree
  <2>2. w[q].kind \in {"absent", "directory"}
    OBVIOUS
  <2>3. w[q] \in Node /\ (w[q].kind = "absent" \/ w[q].kind = "directory")
    BY <2>1, <2>2, <1>1
  <2>5. w[q] = Absent \/ w[q] = Directory
    BY <2>3, NodeKinds
  <2>4. w[q] = Absent => q \in S
    BY <1>0
  <2> QED BY <2>1, <2>5, <2>4
<1>4. tree \in Worktree
  BY <1>1, AbsentAndDirectory DEF Worktree
<1>5. ASSUME NEW q \in Paths, tree[q] # Absent, NEW r \in Ancestors[q] PROVE tree[r] = Directory
  <2>1. CASE q \in S
    <3>1. r \in Ancestors[p]
      BY <2>1, <1>2, PathTree
    <3> QED BY <3>1, <1>3
  <2>2. CASE q \notin S
    <3>1. w[q] # Absent
      BY <2>2, <1>5
    <3>2. w[r] = Directory /\ r \in Paths
      BY <3>1, PathTree DEF WellFormed
    <3> QED BY <3>2
  <2> QED BY <2>1, <2>2
<1>6. WellFormed(tree)
  BY <1>5 DEF WellFormed
<1> QED BY <1>2, <1>3, <1>4, <1>6 DEF Filling

\* What is taken away with p.
Taking(w, p) == {p} \cup {q \in Below(p) : w[q] # Absent}

\* What is taken away with p, as one object.
Part(w, p) == [path |-> p, nodes |-> [q \in Taking(w, p) |-> w[q]]]
\* The worktree without it.
Carving(w, p) == [q \in Paths |-> IF q \in Taking(w, p) THEN Absent ELSE w[q]]
\* Taking p away leaves a worktree, and what is taken is a part of one.
LEMMA Carved ==
    ASSUME NEW w \in Worktree, WellFormed(w), NEW p \in Paths, w[p] # Absent
    PROVE  /\ Carving(w, p) \in Worktree /\ WellFormed(Carving(w, p))
           /\ Part(w, p) \in Backup /\ IsPart(Part(w, p))
           /\ p \in Taking(w, p) /\ Taking(w, p) \subseteq Paths /\ \A q \in Taking(w, p) : w[q] # Absent
<1> DEFINE b == [path |-> p, nodes |-> [q \in Taking(w, p) |-> w[q]]]
           tree == [q \in Paths |-> IF q \in Taking(w, p) THEN Absent ELSE w[q]]
<1>0. p \in Taking(w, p)
  BY DEF Taking
<1>1. \A q \in Paths : w[q] \in Node
  BY DEF Worktree
<1>2. tree \in Worktree
  BY <1>1, AbsentAndDirectory DEF Worktree
<1>3. Taking(w, p) \subseteq Paths /\ \A q \in Taking(w, p) : w[q] # Absent
  BY DEF Taking, Below
<1>4. ASSUME NEW q \in Paths, tree[q] # Absent, NEW r \in Ancestors[q] PROVE tree[r] = Directory
  <2>1. w[q] # Absent /\ q \notin Taking(w, p)
    BY <1>4
  <2>2. w[r] = Directory /\ r \in Paths
    BY <2>1, PathTree DEF WellFormed
  <2>3. r \notin Taking(w, p)
    BY <2>1, PathTree DEF Taking, Below
  <2> QED BY <2>2, <2>3
<1>5. WellFormed(tree)
  BY <1>4 DEF WellFormed
<1>6. b \in Backup
  <2>1. [q \in Taking(w, p) |-> w[q]] \in [Taking(w, p) -> Node]
    BY <1>1, <1>3
  <2> HIDE DEF b
  <2>2. b.path = p /\ b = [path |-> p, nodes |-> [q \in Taking(w, p) |-> w[q]]]
    BY DEF b
  <2> QED BY <2>1, <2>2, <1>3 DEF Backup
<1>7. IsPart(b)
  <2>1. DOMAIN b.nodes = Taking(w, p) /\ b.path = p /\ \A q \in Taking(w, p) : b.nodes[q] = w[q]
    OBVIOUS
  <2>2. p \in Taking(w, p) /\ Taking(w, p) \subseteq {p} \cup Below(p)
    BY DEF Taking
  <2>3. ASSUME NEW q \in Taking(w, p), NEW r \in Ancestors[q] \ Ancestors[p]
        PROVE  r \in Taking(w, p) /\ w[r] = Directory
    <3>1. q \in Paths /\ w[q] # Absent
      BY <1>3
    <3>2. w[r] = Directory /\ r \in Paths
      BY <3>1, PathTree DEF WellFormed
    <3>3. q # p
      BY <2>3
    <3>4. p \in Ancestors[q]
      BY <3>3, <2>2 DEF Below
    <3>5. r = p \/ p \in Ancestors[r]
      BY <3>1, <3>4, PathTree
    <3> QED BY <3>2, <3>5, AbsentAndDirectory DEF Taking, Below
  <2> HIDE DEF b
  <2> QED BY <2>1, <2>2, <2>3, <1>3 DEF IsPart
<1> QED BY <1>0, <1>2, <1>3, <1>5, <1>6, <1>7 DEF Part, Carving

\* An object in a free place.
LEMMA Placed ==
    ASSUME NEW w \in Worktree, WellFormed(w), NEW p \in Paths, w[p] = Absent, NEW n \in Node,
           \A q \in Ancestors[p] : w[q] = Directory
    PROVE  [w EXCEPT ![p] = n] \in Worktree /\ WellFormed([w EXCEPT ![p] = n])
<1> DEFINE tree == [w EXCEPT ![p] = n]
<1>1. tree \in Worktree
  BY DEF Worktree
<1>2. \A q \in Paths : tree[q] = IF q = p THEN n ELSE w[q]
  BY DEF Worktree
<1> HIDE DEF tree
<1>3. ASSUME NEW q \in Paths, tree[q] # Absent, NEW r \in Ancestors[q] PROVE tree[r] = Directory
  <2>1. r \in Paths /\ w[r] = Directory
    BY <1>2, <1>3, PathTree DEF WellFormed
  <2> QED BY <2>1, <1>2, AbsentAndDirectory
<1>4. WellFormed(tree)
  BY <1>3 DEF WellFormed
<1> QED BY <1>1, <1>4 DEF tree

\* A path that holds nothing else is emptied or written.
LEMMA Emptied ==
    ASSUME NEW w \in Worktree, WellFormed(w), NEW p \in Paths, NEW n \in Node,
           \A q \in Below(p) : w[q] = Absent, \A q \in Ancestors[p] : w[q] = Directory \/ n = Absent
    PROVE  [w EXCEPT ![p] = n] \in Worktree /\ WellFormed([w EXCEPT ![p] = n])
<1> DEFINE tree == [w EXCEPT ![p] = n]
<1>1. tree \in Worktree
  BY DEF Worktree
<1>2. \A q \in Paths : tree[q] = IF q = p THEN n ELSE w[q]
  BY DEF Worktree
<1> HIDE DEF tree
<1>3. ASSUME NEW q \in Paths, tree[q] # Absent, NEW r \in Ancestors[q] PROVE tree[r] = Directory
  <2>1. CASE q = p
    BY <2>1, <1>2, <1>3, PathTree
  <2>2. CASE q # p
    <3>1. w[q] # Absent /\ r \in Paths /\ w[r] = Directory
      BY <2>2, <1>2, <1>3, PathTree DEF WellFormed
    <3>2. r # p
      BY <3>1, <2>2, <1>3 DEF Below
    <3> QED BY <3>1, <3>2, <1>2
  <2> QED BY <2>1, <2>2
<1>4. WellFormed(tree)
  BY <1>3 DEF WellFormed
<1> QED BY <1>1, <1>4 DEF tree

\* A part that is put back where it was.
LEMMA PutBack ==
    ASSUME NEW w \in Worktree, WellFormed(w), NEW b \in Backup, IsPart(b), w[b.path] = Absent,
           \A q \in Ancestors[b.path] : w[q] = Directory
    PROVE  LET tree == [q \in Paths |-> IF q \in DOMAIN b.nodes THEN b.nodes[q] ELSE w[q]]
           IN  tree \in Worktree /\ WellFormed(tree)
<1> DEFINE tree == [q \in Paths |-> IF q \in DOMAIN b.nodes THEN b.nodes[q] ELSE w[q]]
<1>1. tree \in Worktree
  BY BackupFacts DEF Worktree
<1>2. \A q \in DOMAIN b.nodes : q = b.path \/ b.path \in Ancestors[q]
  BY DEF IsPart, Below
<1>3. ASSUME NEW q \in Paths, tree[q] # Absent, NEW r \in Ancestors[q] PROVE tree[r] = Directory
  <2>0. r \in Paths /\ b.path \in Paths /\ q \notin Ancestors[q]
    BY PathTree, BackupFacts
  <2>1. CASE q \in DOMAIN b.nodes
    <3>1. CASE r \in Ancestors[b.path]
      <4>1. r \notin DOMAIN b.nodes
        BY <1>2, <3>1, <2>0, PathTree
      <4> QED BY <4>1, <3>1, <2>0
    <3>2. CASE r \notin Ancestors[b.path]
      BY <3>2, <2>1, <2>0 DEF IsPart
    <3> QED BY <3>1, <3>2
  <2>2. CASE q \notin DOMAIN b.nodes
    <3>1. w[q] # Absent
      BY <2>2, <1>3
    <3>2. w[r] = Directory
      BY <3>1 DEF WellFormed
    <3>3. r \notin DOMAIN b.nodes
      <4> SUFFICES ASSUME r \in DOMAIN b.nodes PROVE FALSE
        OBVIOUS
      <4>1. r # b.path
        BY <3>2, AbsentAndDirectory
      <4>2. b.path \in Ancestors[q]
        BY <4>1, <1>2, <2>0, PathTree
      <4> QED BY <4>2, <3>1, AbsentAndDirectory DEF WellFormed
    <3> QED BY <3>2, <3>3, <2>0
  <2> QED BY <2>1, <2>2
<1> QED BY <1>1, <1>3 DEF WellFormed

------------------------------------------------------------------------------
\* What an action that fails leaves.
Failed(t, t2) ==
    /\ t2.at = "undo installed" /\ t2.todo = t.todo /\ t2.plans = t.plans /\ t2.item = t.item
    /\ t2.installed = t.installed /\ t2.backups = t.backups /\ t2.created = t.created /\ t2.residue = t.residue

\* Failing only sends the helper back.
LEMMA FailEffect ==
    ASSUME NEW t \in Transaction, txn' = [t EXCEPT !.at = "undo installed"]
    PROVE  txn' \in Transaction /\ Failed(t, txn')
BY DEF Transaction, Undoing, Failed

\* Making the parents of an item leaves a worktree.
LEMMA FillingIsWorktree ==
    ASSUME HelperShape, NEW o \in batch.ops, Reachable(o.path, {})
    PROVE  /\ Filling(fs, o.path) \in Worktree /\ WellFormed(Filling(fs, o.path))
           /\ Missing(fs, o.path) \subseteq Paths /\ IsFiniteSet(Missing(fs, o.path))
<1>1. o.path \in Paths
  BY OperationFacts DEF HelperShape, Batch
<1>2. \A q \in Ancestors[o.path] : fs[q].kind \in {"absent", "directory"}
  BY DEF Reachable
<1>3. fs \in Worktree /\ WellFormed(fs)
  BY DEF HelperShape
<1> QED BY <1>1, <1>2, <1>3, Filled

\* What preparing an item changes.
LEMMA PrepareEffect ==
    ASSUME HelperShape, NEW o \in batch.ops, PrepareItem(o)
    PROVE  /\ txn.at = "prepare" /\ o \in txn.todo /\ \A other \in txn.todo : ~Before(other, o)
           /\ batch' = batch /\ foreign' = foreign
           /\ txn' \in Transaction
           /\ txn'.installed = txn.installed /\ txn'.backups = txn.backups /\ txn'.residue = txn.residue
           /\ \/ fs' = fs /\ Failed(txn, txn')
              \/ /\ Reachable(o.path, {})
                 /\ fs' = Filling(fs, o.path)
                 /\ MadeBy(txn') = MadeBy(txn) \cup Missing(fs, o.path)
                 /\ txn'.todo = txn.todo \ {o} /\ txn'.plans = txn.plans \cup {o}
                 /\ \/ txn'.at = "undo installed" /\ txn'.item = txn.item
                    \/ PlannedDirectories(batch.ops) # {} /\ txn'.at = "capture" /\ txn'.item = {o}
                    \/ /\ PlannedDirectories(batch.ops) = {} /\ txn'.item = txn.item
                       /\ txn'.at = IF txn.todo = {o} THEN "next" ELSE "prepare"
<1>1. /\ txn.at = "prepare" /\ o \in txn.todo /\ \A other \in txn.todo : ~Before(other, o)
      /\ batch' = batch /\ foreign' = foreign
  BY DEF PrepareItem, FirstOf, Keep
<1>t. txn \in Transaction /\ o \in Operation
  BY DEF HelperShape, Steady, Batch
<1>2. CASE ~Reachable(o.path, {})
  <2>1. fs' = fs /\ txn' = [txn EXCEPT !.at = "undo installed"]
    BY <1>2 DEF PrepareItem, Fail
  <2>2. txn' \in Transaction /\ Failed(txn, txn')
    BY <2>1, <1>t, FailEffect
  <2> QED BY <1>1, <2>1, <2>2 DEF Failed
<1>3. CASE Reachable(o.path, {})
  <2> DEFINE next(made) == [txn EXCEPT !.todo = @ \ {o}, !.plans = @ \cup {o}, !.created = @ \o made]
  <2>1. fs' = Filling(fs, o.path)
    BY <1>3 DEF PrepareItem, Filling, Missing
  <2>2. PICK made \in Downwards(Missing(fs, o.path)) :
          \/ txn' = [next(made) EXCEPT !.at = "undo installed"]
          \/ txn' = IF PlannedDirectories(batch.ops) # {}
                    THEN [next(made) EXCEPT !.at = "capture", !.item = {o}]
                    ELSE [next(made) EXCEPT !.at = IF txn.todo = {o} THEN "next" ELSE "prepare"]
    <3> HIDE DEF next
    <3>1. \E made \in Downwards(Missing(fs, o.path)) :
                      IF \/ ~matches_expected(fs[o.path], o.expected)
                         \/ ~Restoring /\ fs[o.path].kind = "symlink"
                      THEN txn' = [next(made) EXCEPT !.at = "undo installed"]
                      ELSE txn' = IF PlannedDirectories(batch.ops) # {}
                                  THEN [next(made) EXCEPT !.at = "capture", !.item = {o}]
                                  ELSE [next(made) EXCEPT !.at = IF txn.todo = {o} THEN "next" ELSE "prepare"]
      BY <1>3 DEF PrepareItem, Missing, Fail, next
    <3> QED BY <3>1
  <2>3. made \in Seq(Paths) /\ Elements(made) = Missing(fs, o.path)
    BY <1>3, FillingIsWorktree, MadeInOrder
  <2>4. txn.created \in Seq(Paths)
    BY <1>t, TransactionFacts
  <2>5. /\ txn.created \o made \in Seq(Paths)
        /\ Elements(txn.created \o made) = MadeBy(txn) \cup Missing(fs, o.path)
    BY <2>3, <2>4, Joined DEF MadeBy
  <2>6. /\ next(made) \in Transaction /\ next(made).created = txn.created \o made
        /\ next(made).todo = txn.todo \ {o} /\ next(made).plans = txn.plans \cup {o}
        /\ next(made).item = txn.item /\ next(made).residue = txn.residue
        /\ next(made).installed = txn.installed /\ next(made).backups = txn.backups
    BY <1>t, <2>5 DEF Transaction
  <2> HIDE DEF next
  <2> DEFINE n == next(made)
  <2> HIDE DEF n
  <2>7. \/ txn' = [n EXCEPT !.at = "undo installed"]
        \/ PlannedDirectories(batch.ops) # {} /\ txn' = [n EXCEPT !.at = "capture", !.item = {o}]
        \/ PlannedDirectories(batch.ops) = {} /\ txn' = [n EXCEPT !.at = IF txn.todo = {o} THEN "next" ELSE "prepare"]
    BY <2>2 DEF n
  <2>8. n \in Transaction
    BY <2>6 DEF n
  <2>9. /\ txn' \in Transaction /\ txn'.created = n.created /\ txn'.todo = n.todo /\ txn'.plans = n.plans
        /\ txn'.residue = n.residue /\ txn'.installed = n.installed /\ txn'.backups = n.backups
        /\ \/ txn'.at = "undo installed" /\ txn'.item = n.item
           \/ PlannedDirectories(batch.ops) # {} /\ txn'.at = "capture" /\ txn'.item = {o}
           \/ /\ PlannedDirectories(batch.ops) = {} /\ txn'.item = n.item
              /\ txn'.at = IF txn.todo = {o} THEN "next" ELSE "prepare"
    <3>1. CASE txn' = [n EXCEPT !.at = "undo installed"]
      BY <3>1, <2>8 DEF Transaction, Undoing
    <3>2. CASE PlannedDirectories(batch.ops) # {} /\ txn' = [n EXCEPT !.at = "capture", !.item = {o}]
      BY <3>2, <2>8, <1>t DEF Transaction, Going
    <3>3. CASE PlannedDirectories(batch.ops) = {} /\ txn' = [n EXCEPT !.at = IF txn.todo = {o} THEN "next" ELSE "prepare"]
      BY <3>3, <2>8 DEF Transaction, Going
    <3> QED BY <2>7, <3>1, <3>2, <3>3
  <2>10. MadeBy(txn') = MadeBy(txn) \cup Missing(fs, o.path)
    <3>1. txn'.created = txn.created \o made
      BY <2>9, <2>6 DEF n
    <3> QED BY <3>1, <2>5 DEF MadeBy
  <2> QED BY <1>1, <1>3, <2>1, <2>6, <2>9, <2>10 DEF n
<1> QED BY <1>2, <1>3

\* The undo lists of the helper, which most actions leave alone.
Undos(t) == <<t.installed, t.backups, t.created, t.residue>>
\* Equal undo lists, one by one.
LEMMA UndosKept ==
    ASSUME NEW t, NEW t2, Undos(t2) = Undos(t)
    PROVE  t2.installed = t.installed /\ t2.backups = t.backups /\ t2.created = t.created /\ t2.residue = t.residue
BY DEF Undos

\* What taking up the next item changes.
LEMMA NextEffect ==
    ASSUME HelperShape, NEW o \in batch.ops, NextItem(o)
    PROVE  /\ txn.at = "next" /\ o \in txn.plans /\ \A other \in txn.plans : ~Before(other, o)
           /\ batch' = batch /\ foreign' = foreign /\ fs' = fs
           /\ txn' \in Transaction /\ Undos(txn') = Undos(txn)
           /\ txn'.at = "capture" /\ txn'.item = {o} /\ txn'.todo = txn.todo /\ txn'.plans = txn.plans
<1>1. txn \in Transaction /\ o \in Operation
  BY DEF HelperShape, Steady, Batch
<1>2. /\ txn.at = "next" /\ o \in txn.plans /\ \A other \in txn.plans : ~Before(other, o)
      /\ batch' = batch /\ foreign' = foreign /\ fs' = fs
      /\ txn' = [txn EXCEPT !.at = "capture", !.item = {o}]
  BY DEF NextItem, FirstOf, Keep
<1>3. /\ txn' \in Transaction
      /\ txn'.installed = txn.installed /\ txn'.backups = txn.backups /\ txn'.created = txn.created
      /\ txn'.residue = txn.residue
      /\ txn'.at = "capture" /\ txn'.item = {o} /\ txn'.todo = txn.todo /\ txn'.plans = txn.plans
  BY <1>1, <1>2 DEF Transaction, Going
<1> QED BY <1>2, <1>3 DEF Undos

\* What is there is what the item expects, alone if it is a directory.
Fits(w, o) ==
    /\ matches_expected(w[o.path], o.expected)
    /\ o.expected.kind = "directory" => \A q \in Below(o.path) : w[q] = Absent

\* What capturing what is at the place of an item changes.
LEMMA CaptureEffect ==
    ASSUME HelperShape, NEW o \in batch.ops, capture_current(o)
    PROVE  /\ txn.at = "capture" /\ o \in txn.item
           /\ batch' = batch /\ foreign' = foreign
           /\ txn' \in Transaction
           /\ txn'.item = txn.item /\ txn'.todo = txn.todo /\ txn'.plans = txn.plans
           /\ txn'.installed = txn.installed /\ txn'.created = txn.created /\ txn'.residue = txn.residue
           /\ txn'.at \in {"place", "undo installed"}
           /\ \/ fs[o.path] = Absent /\ fs' = fs /\ txn'.backups = txn.backups
              \/ /\ fs[o.path] # Absent /\ fs' = Carving(fs, o.path)
                 /\ txn'.backups = Append(txn.backups, Part(fs, o.path))
                 /\ txn'.at = "place" => Fits(fs, o)
<1>1. txn \in Transaction /\ o \in Operation /\ o.path \in Paths
  BY OperationFacts DEF HelperShape, Steady, Batch
<1>2. txn.at = "capture" /\ o \in txn.item /\ batch' = batch /\ foreign' = foreign
  BY DEF capture_current, Keep
<1>3. CASE fs[o.path] = Absent
  <2>1. fs' = fs /\ (txn' = [txn EXCEPT !.at = "place"] \/ txn' = [txn EXCEPT !.at = "undo installed"])
    BY <1>3 DEF capture_current, Fail
  <2>2. /\ txn' \in Transaction
        /\ txn'.item = txn.item /\ txn'.todo = txn.todo /\ txn'.plans = txn.plans
        /\ txn'.installed = txn.installed /\ txn'.created = txn.created /\ txn'.residue = txn.residue
        /\ txn'.at \in {"place", "undo installed"} /\ txn'.backups = txn.backups
    BY <1>1, <2>1 DEF Transaction, Going, Undoing
  <2> QED BY <1>2, <1>3, <2>1, <2>2
<1>4. CASE fs[o.path] # Absent
  <2> DEFINE held == [txn EXCEPT !.backups = Append(@, Part(fs, o.path))]
  <2>1. /\ fs' = Carving(fs, o.path)
        /\ \/ txn' = [held EXCEPT !.at = "place"] /\ Fits(fs, o)
           \/ txn' = [held EXCEPT !.at = "undo installed"]
    BY <1>4 DEF capture_current, Fail, Carving, Taking, Part, Fits
  <2>2. Append(txn.backups, Part(fs, o.path)) \in Seq(Backup)
    <3>1. Part(fs, o.path) \in Backup
      BY <1>1, <1>4, Carved DEF HelperShape
    <3>2. txn.backups \in Seq(Backup)
      BY <1>1, TransactionFacts
    <3> QED BY <3>1, <3>2, Appended
  <2>3. /\ held \in Transaction /\ held.backups = Append(txn.backups, Part(fs, o.path))
        /\ held.item = txn.item /\ held.todo = txn.todo /\ held.plans = txn.plans
        /\ held.installed = txn.installed /\ held.created = txn.created /\ held.residue = txn.residue
    BY <1>1, <2>2 DEF Transaction
  <2> HIDE DEF held
  <2>4. /\ txn' \in Transaction
        /\ txn'.item = held.item /\ txn'.todo = held.todo /\ txn'.plans = held.plans
        /\ txn'.installed = held.installed /\ txn'.created = held.created /\ txn'.residue = held.residue
        /\ txn'.at \in {"place", "undo installed"} /\ txn'.backups = held.backups
        /\ txn'.at = "place" => Fits(fs, o)
    <3>1. CASE txn' = [held EXCEPT !.at = "place"] /\ Fits(fs, o)
      BY <3>1, <2>3 DEF Transaction, Going
    <3>2. CASE txn' = [held EXCEPT !.at = "undo installed"]
      BY <3>2, <2>3 DEF Transaction, Undoing
    <3> QED BY <2>1, <3>1, <3>2
  <2> QED BY <1>2, <1>4, <2>1, <2>3, <2>4
<1> QED BY <1>3, <1>4

\* What installing an item changes.
LEMMA InstallEffect ==
    ASSUME HelperShape, NEW o \in batch.ops, install_item(o)
    PROVE  /\ txn.at = "place" /\ o \in txn.item
           /\ batch' = batch /\ foreign' = foreign
           /\ txn' \in Transaction
           /\ \/ fs' = fs /\ Failed(txn, txn')
              \/ /\ fs[o.path] = Absent /\ \A q \in Ancestors[o.path] : fs[q] = Directory
                 /\ fs' = [fs EXCEPT ![o.path] = o.desired]
                 /\ txn'.todo = txn.todo /\ txn'.plans = txn.plans \ {o} /\ txn'.item = {}
                 /\ txn'.backups = txn.backups /\ txn'.created = txn.created /\ txn'.residue = txn.residue
                 /\ txn'.installed = IF o.desired = Absent THEN txn.installed ELSE Append(txn.installed, o)
                 /\ \/ txn.todo # {} /\ txn'.at = "prepare"
                    \/ txn.todo = {} /\ PlannedDirectories(batch.ops) = {} /\ txn'.at = "next"
                    \/ /\ txn.todo = {} /\ txn'.at = "commit"
                       /\ txn.plans \ {o} = {} \/ PlannedDirectories(batch.ops) # {}
<1>1. txn \in Transaction /\ o \in Operation /\ o.path \in Paths
  BY OperationFacts DEF HelperShape, Steady, Batch
<1>2. txn.at = "place" /\ o \in txn.item /\ batch' = batch /\ foreign' = foreign
  BY DEF install_item, Keep
<1>3. CASE fs[o.path] # Absent \/ \E q \in Ancestors[o.path] : fs[q] # Directory
  <2>1. fs' = fs /\ txn' = [txn EXCEPT !.at = "undo installed"]
    BY <1>3 DEF install_item, Fail
  <2> QED BY <1>1, <1>2, <2>1, FailEffect
<1>4. CASE ~(fs[o.path] # Absent \/ \E q \in Ancestors[o.path] : fs[q] # Directory)
  <2> DEFINE rest == txn.plans \ {o}
             next == CASE txn.todo # {} -> "prepare"
                       [] txn.todo = {} /\ rest # {} /\ PlannedDirectories(batch.ops) = {} -> "next"
                       [] OTHER -> "commit"
             list == IF o.desired = Absent THEN txn.installed ELSE Append(txn.installed, o)
  <2>1. /\ fs' = [fs EXCEPT ![o.path] = o.desired]
        /\ txn' = [txn EXCEPT !.at = next, !.plans = rest, !.item = {},
                              !.installed = IF o.desired = Absent THEN @ ELSE Append(@, o)]
    BY <1>4 DEF install_item
  <2>2. \/ txn.todo # {} /\ next = "prepare"
        \/ txn.todo = {} /\ PlannedDirectories(batch.ops) = {} /\ next = "next"
        \/ txn.todo = {} /\ next = "commit" /\ (rest = {} \/ PlannedDirectories(batch.ops) # {})
    <3>1. CASE txn.todo # {}
      BY <3>1
    <3>2. CASE txn.todo = {} /\ rest # {} /\ PlannedDirectories(batch.ops) = {}
      BY <3>2
    <3>3. CASE txn.todo = {} /\ ~(rest # {} /\ PlannedDirectories(batch.ops) = {})
      BY <3>3
    <3> QED BY <3>1, <3>2, <3>3
  <2>3. list \in Seq(Operation)
    BY <1>1, TransactionFacts, Appended
  <2>4. next \in Going
    BY <2>2 DEF Going
  <2> HIDE DEF next
  <2>5. txn' = [txn EXCEPT !.at = next, !.plans = rest, !.item = {}, !.installed = list]
    BY <2>1, <1>1 DEF Transaction
  <2> HIDE DEF list
  <2>6. /\ txn' \in Transaction /\ txn'.at = next /\ txn'.installed = list
        /\ txn'.todo = txn.todo /\ txn'.plans = txn.plans \ {o} /\ txn'.item = {}
        /\ txn'.backups = txn.backups /\ txn'.created = txn.created /\ txn'.residue = txn.residue
    BY <2>3, <2>4, <2>5, <1>1 DEF Transaction
  <2> QED BY <1>2, <1>4, <2>1, <2>2, <2>6 DEF list
<1> QED BY <1>3, <1>4

\* What a rollback of the paths that are left keeps, and whether it was whole.
LEMMA UndoInstalledEffect ==
    ASSUME HelperShape, UndoInstalled
    PROVE  /\ txn.at = "undo installed"
           /\ batch' = batch /\ foreign' = foreign
           /\ txn' \in Transaction
           /\ txn'.item = txn.item /\ txn'.todo = txn.todo /\ txn'.plans = txn.plans
           /\ txn'.backups = txn.backups /\ txn'.created = txn.created
           /\ \/ /\ txn.installed = <<>> /\ fs' = fs /\ txn'.at = "undo backups"
                 /\ txn'.installed = txn.installed /\ txn'.residue = txn.residue
              \/ /\ txn.installed # <<>> /\ txn'.at = txn.at
                 /\ txn'.installed = PopLast(txn.installed)
                 /\ txn.residue => txn'.residue
                 /\ LET p == txn.installed[Len(txn.installed)].path
                    IN  \/ fs' = [fs EXCEPT ![p] = Absent] /\ \A q \in Below(p) : fs[q] = Absent
                        \/ fs' = fs /\ (fs[p] = Absent \/ txn'.residue)
<1>1. txn \in Transaction
  BY DEF HelperShape, Steady
<1>2. txn.at = "undo installed" /\ batch' = batch /\ foreign' = foreign
  BY DEF UndoInstalled, Keep
<1>3. CASE txn.installed = <<>>
  <2>1. fs' = fs /\ txn' = [txn EXCEPT !.at = "undo backups"]
    BY <1>3 DEF UndoInstalled
  <2> QED BY <1>1, <1>2, <1>3, <2>1 DEF Transaction, Undoing
<1>4. CASE txn.installed # <<>>
  <2> DEFINE o == txn.installed[Len(txn.installed)]
             ours == fs[o.path] = o.desired /\ \A q \in Below(o.path) : fs[q] = Absent
             bad == txn.residue \/ ~(ours \/ fs[o.path] = Absent)
  <2>1. /\ fs' = IF ours THEN [fs EXCEPT ![o.path] = Absent] ELSE fs
        /\ txn' = [txn EXCEPT !.installed = PopLast(@), !.residue = @ \/ ~(ours \/ fs[o.path] = Absent)]
    BY <1>4 DEF UndoInstalled
  <2>2. PopLast(txn.installed) \in Seq(Operation)
    BY <1>1, <1>4, TransactionFacts, Popped
  <2>3. txn' = [txn EXCEPT !.installed = PopLast(txn.installed), !.residue = bad]
    BY <2>1, <1>1 DEF Transaction
  <2>4. bad \in BOOLEAN
    BY <1>1, TransactionFacts
  <2>5. (bad <=> txn.residue \/ ~(ours \/ fs[o.path] = Absent))
    OBVIOUS
  <2> HIDE DEF bad
  <2>6. /\ txn' \in Transaction /\ txn'.residue = bad /\ txn'.at = txn.at
        /\ txn'.item = txn.item /\ txn'.todo = txn.todo /\ txn'.plans = txn.plans
        /\ txn'.backups = txn.backups /\ txn'.created = txn.created /\ txn'.installed = PopLast(txn.installed)
    BY <1>1, <2>2, <2>3, <2>4 DEF Transaction
  <2>7. CASE ours
    BY <1>2, <1>4, <2>1, <2>5, <2>6, <2>7
  <2>8. CASE ~ours
    BY <1>2, <1>4, <2>1, <2>5, <2>6, <2>8
  <2> QED BY <2>7, <2>8
<1> QED BY <1>3, <1>4

\* What putting back one object changes.
LEMMA UndoBackupEffect ==
    ASSUME HelperShape, UndoBackup
    PROVE  /\ txn.at = "undo backups"
           /\ batch' = batch /\ foreign' = foreign
           /\ txn' \in Transaction
           /\ txn'.item = txn.item /\ txn'.todo = txn.todo /\ txn'.plans = txn.plans
           /\ txn'.installed = txn.installed /\ txn'.created = txn.created
           /\ \/ /\ txn.backups = <<>> /\ fs' = fs /\ txn'.at = "undo created"
                 /\ txn'.backups = txn.backups /\ txn'.residue = txn.residue
              \/ /\ txn.backups # <<>> /\ txn'.at = txn.at
                 /\ txn'.backups = PopLast(txn.backups)
                 /\ txn.residue => txn'.residue
                 /\ LET b == txn.backups[Len(txn.backups)]
                    IN  \/ /\ fs[b.path] = Absent /\ \A q \in Ancestors[b.path] : fs[q] = Directory
                           /\ fs' = [q \in Paths |-> IF q \in DOMAIN b.nodes THEN b.nodes[q] ELSE fs[q]]
                        \/ fs' = fs /\ txn'.residue
<1>1. txn \in Transaction
  BY DEF HelperShape, Steady
<1>2. txn.at = "undo backups" /\ batch' = batch /\ foreign' = foreign
  BY DEF UndoBackup, Keep
<1>3. CASE txn.backups = <<>>
  <2>1. fs' = fs /\ txn' = [txn EXCEPT !.at = "undo created"]
    BY <1>3 DEF UndoBackup
  <2> QED BY <1>1, <1>2, <1>3, <2>1 DEF Transaction, Undoing
<1>4. CASE txn.backups # <<>>
  <2> DEFINE b == txn.backups[Len(txn.backups)]
             free == fs[b.path] = Absent /\ \A q \in Ancestors[b.path] : fs[q] = Directory
             bad == txn.residue \/ ~free
  <2>1. /\ fs' = IF free THEN [q \in Paths |-> IF q \in DOMAIN b.nodes THEN b.nodes[q] ELSE fs[q]] ELSE fs
        /\ txn' = [txn EXCEPT !.backups = PopLast(@), !.residue = @ \/ ~free]
    BY <1>4 DEF UndoBackup
  <2>2. PopLast(txn.backups) \in Seq(Backup)
    BY <1>1, <1>4, TransactionFacts, Popped
  <2>3. txn' = [txn EXCEPT !.backups = PopLast(txn.backups), !.residue = bad]
    BY <2>1, <1>1 DEF Transaction
  <2>4. bad \in BOOLEAN
    BY <1>1, TransactionFacts
  <2>5. (bad <=> txn.residue \/ ~free)
    OBVIOUS
  <2> HIDE DEF bad
  <2>6. /\ txn' \in Transaction /\ txn'.residue = bad /\ txn'.at = txn.at
        /\ txn'.item = txn.item /\ txn'.todo = txn.todo /\ txn'.plans = txn.plans
        /\ txn'.installed = txn.installed /\ txn'.created = txn.created /\ txn'.backups = PopLast(txn.backups)
    BY <1>1, <2>2, <2>3, <2>4 DEF Transaction
  <2>7. CASE free
    BY <1>2, <1>4, <2>1, <2>5, <2>6, <2>7
  <2>8. CASE ~free
    BY <1>2, <1>4, <2>1, <2>5, <2>6, <2>8
  <2> QED BY <2>7, <2>8
<1> QED BY <1>3, <1>4

\* What removing one parent that was made changes.
LEMMA UndoCreatedEffect ==
    ASSUME HelperShape, UndoCreated
    PROVE  /\ txn.at = "undo created"
           /\ batch' = batch /\ foreign' = foreign
           /\ txn' \in Transaction
           /\ txn'.item = txn.item /\ txn'.todo = txn.todo /\ txn'.plans = txn.plans
           /\ txn'.installed = txn.installed /\ txn'.backups = txn.backups
           /\ \/ /\ txn.created = <<>> /\ fs' = fs /\ txn'.at = "done"
                 /\ txn'.outcome = IF txn.residue THEN "residue" ELSE "rejected"
              \/ /\ txn.created # <<>> /\ txn'.at = txn.at
                 /\ txn'.created = PopLast(txn.created)
                 /\ txn.residue => txn'.residue
                 /\ LET p == txn.created[Len(txn.created)]
                    IN  \/ fs' = [fs EXCEPT ![p] = Absent] /\ \A q \in Below(p) : fs[q] = Absent
                        \/ fs' = fs /\ (fs[p] = Absent \/ txn'.residue)
<1>1. txn \in Transaction
  BY DEF HelperShape, Steady
<1>2. txn.at = "undo created" /\ batch' = batch /\ foreign' = foreign
  BY DEF UndoCreated, Keep
<1>3. CASE txn.created = <<>>
  <2>1. /\ fs' = fs
        /\ txn' = [txn EXCEPT !.at = "done", !.outcome = IF txn.residue THEN "residue" ELSE "rejected"]
    BY <1>3 DEF UndoCreated
  <2>2. /\ txn' \in Transaction /\ txn'.at = "done"
        /\ txn'.item = txn.item /\ txn'.todo = txn.todo /\ txn'.plans = txn.plans
        /\ txn'.installed = txn.installed /\ txn'.backups = txn.backups
        /\ txn'.outcome = IF txn.residue THEN "residue" ELSE "rejected"
    BY <1>1, <2>1 DEF Transaction, Outcomes
  <2> QED BY <1>2, <1>3, <2>1, <2>2
<1>4. CASE txn.created # <<>>
  <2> DEFINE d == txn.created[Len(txn.created)]
             empty == fs[d] = Directory /\ \A q \in Below(d) : fs[q] = Absent
             bad == txn.residue \/ ~(empty \/ fs[d] = Absent)
  <2>1. /\ fs' = IF empty THEN [fs EXCEPT ![d] = Absent] ELSE fs
        /\ txn' = [txn EXCEPT !.created = PopLast(@), !.residue = @ \/ ~(empty \/ fs[d] = Absent)]
    BY <1>4 DEF UndoCreated
  <2>2. PopLast(txn.created) \in Seq(Paths)
    BY <1>1, <1>4, TransactionFacts, Popped
  <2>3. txn' = [txn EXCEPT !.created = PopLast(txn.created), !.residue = bad]
    BY <2>1, <1>1 DEF Transaction
  <2>4. bad \in BOOLEAN
    BY <1>1, TransactionFacts
  <2>5. (bad <=> txn.residue \/ ~(empty \/ fs[d] = Absent))
    OBVIOUS
  <2> HIDE DEF bad
  <2>6. /\ txn' \in Transaction /\ txn'.residue = bad /\ txn'.at = txn.at
        /\ txn'.item = txn.item /\ txn'.todo = txn.todo /\ txn'.plans = txn.plans
        /\ txn'.installed = txn.installed /\ txn'.backups = txn.backups /\ txn'.created = PopLast(txn.created)
    BY <1>1, <2>2, <2>3, <2>4 DEF Transaction
  <2>7. CASE empty
    BY <1>2, <1>4, <2>1, <2>5, <2>6, <2>7
  <2>8. CASE ~empty
    BY <1>2, <1>4, <2>1, <2>5, <2>6, <2>8
  <2> QED BY <2>7, <2>8
<1> QED BY <1>3, <1>4

------------------------------------------------------------------------------
\* The plan of a restore, from c to w: files that are in the way of wanted ones,
\* and what becomes of a path.
Blockers(c, w) == {p \in Entries(c) \ Entries(w) : Below(p) \cap Entries(w) # {}}
\* What becomes of the path p.
Becomes(c, w, p) == IF p \in Blockers(c, w) THEN Directory ELSE IF p \in Entries(w) THEN w[p] ELSE Absent
\* The path p holds a file in one of them, and not the same in both.
Differs(c, w, p) == p \in Entries(c) \cup Entries(w) /\ ~(p \in Entries(c) /\ p \in Entries(w) /\ c[p] = w[p])

\* An operation of the plan is about a path that differs or a directory to remove.
LEMMA PlanOf ==
    ASSUME NEW c, NEW w, NEW o \in RestoreOperations(c, w)
    PROVE  \/ /\ Differs(c, w, o.path) /\ o.expected = frozenExpected(c, o.path)
              /\ o.desired = Becomes(c, w, o.path)
              /\ o = [path |-> o.path, expected |-> o.expected, desired |-> o.desired]
           \/ /\ o.path \in obsoleteArtifactDirectories(c, w) /\ o.desired = Absent
              /\ o.expected = [kind |-> "directory", data |-> "none"]
              /\ o = [path |-> o.path, expected |-> o.expected, desired |-> o.desired]
<1>1. \/ \E p \in {x \in Entries(c) \cup Entries(w) : ~(x \in Entries(c) /\ x \in Entries(w) /\ c[x] = w[x])} :
            o = [path |-> p, expected |-> frozenExpected(c, p), desired |-> Becomes(c, w, p)]
      \/ \E p \in obsoleteArtifactDirectories(c, w) :
            o = [path |-> p, expected |-> [kind |-> "directory", data |-> "none"], desired |-> Absent]
  BY DEF RestoreOperations, Becomes, Blockers
<1>2. CASE \E p \in {x \in Entries(c) \cup Entries(w) : ~(x \in Entries(c) /\ x \in Entries(w) /\ c[x] = w[x])} :
            o = [path |-> p, expected |-> frozenExpected(c, p), desired |-> Becomes(c, w, p)]
  BY <1>2 DEF Differs
<1>3. CASE \E p \in obsoleteArtifactDirectories(c, w) :
            o = [path |-> p, expected |-> [kind |-> "directory", data |-> "none"], desired |-> Absent]
  BY <1>3
<1> QED BY <1>1, <1>2, <1>3

\* A file of a worktree lies below directories only.
LEMMA EntryFacts ==
    ASSUME NEW t \in Worktree, WellFormed(t), NEW p \in Entries(t)
    PROVE  /\ p \in Paths /\ t[p] \in Node /\ t[p] # Absent /\ t[p] # Directory
           /\ t[p].kind = "regular" \/ t[p].kind = "symlink"
           /\ \A q \in Ancestors[p] : q \in Paths /\ t[q] = Directory /\ q \notin Entries(t)
<1>1. p \in Paths /\ t[p] \in Node /\ (t[p].kind = "regular" \/ t[p].kind = "symlink")
  BY DEF Entries, Worktree
<1>2. t[p] # Absent /\ t[p] # Directory
  BY <1>1, AbsentAndDirectory
<1>3. \A q \in Ancestors[p] : q \in Paths /\ t[q] = Directory
  BY <1>1, <1>2, PathTree DEF WellFormed
<1>4. \A q \in Ancestors[p] : q \notin Entries(t)
  BY <1>3, AbsentAndDirectory DEF Entries
<1> QED BY <1>1, <1>2, <1>3, <1>4

\* What an operation may expect of its path.
Expectation == [kind : Kinds \cup {"regular_or_absent", "any_artifact"}, data : {"none", "old", "new", "theirs"}]
\* Only where a symlink is, the plan expects any artifact.
LEMMA Expected ==
    ASSUME NEW t \in Worktree, WellFormed(t), NEW p \in Paths
    PROVE  /\ frozenExpected(t, p) \in Expectation
           /\ frozenExpected(t, p).kind = "any_artifact" => t[p].kind = "symlink"
<1>1. CASE p \notin Entries(t)
  <2>1. frozenExpected(t, p) = [kind |-> "absent", data |-> "none"]
    <3>1. t[p].kind # "regular"
      BY <1>1 DEF Entries
    <3> QED BY <1>1, <3>1 DEF frozenExpected
  <2> QED BY <2>1 DEF Expectation, Kinds
<1>2. CASE p \in Entries(t) /\ t[p].kind = "regular"
  <2>1. frozenExpected(t, p) = t[p]
    BY <1>2 DEF frozenExpected
  <2>2. t[p] \in Node
    BY <1>2, EntryFacts
  <2>3. t[p] \in Expectation /\ t[p].kind # "any_artifact"
    BY <2>2, <1>2 DEF Node, Expectation, Kinds, Absent, Directory
  <2> QED BY <2>1, <2>3
<1>3. CASE p \in Entries(t) /\ t[p].kind # "regular"
  <2>1. frozenExpected(t, p) = [kind |-> "any_artifact", data |-> "none"]
    BY <1>3 DEF frozenExpected
  <2>2. t[p].kind = "symlink"
    BY <1>3, EntryFacts
  <2> QED BY <2>1, <2>2 DEF Expectation
<1> QED BY <1>1, <1>2, <1>3

\* The plan of a restore is made of operations.
LEMMA RestorePlans ==
    ASSUME NEW c \in Worktree, WellFormed(c), NEW w \in Worktree, WellFormed(w)
    PROVE  RestoreOperations(c, w) \subseteq Operation
<1> SUFFICES ASSUME NEW o \in RestoreOperations(c, w) PROVE o \in Operation
  OBVIOUS
<1>0. Entries(c) \subseteq Paths /\ Entries(w) \subseteq Paths
  BY DEF Entries
<1>1. CASE /\ Differs(c, w, o.path) /\ o.expected = frozenExpected(c, o.path)
           /\ o.desired = Becomes(c, w, o.path)
           /\ o = [path |-> o.path, expected |-> o.expected, desired |-> o.desired]
  <2>1. o.path \in Paths
    BY <1>1, <1>0 DEF Differs
  <2>2. o.desired \in Node
    BY <1>1, EntryFacts, AbsentAndDirectory DEF Becomes
  <2>3. o.expected \in Expectation
    BY <1>1, <2>1, Expected
  <2> QED BY <1>1, <2>1, <2>2, <2>3 DEF Operation, Expectation
<1>2. CASE /\ o.path \in obsoleteArtifactDirectories(c, w) /\ o.desired = Absent
           /\ o.expected = [kind |-> "directory", data |-> "none"]
           /\ o = [path |-> o.path, expected |-> o.expected, desired |-> o.desired]
  <2>1. o.path \in Paths
    <3>1. \E p \in Entries(c) : o.path \in Ancestors[p]
      BY <1>2 DEF obsoleteArtifactDirectories
    <3> QED BY <3>1, <1>0, PathTree
  <2>2. o.expected \in Expectation
    BY <1>2 DEF Expectation, Kinds
  <2> QED BY <1>2, <2>1, <2>2, AbsentAndDirectory DEF Operation, Expectation
<1> QED BY <1>1, <1>2, PlanOf

\* The directories that hold a file.
Holding(t) == UNION {Ancestors[p] : p \in Entries(t)}
\* A plan of a restore that passes the check is consistent.
LEMMA RestoreIsConsistent ==
    ASSUME fs \in Worktree, WellFormed(fs), NEW w \in Worktree, WellFormed(w),
           CheckAccepts("restore", RestoreOperations(fs, w))
    PROVE  Consistent(RestoreOperations(fs, w), fs)
<1> DEFINE ops == RestoreOperations(fs, w)
<1>0. ops \subseteq Operation
  BY RestorePlans
<1>1. \A o1, o2 \in ops : o1.path = o2.path => o1 = o2
  BY DEF CheckAccepts
<1>2. ASSUME NEW o \in ops, o.expected.kind = "any_artifact" PROVE fs[o.path].kind = "symlink"
  <2>1. o.path \in Paths
    BY <1>0, OperationFacts
  <2>2. o.expected = frozenExpected(fs, o.path)
    BY <1>2, PlanOf
  <2> QED BY <1>2, <2>1, <2>2, Expected
<1>3. ASSUME NEW o \in ops, o.desired = Absent PROVE fs[o.path] # Absent
  <2>1. CASE Differs(fs, w, o.path) /\ o.desired = Becomes(fs, w, o.path)
    <3>1. o.path \notin Entries(w)
      BY <2>1, <1>3, EntryFacts, AbsentAndDirectory DEF Becomes
    <3>2. o.path \in Entries(fs)
      BY <2>1, <3>1 DEF Differs
    <3> QED BY <3>2, EntryFacts
  <2>2. CASE o.path \in obsoleteArtifactDirectories(fs, w)
    <3>1. PICK p \in Entries(fs) : o.path \in Ancestors[p]
      BY <2>2 DEF obsoleteArtifactDirectories
    <3> QED BY <3>1, EntryFacts, AbsentAndDirectory
  <2> QED BY <2>1, <2>2, PlanOf
<1>4. ASSUME NEW o1 \in ops, NEW o2 \in ops, o1.path \in Ancestors[o2.path], o2.desired # Absent
      PROVE  o1.desired = Directory
  <2>1. Differs(fs, w, o2.path) /\ o2.desired = Becomes(fs, w, o2.path)
    BY <1>4, PlanOf
  <2>2. o2.path \in Entries(w) \/ o2.path \in Blockers(fs, w)
    BY <2>1, <1>4 DEF Becomes
  <2>3. PICK q \in Entries(w) : o1.path \in Ancestors[q]
    <3>1. CASE o2.path \in Entries(w)
      BY <3>1, <1>4
    <3>2. CASE o2.path \in Blockers(fs, w)
      <4>1. PICK q \in Entries(w) : q \in Below(o2.path)
        BY <3>2 DEF Blockers
      <4>2. q \in Paths /\ o2.path \in Ancestors[q]
        BY <4>1 DEF Below
      <4> QED BY <4>1, <4>2, <1>4, PathTree
    <3> QED BY <2>2, <3>1, <3>2
  <2>4. o1.path \notin obsoleteArtifactDirectories(fs, w)
    <3>1. Ancestors[q] \in {Ancestors[p] : p \in Entries(w)}
      BY <2>3
    <3>2. o1.path \in Holding(w)
      BY <2>3, <3>1 DEF Holding
    <3>3. obsoleteArtifactDirectories(fs, w) = Holding(fs) \ Holding(w)
      BY DEF obsoleteArtifactDirectories, Holding
    <3> HIDE DEF Holding
    <3> QED BY <3>2, <3>3
  <2>5. Differs(fs, w, o1.path) /\ o1.desired = Becomes(fs, w, o1.path)
    BY <2>4, PlanOf
  <2>6. o1.path \notin Entries(w)
    BY <2>3, EntryFacts
  <2>7. o1.path \in Entries(fs)
    BY <2>5, <2>6 DEF Differs
  <2>8. q \in Below(o1.path)
    BY <2>3, EntryFacts DEF Below
  <2>9. o1.path \in Blockers(fs, w)
    BY <2>3, <2>6, <2>7, <2>8 DEF Blockers
  <2> QED BY <2>5, <2>9 DEF Becomes
<1> HIDE DEF ops
<1>5. Consistent(ops, fs)
  BY <1>1, <1>2, <1>3, <1>4 DEF Consistent
<1> QED BY <1>5 DEF ops

\* So is a write.
LEMMA WritePlans ==
    ASSUME NEW p \in Paths, NEW t \in Worktree
    PROVE  WriteFileOperations(p) \subseteq Operation /\ Consistent(WriteFileOperations(p), t)
<1>1. \A o \in WriteFileOperations(p) :
        /\ o = [path |-> p, expected |-> [kind |-> "regular_or_absent", data |-> "none"], desired |-> File("new")]
  BY DEF WriteFileOperations
<1>2. File("new") \in Node /\ File("new") # Absent
  BY DEF File, Node, Absent
<1>3. \A o \in WriteFileOperations(p) : o.path = p /\ o.expected.kind = "regular_or_absent" /\ o.desired # Absent
  BY <1>1, <1>2
<1>4. WriteFileOperations(p) \subseteq Operation
  BY <1>1, <1>2 DEF Operation
<1>5. p \notin Ancestors[p]
  BY PathTree
<1>6. \A o1, o2 \in WriteFileOperations(p) : o1 = o2
  BY <1>1
<1> QED BY <1>3, <1>4, <1>5, <1>6 DEF Consistent

\* The helper at rest.
LEMMA NoTransactionFacts ==
    /\ NoTransaction \in Transaction
    /\ NoTransaction.todo = {} /\ NoTransaction.plans = {} /\ NoTransaction.item = {}
    /\ NoTransaction.installed = <<>> /\ NoTransaction.backups = <<>> /\ NoTransaction.created = <<>>
    /\ NoTransaction.at = "idle" /\ NoTransaction.outcome = "none" /\ NoTransaction.residue = FALSE
BY DEF NoTransaction, Transaction, Outcomes

\* A batch that is asked for: refused or committed at once, or about to begin.
LEMMA BoundaryEffect ==
    ASSUME HelperShape, NEW kind \in {"restore", "write"}, NEW ops \in SUBSET Operation, runBoundary(kind, ops),
           CheckAccepts(kind, ops) => Consistent(ops, fs)
    PROVE  /\ fs' = fs /\ batch' = [kind |-> kind, before |-> fs, ops |-> ops] /\ foreign' = {}
           /\ txn' \in Transaction /\ batch' \in Batch
           /\ txn'.plans = {} /\ txn'.item = {}
           /\ txn'.installed = <<>> /\ txn'.backups = <<>> /\ txn'.created = <<>> /\ txn'.residue = FALSE
           /\ \/ txn'.at = "done" /\ txn'.todo = {} /\ (txn'.outcome = "rejected" \/ ops = {})
              \/ /\ txn'.at = "prepare" /\ txn'.todo = ops /\ ops # {} /\ Consistent(ops, fs)
                 /\ txn'.outcome = "none"
<1>1. fs' = fs /\ batch' = [kind |-> kind, before |-> fs, ops |-> ops] /\ foreign' = {}
  BY DEF runBoundary
<1>2. batch' \in Batch
  BY <1>1 DEF Batch, HelperShape
<1> DEFINE started == CheckAccepts(kind, ops)
<1>3. txn' = CASE ops = {} -> [NoTransaction EXCEPT !.at = "done", !.outcome = "committed"]
                [] ~started -> [NoTransaction EXCEPT !.at = "done", !.outcome = "rejected"]
                [] OTHER -> [NoTransaction EXCEPT !.at = "prepare", !.todo = ops]
  BY DEF runBoundary
<1>4. ops = {} => started
  BY DEF CheckAccepts
<1>5. started => Consistent(ops, fs)
  OBVIOUS
<1> HIDE DEF started
<1>6. CASE ops = {}
  <2>1. txn' = [NoTransaction EXCEPT !.at = "done", !.outcome = "committed"]
    BY <1>3, <1>4, <1>6
  <2> QED BY <1>1, <1>2, <1>6, <2>1, NoTransactionFacts DEF Transaction, Outcomes
<1>7. CASE ops # {} /\ ~started
  <2>1. txn' = [NoTransaction EXCEPT !.at = "done", !.outcome = "rejected"]
    BY <1>3, <1>7
  <2> QED BY <1>1, <1>2, <2>1, NoTransactionFacts DEF Transaction, Outcomes
<1>8. CASE ops # {} /\ started
  <2>1. txn' = [NoTransaction EXCEPT !.at = "prepare", !.todo = ops]
    BY <1>3, <1>8
  <2>2. /\ txn' \in Transaction /\ txn'.at = "prepare" /\ txn'.todo = ops
        /\ txn'.plans = {} /\ txn'.item = {} /\ txn'.outcome = "none"
        /\ txn'.installed = <<>> /\ txn'.backups = <<>> /\ txn'.created = <<>> /\ txn'.residue = FALSE
    BY <2>1, NoTransactionFacts DEF Transaction, Going
  <2> QED BY <1>1, <1>2, <1>5, <1>8, <2>2
<1> QED BY <1>6, <1>7, <1>8

\* Every batch is asked for with operations that are consistent once accepted.
LEMMA RequestEffect ==
    ASSUME HelperShape, Restore \/ WriteFile
    PROVE  \E kind \in {"restore", "write"}, ops \in SUBSET Operation :
              runBoundary(kind, ops) /\ (CheckAccepts(kind, ops) => Consistent(ops, fs))
<1>1. fs \in Worktree /\ WellFormed(fs)
  BY DEF HelperShape
<1>2. CASE Restore
  <2>1. PICK w \in Trees : runBoundary("restore", RestoreOperations(fs, w))
    BY <1>2 DEF Restore
  <2>2. w \in Worktree /\ WellFormed(w)
    BY MutationAssumption DEF Worktree
  <2>3. RestoreOperations(fs, w) \in SUBSET Operation
    BY <1>1, <2>2, RestorePlans
  <2>4. CheckAccepts("restore", RestoreOperations(fs, w)) => Consistent(RestoreOperations(fs, w), fs)
    BY <1>1, <2>2, RestoreIsConsistent
  <2> QED BY <2>1, <2>3, <2>4
<1>3. CASE WriteFile
  <2>1. PICK p \in Paths : runBoundary("write", WriteFileOperations(p))
    BY <1>3 DEF WriteFile
  <2> QED BY <1>1, <2>1, WritePlans
<1> QED BY <1>2, <1>3

------------------------------------------------------------------------------
\* The shape is kept by every action.
LEMMA FailedIsSteady ==
    ASSUME NEW t \in Transaction, NEW t2 \in Transaction, NEW b, Steady(t, b), Failed(t, t2), t.at \in Going \cup Undoing
    PROVE  Steady(t2, b)
BY DEF Steady, Failed, Going, Undoing

\* Preparing an item keeps the shape.
LEMMA PrepareShape ==
    ASSUME HelperShape, NEW o \in batch.ops, PrepareItem(o)
    PROVE  HelperShape'
<1>1. /\ txn.at = "prepare" /\ o \in txn.todo /\ batch' = batch /\ foreign' = foreign
      /\ txn' \in Transaction /\ txn'.backups = txn.backups
  BY PrepareEffect
<1>2. fs \in Worktree /\ WellFormed(fs) /\ Steady(txn, batch) /\ txn \in Transaction
  BY DEF HelperShape, Steady
<1>3. CASE fs' = fs /\ Failed(txn, txn')
  <2>1. Steady(txn', batch)
    BY <1>1, <1>2, <1>3, FailedIsSteady DEF Going
  <2> QED BY <1>1, <1>3, <2>1 DEF HelperShape
<1>4. CASE /\ Reachable(o.path, {}) /\ fs' = Filling(fs, o.path)
           /\ txn'.todo = txn.todo \ {o} /\ txn'.plans = txn.plans \cup {o}
           /\ txn'.at \in {"undo installed", "capture", "next", "prepare"}
           /\ txn'.item \in {txn.item, {o}}
  <2>1. fs' \in Worktree /\ WellFormed(fs)'
    BY <1>4, FillingIsWorktree DEF WellFormed
  <2>2. txn'.todo \cup txn'.plans \cup txn'.item \subseteq batch.ops
    BY <1>2, <1>4 DEF Steady
  <2>3. Consistent(batch.ops, batch.before)
    BY <1>1, <1>2 DEF Steady, Going
  <2>4. Steady(txn', batch)
    BY <1>1, <1>2, <1>4, <2>2, <2>3 DEF Steady
  <2> QED BY <1>1, <2>1, <2>4 DEF HelperShape
<1>5. \/ fs' = fs /\ Failed(txn, txn')
      \/ /\ Reachable(o.path, {}) /\ fs' = Filling(fs, o.path)
         /\ txn'.todo = txn.todo \ {o} /\ txn'.plans = txn.plans \cup {o}
         /\ txn'.at \in {"undo installed", "capture", "next", "prepare"}
         /\ txn'.item \in {txn.item, {o}}
  BY PrepareEffect
<1> QED BY <1>3, <1>4, <1>5

\* So does taking up the next,
LEMMA NextShape ==
    ASSUME HelperShape, NEW o \in batch.ops, NextItem(o)
    PROVE  HelperShape'
<1>1. /\ txn.at = "next" /\ o \in txn.plans /\ batch' = batch /\ foreign' = foreign /\ fs' = fs
      /\ txn' \in Transaction /\ txn'.backups = txn.backups
      /\ txn'.at = "capture" /\ txn'.item = {o} /\ txn'.todo = txn.todo /\ txn'.plans = txn.plans
  BY NextEffect, UndosKept
<1>2. Steady(txn, batch)
  BY DEF HelperShape
<1>3. Steady(txn', batch)
  BY <1>1, <1>2 DEF Steady, Going
<1> QED BY <1>1, <1>3 DEF HelperShape, WellFormed

\* capturing what is there,
LEMMA CaptureShape ==
    ASSUME HelperShape, NEW o \in batch.ops, capture_current(o)
    PROVE  HelperShape'
<1>1. /\ txn.at = "capture" /\ batch' = batch /\ foreign' = foreign
      /\ txn' \in Transaction
      /\ txn'.item = txn.item /\ txn'.todo = txn.todo /\ txn'.plans = txn.plans
      /\ txn'.at \in {"place", "undo installed"}
      /\ \/ fs' = fs /\ txn'.backups = txn.backups
         \/ /\ fs[o.path] # Absent /\ fs' = Carving(fs, o.path)
            /\ txn'.backups = Append(txn.backups, Part(fs, o.path))
  BY CaptureEffect
<1>2. fs \in Worktree /\ WellFormed(fs) /\ Steady(txn, batch) /\ txn \in Transaction /\ o.path \in Paths
  BY OperationFacts DEF HelperShape, Steady, Batch
<1>3. Consistent(batch.ops, batch.before)
  BY <1>1, <1>2 DEF Steady, Going
<1>4. CASE fs' = fs /\ txn'.backups = txn.backups
  <2>1. Steady(txn', batch)
    BY <1>1, <1>2, <1>3, <1>4 DEF Steady
  <2> QED BY <1>1, <1>4, <2>1 DEF HelperShape, WellFormed
<1>5. CASE /\ fs[o.path] # Absent /\ fs' = Carving(fs, o.path)
           /\ txn'.backups = Append(txn.backups, Part(fs, o.path))
  <2>1. /\ Carving(fs, o.path) \in Worktree /\ WellFormed(Carving(fs, o.path))
        /\ Part(fs, o.path) \in Backup /\ IsPart(Part(fs, o.path))
    BY <1>2, <1>5, Carved
  <2>2. \A i \in DOMAIN txn'.backups : IsPart(txn'.backups[i])
    <3>1. txn.backups \in Seq(Backup) /\ \A i \in DOMAIN txn.backups : IsPart(txn.backups[i])
      BY <1>2, TransactionFacts DEF Steady
    <3>2. /\ DOMAIN txn'.backups = DOMAIN txn.backups \cup {Len(txn.backups) + 1}
          /\ txn'.backups[Len(txn.backups) + 1] = Part(fs, o.path)
          /\ \A i \in DOMAIN txn.backups : txn'.backups[i] = txn.backups[i]
      BY <1>5, <2>1, <3>1, Appended
    <3> QED BY <2>1, <3>1, <3>2
  <2>3. Steady(txn', batch)
    BY <1>1, <1>2, <1>3, <2>2 DEF Steady
  <2>4. WellFormed(fs)'
    BY <1>5, <2>1 DEF WellFormed
  <2> QED BY <1>1, <1>5, <2>1, <2>3, <2>4 DEF HelperShape
<1> QED BY <1>1, <1>4, <1>5

\* installing,
LEMMA InstallShape ==
    ASSUME HelperShape, NEW o \in batch.ops, install_item(o)
    PROVE  HelperShape'
<1>1. txn.at = "place" /\ batch' = batch /\ foreign' = foreign /\ txn' \in Transaction
  BY InstallEffect
<1>2. /\ fs \in Worktree /\ WellFormed(fs) /\ Steady(txn, batch) /\ txn \in Transaction
      /\ o.path \in Paths /\ o.desired \in Node
  BY OperationFacts DEF HelperShape, Steady, Batch
<1>3. CASE fs' = fs /\ Failed(txn, txn')
  <2>1. Steady(txn', batch)
    BY <1>1, <1>2, <1>3, FailedIsSteady DEF Going
  <2> QED BY <1>1, <1>3, <2>1 DEF HelperShape
<1>4. CASE /\ fs[o.path] = Absent /\ \A q \in Ancestors[o.path] : fs[q] = Directory
           /\ fs' = [fs EXCEPT ![o.path] = o.desired]
           /\ txn'.todo = txn.todo /\ txn'.plans = txn.plans \ {o} /\ txn'.item = {}
           /\ txn'.backups = txn.backups /\ txn'.at \in {"prepare", "next", "commit"}
  <2>1. fs' \in Worktree /\ WellFormed([fs EXCEPT ![o.path] = o.desired])
    BY <1>2, <1>4, Placed
  <2>2. WellFormed(fs)'
    BY <2>1, <1>4 DEF WellFormed
  <2>3. Consistent(batch.ops, batch.before)
    BY <1>1, <1>2 DEF Steady, Going
  <2>4. Steady(txn', batch)
    BY <1>1, <1>2, <1>4, <2>3 DEF Steady
  <2> QED BY <1>1, <2>1, <2>2, <2>4 DEF HelperShape
<1>5. \/ fs' = fs /\ Failed(txn, txn')
      \/ /\ fs[o.path] = Absent /\ \A q \in Ancestors[o.path] : fs[q] = Directory
         /\ fs' = [fs EXCEPT ![o.path] = o.desired]
         /\ txn'.todo = txn.todo /\ txn'.plans = txn.plans \ {o} /\ txn'.item = {}
         /\ txn'.backups = txn.backups /\ txn'.at \in {"prepare", "next", "commit"}
  BY InstallEffect
<1> QED BY <1>3, <1>4, <1>5

\* removing what was installed,
LEMMA UndoInstalledShape ==
    ASSUME HelperShape, UndoInstalled
    PROVE  HelperShape'
<1>1. /\ txn.at = "undo installed" /\ batch' = batch /\ foreign' = foreign
      /\ txn' \in Transaction
      /\ txn'.item = txn.item /\ txn'.todo = txn.todo /\ txn'.plans = txn.plans
      /\ txn'.backups = txn.backups
      /\ \/ txn.installed = <<>> /\ fs' = fs /\ txn'.at = "undo backups" /\ txn'.installed = txn.installed
         \/ /\ txn.installed # <<>> /\ txn'.at = txn.at
            /\ LET p == txn.installed[Len(txn.installed)].path
               IN  \/ fs' = [fs EXCEPT ![p] = Absent] /\ \A q \in Below(p) : fs[q] = Absent
                   \/ fs' = fs
  BY UndoInstalledEffect
<1>2. /\ fs \in Worktree /\ WellFormed(fs) /\ Steady(txn, batch) /\ txn \in Transaction
  BY DEF HelperShape, Steady
<1>3. Consistent(batch.ops, batch.before)
  BY <1>1, <1>2 DEF Steady, Undoing
<1>4. Steady(txn', batch)
  BY <1>1, <1>2, <1>3 DEF Steady
<1>5. CASE fs' = fs
  BY <1>1, <1>4, <1>5 DEF HelperShape, WellFormed
<1>6. CASE fs' # fs
  <2> DEFINE p == txn.installed[Len(txn.installed)].path
  <2>1. txn.installed # <<>> /\ fs' = [fs EXCEPT ![p] = Absent] /\ \A q \in Below(p) : fs[q] = Absent
    BY <1>1, <1>6
  <2>2. p \in Paths
    <3>1. txn.installed \in Seq(Operation)
      BY <1>2, TransactionFacts
    <3>2. txn.installed[Len(txn.installed)] \in Operation
      BY <3>1, <2>1, Popped
    <3> QED BY <3>2, OperationFacts
  <2> HIDE DEF p
  <2>3. [fs EXCEPT ![p] = Absent] \in Worktree /\ WellFormed([fs EXCEPT ![p] = Absent])
    BY <1>2, <2>1, <2>2, Emptied, AbsentAndDirectory
  <2>4. WellFormed(fs)'
    BY <2>1, <2>3 DEF WellFormed
  <2> QED BY <1>1, <1>4, <2>1, <2>3, <2>4 DEF HelperShape
<1> QED BY <1>5, <1>6

\* removing the parents that were made,
LEMMA UndoCreatedShape ==
    ASSUME HelperShape, UndoCreated
    PROVE  HelperShape'
<1>1. /\ txn.at = "undo created" /\ batch' = batch /\ foreign' = foreign
      /\ txn' \in Transaction
      /\ txn'.item = txn.item /\ txn'.todo = txn.todo /\ txn'.plans = txn.plans
      /\ txn'.backups = txn.backups /\ txn'.installed = txn.installed
      /\ \/ txn.created = <<>> /\ fs' = fs /\ txn'.at = "done"
         \/ /\ txn.created # <<>> /\ txn'.at = txn.at
            /\ LET p == txn.created[Len(txn.created)]
               IN  \/ fs' = [fs EXCEPT ![p] = Absent] /\ \A q \in Below(p) : fs[q] = Absent
                   \/ fs' = fs
  BY UndoCreatedEffect
<1>2. /\ fs \in Worktree /\ WellFormed(fs) /\ Steady(txn, batch) /\ txn \in Transaction
  BY DEF HelperShape, Steady
<1>3. Consistent(batch.ops, batch.before) /\ txn.installed = <<>> /\ txn.backups = <<>>
  BY <1>1, <1>2 DEF Steady, Undoing
<1>4. Steady(txn', batch)
  BY <1>1, <1>2, <1>3 DEF Steady
<1>5. CASE fs' = fs
  BY <1>1, <1>4, <1>5 DEF HelperShape, WellFormed
<1>6. CASE fs' # fs
  <2> DEFINE p == txn.created[Len(txn.created)]
  <2>1. txn.created # <<>> /\ fs' = [fs EXCEPT ![p] = Absent] /\ \A q \in Below(p) : fs[q] = Absent
    BY <1>1, <1>6
  <2>2. p \in Paths
    <3>1. txn.created \in Seq(Paths)
      BY <1>2, TransactionFacts
    <3> QED BY <3>1, <2>1, Popped
  <2> HIDE DEF p
  <2>3. [fs EXCEPT ![p] = Absent] \in Worktree /\ WellFormed([fs EXCEPT ![p] = Absent])
    BY <1>2, <2>1, <2>2, Emptied, AbsentAndDirectory
  <2>4. WellFormed(fs)'
    BY <2>1, <2>3 DEF WellFormed
  <2> QED BY <1>1, <1>4, <2>1, <2>3, <2>4 DEF HelperShape
<1> QED BY <1>5, <1>6

\* putting back what was taken,
LEMMA UndoBackupShape ==
    ASSUME HelperShape, UndoBackup
    PROVE  HelperShape'
<1> DEFINE b == txn.backups[Len(txn.backups)]
           tree == [q \in Paths |-> IF q \in DOMAIN b.nodes THEN b.nodes[q] ELSE fs[q]]
<1>1. /\ txn.at = "undo backups" /\ batch' = batch /\ foreign' = foreign
      /\ txn' \in Transaction
      /\ txn'.item = txn.item /\ txn'.todo = txn.todo /\ txn'.plans = txn.plans
      /\ txn'.installed = txn.installed
      /\ \/ txn.backups = <<>> /\ fs' = fs /\ txn'.at = "undo created" /\ txn'.backups = txn.backups
         \/ /\ txn.backups # <<>> /\ txn'.at = txn.at /\ txn'.backups = PopLast(txn.backups)
            /\ \/ fs[b.path] = Absent /\ (\A q \in Ancestors[b.path] : fs[q] = Directory) /\ fs' = tree
               \/ fs' = fs
  BY UndoBackupEffect
<1>2. /\ fs \in Worktree /\ WellFormed(fs) /\ Steady(txn, batch) /\ txn \in Transaction
  BY DEF HelperShape, Steady
<1>3. Consistent(batch.ops, batch.before) /\ txn.installed = <<>> /\ \A i \in DOMAIN txn.backups : IsPart(txn.backups[i])
  BY <1>1, <1>2 DEF Steady, Undoing
<1>4. ASSUME txn.backups # <<>>
      PROVE  /\ Len(txn.backups) \in DOMAIN txn.backups /\ b \in Backup
             /\ DOMAIN PopLast(txn.backups) = DOMAIN txn.backups \ {Len(txn.backups)}
             /\ \A i \in DOMAIN txn.backups \ {Len(txn.backups)} : PopLast(txn.backups)[i] = txn.backups[i]
  <2>1. txn.backups \in Seq(Backup)
    BY <1>2, TransactionFacts
  <2> QED BY <2>1, <1>4, Popped
<1> HIDE DEF b, tree
<1>5. \A i \in DOMAIN txn'.backups : IsPart(txn'.backups[i])
  BY <1>1, <1>3, <1>4
<1>6. Steady(txn', batch)
  <2>1. txn'.at = "undo created" => txn'.backups = <<>>
    BY <1>1
  <2> QED BY <1>1, <1>2, <1>3, <1>5, <2>1 DEF Steady
<1>7. CASE fs' = fs
  BY <1>1, <1>6, <1>7 DEF HelperShape, WellFormed
<1>8. CASE fs' # fs
  <2>1. txn.backups # <<>> /\ fs[b.path] = Absent /\ (\A q \in Ancestors[b.path] : fs[q] = Directory) /\ fs' = tree
    BY <1>1, <1>8
  <2>2. b \in Backup /\ IsPart(b)
    BY <1>3, <1>4, <2>1 DEF b
  <2>3. tree \in Worktree /\ WellFormed(tree)
    BY <1>2, <2>1, <2>2, PutBack DEF tree
  <2>4. WellFormed(fs)'
    BY <2>1, <2>3 DEF WellFormed
  <2> QED BY <1>1, <1>6, <2>1, <2>3, <2>4 DEF HelperShape
<1> QED BY <1>7, <1>8

\* a new batch,
LEMMA RequestShape ==
    ASSUME HelperShape, Restore \/ WriteFile
    PROVE  HelperShape'
<1>1. PICK kind \in {"restore", "write"}, ops \in SUBSET Operation :
        runBoundary(kind, ops) /\ (CheckAccepts(kind, ops) => Consistent(ops, fs))
  BY RequestEffect
<1>2. /\ fs' = fs /\ batch' = [kind |-> kind, before |-> fs, ops |-> ops] /\ foreign' = {}
      /\ txn' \in Transaction /\ batch' \in Batch
      /\ txn'.plans = {} /\ txn'.item = {}
      /\ txn'.installed = <<>> /\ txn'.backups = <<>>
      /\ \/ txn'.at = "done" /\ txn'.todo = {}
         \/ txn'.at = "prepare" /\ txn'.todo = ops /\ Consistent(ops, fs)
  BY <1>1, BoundaryEffect
<1>3. batch'.ops = ops /\ batch'.before = fs
  BY <1>2
<1>4. DOMAIN txn'.backups = {}
  BY <1>2
<1>5. txn'.todo \cup txn'.plans \cup txn'.item \subseteq ops
  BY <1>2
<1>6. txn'.at \in Going \cup Undoing => Consistent(ops, fs)
  BY <1>2 DEF Going, Undoing
<1>7. Steady(txn', batch')
  BY <1>2, <1>3, <1>4, <1>5, <1>6 DEF Steady
<1> QED BY <1>2, <1>3, <1>7 DEF HelperShape, WellFormed

\* the end of one, and what another process writes.
LEMMA OtherShape ==
    ASSUME HelperShape, Committed \/ Fails \/ Killed \/ \E p \in Paths : ForeignWrite(p)
    PROVE  HelperShape'
<1>0. /\ fs \in Worktree /\ WellFormed(fs) /\ Steady(txn, batch) /\ txn \in Transaction
  BY DEF HelperShape, Steady
<1>1. CASE Committed
  <2>1. /\ fs' = fs /\ batch' = batch /\ foreign' = foreign
        /\ txn' = [NoTransaction EXCEPT !.at = "done", !.outcome = "committed"]
    BY <1>1 DEF Committed, Keep
  <2>2. /\ txn' \in Transaction /\ txn'.at = "done" /\ txn'.backups = <<>> /\ txn'.installed = <<>>
        /\ txn'.todo = {} /\ txn'.plans = {} /\ txn'.item = {}
    BY <2>1, NoTransactionFacts DEF Transaction, Outcomes
  <2>3. DOMAIN txn'.backups = {}
    BY <2>2
  <2>4. Steady(txn', batch)
    BY <2>2, <2>3 DEF Steady, Going, Undoing
  <2> QED BY <2>1, <2>4 DEF HelperShape, WellFormed
<1>2. CASE Fails
  <2>1. /\ fs' = fs /\ batch' = batch /\ foreign' = foreign /\ txn.at \in Going
        /\ txn' = [txn EXCEPT !.at = "undo installed"]
    BY <1>2 DEF Fails, Fail, Keep, Going
  <2>2. Steady(txn', batch)
    BY <2>1, <1>0, FailEffect, FailedIsSteady
  <2> QED BY <2>1, <2>2 DEF HelperShape, WellFormed
<1>3. CASE Killed
  <2>1. /\ fs' = fs /\ batch' = batch /\ foreign' = foreign
        /\ txn' = [txn EXCEPT !.at = "done", !.outcome = "timed_out"]
    BY <1>3 DEF Killed, Keep
  <2>2. /\ txn' \in Transaction /\ txn'.at = "done" /\ txn'.backups = txn.backups
        /\ txn'.todo = txn.todo /\ txn'.plans = txn.plans /\ txn'.item = txn.item
    BY <2>1, <1>0 DEF Transaction, Outcomes
  <2>3. Steady(txn', batch)
    BY <2>2, <1>0 DEF Steady, Going, Undoing
  <2> QED BY <2>1, <2>3 DEF HelperShape, WellFormed
<1>4. ASSUME NEW p \in Paths, ForeignWrite(p) PROVE HelperShape'
  <2>1. /\ batch' = batch /\ txn' = txn /\ foreign' = foreign \cup {p}
        /\ \A q \in Ancestors[p] : fs[q] = Directory
        /\ \/ fs[p].kind \in {"absent", "regular"} /\ fs' = [fs EXCEPT ![p] = File("theirs")]
           \/ fs[p].kind = "regular" /\ fs' = [fs EXCEPT ![p] = Absent]
    BY <1>4 DEF ForeignWrite
  <2>2. \A q \in Below(p) : fs[q] = Absent
    <3> SUFFICES ASSUME NEW q \in Below(p), fs[q] # Absent PROVE FALSE
      OBVIOUS
    <3>1. fs[p] = Directory
      BY <1>0 DEF Below, WellFormed
    <3> QED BY <3>1, <2>1, AbsentAndDirectory
  <2>3. File("theirs") \in Node
    BY DEF File, Node
  <2>4. PICK n \in Node : fs' = [fs EXCEPT ![p] = n]
    BY <2>1, <2>3, AbsentAndDirectory
  <2>5. [fs EXCEPT ![p] = n] \in Worktree /\ WellFormed([fs EXCEPT ![p] = n])
    BY <1>0, <2>1, <2>2, Emptied
  <2>6. WellFormed(fs)'
    BY <2>4, <2>5 DEF WellFormed
  <2>7. foreign' \subseteq Paths
    BY <2>1 DEF HelperShape
  <2> QED BY <2>1, <2>4, <2>5, <2>6, <2>7, <1>0 DEF HelperShape
<1> QED BY <1>1, <1>2, <1>3, <1>4

\* The shape is inductive.
LEMMA HelperShapeStep ==
    ASSUME HelperShape, [MutationNext]_mutationVars
    PROVE  HelperShape'
<1>1. CASE \E o \in batch.ops : PrepareItem(o) \/ NextItem(o) \/ capture_current(o) \/ install_item(o)
  BY <1>1, PrepareShape, NextShape, CaptureShape, InstallShape
<1>2. CASE UNCHANGED mutationVars
  BY <1>2 DEF mutationVars, HelperShape, WellFormed, Steady
<1> QED BY <1>1, <1>2, UndoInstalledShape, UndoBackupShape, UndoCreatedShape, RequestShape, OtherShape DEF MutationNext

------------------------------------------------------------------------------
\* What the undo lists stand for, when they grow, shrink and stay.
LEMMA TakenMore ==
    ASSUME NEW t, NEW t2, NEW b \in Backup, t.backups \in Seq(Backup), t2.backups = Append(t.backups, b)
    PROVE  /\ TakenBy(t2) = TakenBy(t) \cup DOMAIN b.nodes
           /\ \A i \in DOMAIN t2.backups : t2.backups[i] = b \/ (i \in DOMAIN t.backups /\ t2.backups[i] = t.backups[i])
           /\ \A i, j \in DOMAIN t2.backups :
                i # j => i \in DOMAIN t.backups \/ j \in DOMAIN t.backups
<1>1. /\ DOMAIN t2.backups = DOMAIN t.backups \cup {Len(t.backups) + 1}
      /\ t2.backups[Len(t.backups) + 1] = b
      /\ \A i \in DOMAIN t.backups : t2.backups[i] = t.backups[i]
  BY Appended
<1>2. \A x : x \in TakenBy(t2) <=> \E i \in DOMAIN t2.backups : x \in DOMAIN t2.backups[i].nodes
  BY DEF TakenBy
<1>3. \A x : x \in TakenBy(t) <=> \E i \in DOMAIN t.backups : x \in DOMAIN t.backups[i].nodes
  BY DEF TakenBy
<1>4. \A x : x \in TakenBy(t2) <=> x \in TakenBy(t) \/ x \in DOMAIN b.nodes
  BY <1>1, <1>2, <1>3
<1> QED BY <1>1, <1>4

\* The last object that was taken is put back.
LEMMA TakenLess ==
    ASSUME NEW t, NEW t2, t.backups \in Seq(Backup), t.backups # <<>>, t2.backups = PopLast(t.backups)
    PROVE  LET b == t.backups[Len(t.backups)]
           IN  /\ TakenBy(t) = TakenBy(t2) \cup DOMAIN b.nodes
               /\ Len(t.backups) \in DOMAIN t.backups /\ b \in Backup
               /\ DOMAIN t2.backups = DOMAIN t.backups \ {Len(t.backups)}
               /\ \A i \in DOMAIN t2.backups : t2.backups[i] = t.backups[i]
<1>1. /\ Len(t.backups) \in DOMAIN t.backups /\ t.backups[Len(t.backups)] \in Backup
      /\ DOMAIN t2.backups = DOMAIN t.backups \ {Len(t.backups)}
      /\ \A i \in DOMAIN t2.backups : t2.backups[i] = t.backups[i]
  <2> DEFINE s == t.backups
  <2>1. s \in Seq(Backup) /\ s # <<>>
    OBVIOUS
  <2> HIDE DEF s
  <2>2. /\ Len(s) \in DOMAIN s /\ s[Len(s)] \in Backup /\ DOMAIN PopLast(s) = DOMAIN s \ {Len(s)}
        /\ \A i \in DOMAIN PopLast(s) : PopLast(s)[i] = s[i]
    BY <2>1, Popped
  <2> QED BY <2>2 DEF s
<1>2. \A x : x \in TakenBy(t2) <=> \E i \in DOMAIN t2.backups : x \in DOMAIN t2.backups[i].nodes
  BY DEF TakenBy
<1>3. \A x : x \in TakenBy(t) <=> \E i \in DOMAIN t.backups : x \in DOMAIN t.backups[i].nodes
  BY DEF TakenBy
<1>4. \A x : x \in TakenBy(t) <=> x \in TakenBy(t2) \/ x \in DOMAIN t.backups[Len(t.backups)].nodes
  BY <1>1, <1>2, <1>3
<1> QED BY <1>1, <1>4

\* One item more is installed.
LEMMA InstalledMore ==
    ASSUME NEW t, NEW t2, NEW o \in Operation, t.installed \in Seq(Operation), t2.installed = Append(t.installed, o)
    PROVE  InstalledBy(t2) = InstalledBy(t) \cup {o.path}
<1>1. /\ DOMAIN t2.installed = DOMAIN t.installed \cup {Len(t.installed) + 1}
      /\ t2.installed[Len(t.installed) + 1] = o
      /\ \A i \in DOMAIN t.installed : t2.installed[i] = t.installed[i]
  BY Appended
<1> QED BY <1>1 DEF InstalledBy

\* The last item that was installed is gone.
LEMMA InstalledLess ==
    ASSUME NEW t, NEW t2, t.installed \in Seq(Operation), t.installed # <<>>, t2.installed = PopLast(t.installed)
    PROVE  /\ InstalledBy(t) = InstalledBy(t2) \cup {t.installed[Len(t.installed)].path}
           /\ t.installed[Len(t.installed)] \in Operation
<1>1. /\ Len(t.installed) \in DOMAIN t.installed /\ t.installed[Len(t.installed)] \in Operation
      /\ DOMAIN t2.installed = DOMAIN t.installed \ {Len(t.installed)}
      /\ \A i \in DOMAIN t2.installed : t2.installed[i] = t.installed[i]
  <2> DEFINE s == t.installed
  <2>1. s \in Seq(Operation) /\ s # <<>>
    OBVIOUS
  <2> HIDE DEF s
  <2>2. /\ Len(s) \in DOMAIN s /\ s[Len(s)] \in Operation /\ DOMAIN PopLast(s) = DOMAIN s \ {Len(s)}
        /\ \A i \in DOMAIN PopLast(s) : PopLast(s)[i] = s[i]
    BY <2>1, Popped
  <2> QED BY <2>2 DEF s
<1> QED BY <1>1 DEF InstalledBy

\* The last parent that was made is gone.
LEMMA MadeLess ==
    ASSUME NEW t, NEW t2, t.created \in Seq(Paths), t.created # <<>>, t2.created = PopLast(t.created)
    PROVE  /\ MadeBy(t) = MadeBy(t2) \cup {t.created[Len(t.created)]}
           /\ t.created[Len(t.created)] \in Paths
<1>1. /\ Len(t.created) \in DOMAIN t.created /\ t.created[Len(t.created)] \in Paths
      /\ DOMAIN t2.created = DOMAIN t.created \ {Len(t.created)}
      /\ \A i \in DOMAIN t2.created : t2.created[i] = t.created[i]
  <2> DEFINE s == t.created
  <2>1. s \in Seq(Paths) /\ s # <<>>
    OBVIOUS
  <2> HIDE DEF s
  <2>2. /\ Len(s) \in DOMAIN s /\ s[Len(s)] \in Paths /\ DOMAIN PopLast(s) = DOMAIN s \ {Len(s)}
        /\ \A i \in DOMAIN PopLast(s) : PopLast(s)[i] = s[i]
    BY <2>1, Popped
  <2> QED BY <2>2 DEF s
<1> QED BY <1>1 DEF MadeBy, Elements

\* Undoing depends on the undo lists only.
LEMMA UndoableKept ==
    ASSUME NEW t, NEW t2, NEW w, NEW before, Undoable(t, w, before),
           t2.installed = t.installed, t2.backups = t.backups, t2.created = t.created
    PROVE  Undoable(t2, w, before)
<1>1. TakenBy(t2) = TakenBy(t) /\ InstalledBy(t2) = InstalledBy(t) /\ MadeBy(t2) = MadeBy(t)
  BY DEF TakenBy, InstalledBy, MadeBy
<1> QED BY <1>1 DEF Undoable

------------------------------------------------------------------------------
\* A parent that is missing was never there, and nothing of the batch is about it.
LEMMA MissingIsNew ==
    ASSUME HelperShape, Undisturbed, txn.at = "prepare", NEW o \in txn.todo,
           NEW q \in Missing(fs, o.path)
    PROVE  /\ q \in Paths /\ q \notin TakenBy(txn) /\ q \notin InstalledBy(txn) /\ q \notin MadeBy(txn)
           /\ \A f \in Through(batch.ops, txn) : f.path # q
           /\ batch.before[q] = Absent /\ o.desired # Absent
<1>1. /\ InOrder(batch.ops, txn) /\ InPlace(batch.ops, txn, fs) /\ Undoable(txn, fs, batch.before)
      /\ Consistent(batch.ops, batch.before)
      /\ WellFormed(batch.before) /\ batch.ops \subseteq Operation /\ o \in batch.ops
  BY DEF Undisturbed, Going, HelperShape, Steady, Batch
<1>2. o \in Operation /\ o.path \in Paths /\ q \in Ancestors[o.path] /\ fs[q] = Absent
  BY <1>1, OperationFacts DEF Missing
<1>3. q \in Paths
  BY <1>2, PathTree
<1>4. \A f \in Through(batch.ops, txn) : f.path # q
  <2> SUFFICES ASSUME NEW f \in Through(batch.ops, txn), f.path = q PROVE FALSE
    OBVIOUS
  <2>1. f \in Operation /\ ~Before(o, f)
    BY <1>1 DEF InOrder, Through
  <2>2. f.desired = Absent
    BY <1>1, <1>2 DEF InPlace
  <2> QED BY <1>2, <2>1, <2>2, RemovedLast
<1>5. q \notin TakenBy(txn) /\ q \notin InstalledBy(txn)
  BY <1>1, <1>4 DEF InPlace
<1>6. q \notin MadeBy(txn)
  BY <1>1, <1>2, AbsentAndDirectory DEF InPlace
<1>7. batch.before[q] = Absent
  BY <1>1, <1>2, <1>3, <1>5, <1>6 DEF Undoable
<1>8. o.desired # Absent
  BY <1>1, <1>2, <1>7, AbsentAndDirectory DEF Consistent, WellFormed
<1> QED BY <1>3, <1>4, <1>5, <1>6, <1>7, <1>8

\* With the parents of an item made, everything can still be undone,
LEMMA PrepareUndoable ==
    ASSUME HelperShape, Undisturbed, txn.at = "prepare", NEW o \in txn.todo,
           NEW t2, t2.installed = txn.installed, t2.backups = txn.backups,
           MadeBy(t2) = MadeBy(txn) \cup Missing(fs, o.path)
    PROVE  Undoable(t2, Filling(fs, o.path), batch.before)
<1>1. Undoable(txn, fs, batch.before)
  BY DEF Undisturbed, Going
<1>2. TakenBy(t2) = TakenBy(txn) /\ InstalledBy(t2) = InstalledBy(txn)
  BY DEF TakenBy, InstalledBy
<1>3. \A p \in Paths \ Missing(fs, o.path) : Filling(fs, o.path)[p] = fs[p]
  BY DEF Filling
<1>4. \A p \in Paths \ (TakenBy(t2) \cup InstalledBy(t2) \cup MadeBy(t2)) : Filling(fs, o.path)[p] = batch.before[p]
  BY <1>1, <1>2, <1>3 DEF Undoable
<1>5. \A p \in (InstalledBy(t2) \cup MadeBy(t2)) \ TakenBy(t2) : batch.before[p] = Absent
  BY <1>1, <1>2, MissingIsNew DEF Undoable
<1>6. TakenBy(t2) \cap MadeBy(t2) = {}
  BY <1>1, <1>2, MissingIsNew DEF Undoable
<1> QED BY <1>1, <1>4, <1>5, <1>6 DEF Undoable

\* and what is through is still in place.
LEMMA PrepareInPlace ==
    ASSUME HelperShape, Undisturbed, txn.at = "prepare", NEW o \in txn.todo,
           NEW t2, t2.installed = txn.installed, t2.backups = txn.backups,
           t2.todo = txn.todo \ {o}, t2.plans = txn.plans \cup {o}, t2.at # "place",
           MadeBy(t2) = MadeBy(txn) \cup Missing(fs, o.path)
    PROVE  InPlace(batch.ops, t2, Filling(fs, o.path)) /\ Through(batch.ops, t2) = Through(batch.ops, txn)
<1>1. InPlace(batch.ops, txn, fs) /\ batch.ops \subseteq Operation /\ o \in batch.ops /\ o \in Operation
  BY DEF Undisturbed, Going, HelperShape, Steady, Batch
<1>2. TakenBy(t2) = TakenBy(txn) /\ InstalledBy(t2) = InstalledBy(txn)
  BY DEF TakenBy, InstalledBy
<1>3. Through(batch.ops, t2) = Through(batch.ops, txn)
  BY DEF Through
<1>4. ASSUME NEW f \in Through(batch.ops, txn) PROVE Filling(fs, o.path)[f.path] = f.desired
  <2>1. f.path \in Paths /\ f.path \notin Missing(fs, o.path)
    BY <1>1, MissingIsNew, OperationFacts DEF Through
  <2> QED BY <2>1, <1>1, <1>4 DEF InPlace, Filling
<1>5. ASSUME NEW q \in MadeBy(t2)
      PROVE  Filling(fs, o.path)[q] = Directory /\ \E x \in batch.ops \ t2.todo : q \in Ancestors[x.path] /\ x.desired # Absent
  <2>1. CASE q \in Missing(fs, o.path)
    <3>1. q \in Paths /\ o.desired # Absent /\ q \in Ancestors[o.path]
      BY <2>1, MissingIsNew DEF Missing
    <3> QED BY <3>1, <2>1, <1>1 DEF Filling
  <2>2. CASE q \in MadeBy(txn)
    <3>1. fs[q] = Directory
      BY <2>2, <1>1 DEF InPlace
    <3>2. PICK x \in batch.ops \ txn.todo : q \in Ancestors[x.path] /\ x.desired # Absent
      BY <2>2, <1>1 DEF InPlace
    <3>3. q \in Paths
      BY <3>2, <1>1, OperationFacts, PathTree
    <3>4. Filling(fs, o.path)[q] = Directory
      BY <3>1, <3>3 DEF Filling
    <3> QED BY <3>2, <3>4
  <2> QED BY <1>5, <2>1, <2>2
<1>6. /\ \A p \in TakenBy(t2) : \E f \in Through(batch.ops, t2) : f.path = p
      /\ \A p \in InstalledBy(t2) : \E f \in Through(batch.ops, t2) : f.path = p /\ f.desired # Absent
  BY <1>1, <1>2, <1>3 DEF InPlace
<1> QED BY <1>3, <1>4, <1>5, <1>6 DEF InPlace

\* Preparing an item keeps the invariant of an undisturbed batch.
LEMMA PrepareUndisturbed ==
    ASSUME HelperShape, Undisturbed, NEW o \in batch.ops, PrepareItem(o)
    PROVE  Undisturbed'
<1>1. /\ txn.at = "prepare" /\ o \in txn.todo /\ \A other \in txn.todo : ~Before(other, o)
      /\ batch' = batch
      /\ txn'.installed = txn.installed /\ txn'.backups = txn.backups /\ txn'.residue = txn.residue
  BY PrepareEffect
<1>2. /\ InOrder(batch.ops, txn) /\ InPlace(batch.ops, txn, fs) /\ Undoable(txn, fs, batch.before) /\ ~txn.residue
      /\ txn.todo \subseteq batch.ops /\ txn.plans \subseteq batch.ops
  BY <1>1 DEF Undisturbed, Going, HelperShape, Steady
<1>3. CASE fs' = fs /\ Failed(txn, txn')
  <2>1. Undoable(txn', fs, batch.before)
    BY <1>2, <1>3, UndoableKept DEF Failed
  <2>2. txn'.at = "undo installed"
    BY <1>3 DEF Failed
  <2> QED BY <1>1, <1>3, <2>1, <2>2 DEF Undisturbed, Going
<1>4. CASE /\ fs' = Filling(fs, o.path)
           /\ MadeBy(txn') = MadeBy(txn) \cup Missing(fs, o.path)
           /\ txn'.todo = txn.todo \ {o} /\ txn'.plans = txn.plans \cup {o}
           /\ \/ txn'.at = "undo installed"
              \/ PlannedDirectories(batch.ops) # {} /\ txn'.at = "capture" /\ txn'.item = {o}
              \/ /\ PlannedDirectories(batch.ops) = {}
                 /\ txn'.at = IF txn.todo = {o} THEN "next" ELSE "prepare"
  <2>1. Undoable(txn', fs', batch.before)
    BY <1>1, <1>4, PrepareUndoable
  <2>2. CASE txn'.at = "undo installed"
    BY <1>1, <2>1, <2>2 DEF Undisturbed, Going
  <2>3. CASE txn'.at # "undo installed"
    <3>1. txn'.at \in {"capture", "next", "prepare"}
      BY <1>4, <2>3
    <3>2. InPlace(batch.ops, txn', fs') /\ Through(batch.ops, txn') = Through(batch.ops, txn)
      BY <1>1, <1>4, <3>1, PrepareInPlace
    <3>3. /\ \A f \in Through(batch.ops, txn'), x \in txn'.todo \cup txn'.plans : ~Before(x, f)
          /\ txn'.todo \cap txn'.plans = {}
      BY <1>1, <1>2, <1>4, <3>2 DEF InOrder
    <3>4. CASE PlannedDirectories(batch.ops) # {}
      <4>1. txn'.at = "capture" /\ txn'.item = {o} /\ txn'.plans = {o}
        BY <1>1, <1>2, <1>4, <2>3, <3>4 DEF InOrder
      <4>2. \A other \in txn'.todo \cup txn'.plans : ~Before(other, o)
        BY <1>1, <1>4, <4>1
      <4>3. InOrder(batch.ops, txn')
        BY <3>3, <3>4, <4>1, <4>2 DEF InOrder
      <4> QED BY <1>1, <1>2, <2>1, <3>2, <4>3 DEF Undisturbed
    <3>5. CASE PlannedDirectories(batch.ops) = {}
      <4>1. Through(batch.ops, txn) = {}
        BY <1>1, <1>2, <3>5 DEF InOrder
      <4>2. \/ txn'.at = "next" /\ txn'.todo = {}
            \/ txn'.at = "prepare" /\ txn'.todo # {}
        BY <1>1, <1>4, <2>3, <3>5
      <4>3. InOrder(batch.ops, txn')
        BY <3>2, <3>3, <3>5, <4>1, <4>2 DEF InOrder
      <4> QED BY <1>1, <1>2, <2>1, <3>2, <4>3 DEF Undisturbed
    <3> QED BY <3>4, <3>5
  <2> QED BY <2>2, <2>3
<1> QED BY <1>3, <1>4, PrepareEffect

\* So does taking up the next one.
LEMMA NextUndisturbed ==
    ASSUME HelperShape, Undisturbed, NEW o \in batch.ops, NextItem(o)
    PROVE  Undisturbed'
<1>1. /\ txn.at = "next" /\ o \in txn.plans /\ \A other \in txn.plans : ~Before(other, o)
      /\ batch' = batch /\ fs' = fs
      /\ txn'.at = "capture" /\ txn'.item = {o} /\ txn'.todo = txn.todo /\ txn'.plans = txn.plans
      /\ txn'.installed = txn.installed /\ txn'.backups = txn.backups /\ txn'.created = txn.created
      /\ txn'.residue = txn.residue
  BY NextEffect, UndosKept
<1>2. InOrder(batch.ops, txn) /\ InPlace(batch.ops, txn, fs) /\ Undoable(txn, fs, batch.before) /\ ~txn.residue
  BY <1>1 DEF Undisturbed, Going
<1>3. Undoable(txn', fs, batch.before)
  BY <1>1, <1>2, UndoableKept
<1>4. /\ Through(batch.ops, txn') = Through(batch.ops, txn)
      /\ TakenBy(txn') = TakenBy(txn) /\ InstalledBy(txn') = InstalledBy(txn) /\ MadeBy(txn') = MadeBy(txn)
  BY <1>1 DEF Through, TakenBy, InstalledBy, MadeBy
<1>5. InPlace(batch.ops, txn', fs)
  BY <1>1, <1>2, <1>4 DEF InPlace
<1>6. InOrder(batch.ops, txn')
  <2>1. txn.todo = {} /\ PlannedDirectories(batch.ops) = {}
    BY <1>1, <1>2 DEF InOrder
  <2>2. \A other \in txn'.todo \cup txn'.plans : ~Before(other, o)
    BY <1>1, <2>1
  <2>3. /\ \A f \in Through(batch.ops, txn'), x \in txn'.todo \cup txn'.plans : ~Before(x, f)
        /\ txn'.todo \cap txn'.plans = {}
    BY <1>1, <1>2, <1>4 DEF InOrder
  <2> QED BY <1>1, <2>1, <2>2, <2>3 DEF InOrder
<1> QED BY <1>1, <1>2, <1>3, <1>5, <1>6 DEF Undisturbed

\* What is taken with the path of an item is of no other: nothing that is through lies there.
LEMMA TakenIsNew ==
    ASSUME HelperShape, Undisturbed, txn.at = "capture", NEW o \in txn.item, fs[o.path] # Absent,
           NEW q \in Taking(fs, o.path)
    PROVE  /\ q \in Paths /\ q \notin TakenBy(txn) /\ q \notin InstalledBy(txn) /\ q \notin MadeBy(txn)
           /\ \A f \in Through(batch.ops, txn) : f.path # q
           /\ fs[q] = batch.before[q]
<1>1. /\ InOrder(batch.ops, txn) /\ InPlace(batch.ops, txn, fs) /\ Undoable(txn, fs, batch.before)
      /\ Consistent(batch.ops, batch.before) /\ batch.ops \subseteq Operation /\ o \in batch.ops
      /\ fs \in Worktree /\ WellFormed(fs) /\ txn.plans \subseteq batch.ops
  BY DEF Undisturbed, Going, HelperShape, Steady, Batch
<1>2. o \in Operation /\ o.path \in Paths
  BY <1>1, OperationFacts
<1>3. q \in Paths /\ fs[q] # Absent
  BY <1>1, <1>2, Carved
<1>4. /\ txn.item = {o} /\ o \in txn.plans
      /\ IF PlannedDirectories(batch.ops) # {} THEN txn.plans = {o} ELSE txn.todo = {}
  BY <1>1 DEF InOrder
<1>5. q = o.path \/ o.path \in Ancestors[q]
  BY DEF Taking, Below
<1>6. ASSUME NEW f \in Through(batch.ops, txn), f.desired # Absent, o.path \in Ancestors[f.path]
      PROVE  FALSE
  <2>1. f \in batch.ops /\ f \in Operation /\ ~Before(o, f)
    BY <1>1, <1>4 DEF InOrder, Through
  <2>2. o.desired = Directory
    BY <1>1, <1>6, <2>1 DEF Consistent
  <2> QED BY <1>2, <1>6, <2>1, <2>2, Order
<1>7. \A f \in Through(batch.ops, txn) : f.path # q
  <2> SUFFICES ASSUME NEW f \in Through(batch.ops, txn), f.path = q PROVE FALSE
    OBVIOUS
  <2>1. f.desired # Absent
    BY <1>1, <1>3 DEF InPlace
  <2>2. f # o /\ f \in batch.ops
    BY <1>4 DEF Through
  <2>3. f.path # o.path
    BY <1>1, <2>2 DEF Consistent
  <2> QED BY <1>5, <1>6, <2>1, <2>3
<1>8. q \notin TakenBy(txn) /\ q \notin InstalledBy(txn)
  BY <1>1, <1>7 DEF InPlace
<1>9. q \notin MadeBy(txn)
  <2> SUFFICES ASSUME q \in MadeBy(txn) PROVE FALSE
    OBVIOUS
  <2>1. PICK x \in batch.ops \ txn.todo : q \in Ancestors[x.path] /\ x.desired # Absent
    BY <1>1 DEF InPlace
  <2>2. x \in Operation /\ x.path \in Paths
    BY <1>1, <2>1, OperationFacts
  <2>3. o.path \in Ancestors[x.path]
    BY <1>5, <2>1, <2>2, PathTree
  <2>4. x \notin Through(batch.ops, txn)
    BY <1>6, <2>1, <2>3
  <2>5. x \in txn.plans
    BY <2>1, <2>4 DEF Through
  <2>6. o.desired = Directory
    BY <1>1, <2>1, <2>3 DEF Consistent
  <2>7. PlannedDirectories(batch.ops) # {}
    BY <1>1, <2>6 DEF PlannedDirectories
  <2>8. x = o
    BY <1>4, <2>5, <2>7
  <2> QED BY <1>2, <2>3, <2>8, PathTree
<1>10. fs[q] = batch.before[q]
  BY <1>1, <1>3, <1>8, <1>9 DEF Undoable
<1> QED BY <1>3, <1>7, <1>8, <1>9, <1>10

\* An item that fits has nothing below it: it is an object of its own.
LEMMA FitsAlone ==
    ASSUME HelperShape, Undisturbed, txn.at = "capture", NEW o \in txn.item, fs[o.path] # Absent, Fits(fs, o)
    PROVE  Taking(fs, o.path) = {o.path}
<1>1. /\ Consistent(batch.ops, batch.before) /\ batch.ops \subseteq Operation /\ o \in batch.ops
      /\ fs \in Worktree /\ WellFormed(fs)
  BY DEF Undisturbed, Going, HelperShape, Steady, Batch
<1>2. o \in Operation /\ o.path \in Paths /\ fs[o.path] \in Node
  BY <1>1, OperationFacts DEF Worktree
<1>3. o.path \in Taking(fs, o.path)
  BY DEF Taking
<1>4. fs[o.path] = batch.before[o.path]
  BY <1>3, TakenIsNew
<1>5. \A q \in Below(o.path) : fs[q] = Absent
  <2>1. CASE fs[o.path] # Directory
    BY <2>1, <1>1 DEF Below, WellFormed
  <2>2. CASE fs[o.path] = Directory
    <3>1. o.expected.kind # "any_artifact"
      <4>1. batch.before[o.path].kind = "directory"
        BY <1>4, <2>2, AbsentAndDirectory
      <4> QED BY <1>1, <4>1 DEF Consistent
    <3>2. matches_expected(Directory, o.expected) /\ Directory.kind = "directory"
      BY <2>2, AbsentAndDirectory DEF Fits
    <3>3. o.expected.kind \in {"directory"}
      <4>1. o.expected.kind \in {"absent", "regular", "symlink", "directory", "regular_or_absent", "any_artifact"}
        BY <1>2, OperationFacts DEF Kinds
      <4>2. o.expected.kind # "regular_or_absent"
        BY <3>2 DEF matches_expected
      <4>3. o.expected.kind \notin {"regular", "symlink"}
        BY <3>2 DEF matches_expected
      <4>4. o.expected.kind # "absent"
        BY <3>2 DEF matches_expected
      <4> QED BY <3>1, <4>1, <4>2, <4>3, <4>4
    <3> QED BY <3>3 DEF Fits
  <2> QED BY <2>1, <2>2
<1> QED BY <1>5 DEF Taking

\* Capturing what is there keeps the invariant of an undisturbed batch.
LEMMA CaptureUndisturbed ==
    ASSUME HelperShape, Undisturbed, NEW o \in batch.ops, capture_current(o)
    PROVE  Undisturbed'
<1>1. /\ txn.at = "capture" /\ o \in txn.item /\ batch' = batch
      /\ txn'.item = txn.item /\ txn'.todo = txn.todo /\ txn'.plans = txn.plans
      /\ txn'.installed = txn.installed /\ txn'.created = txn.created /\ txn'.residue = txn.residue
      /\ txn'.at \in {"place", "undo installed"}
  BY CaptureEffect
<1>2. /\ InOrder(batch.ops, txn) /\ InPlace(batch.ops, txn, fs) /\ Undoable(txn, fs, batch.before) /\ ~txn.residue
      /\ txn \in Transaction /\ fs \in Worktree /\ WellFormed(fs) /\ o.path \in Paths /\ batch.ops \subseteq Operation
  BY <1>1, OperationFacts DEF Undisturbed, Going, HelperShape, Steady, Batch
<1>3. /\ Through(batch.ops, txn') = Through(batch.ops, txn)
      /\ InstalledBy(txn') = InstalledBy(txn) /\ MadeBy(txn') = MadeBy(txn)
  BY <1>1 DEF Through, InstalledBy, MadeBy
<1>4. txn.item = {o}
  BY <1>1, <1>2 DEF InOrder
<1>5. txn'.at = "place" => InOrder(batch.ops, txn')
  BY <1>1, <1>2, <1>3 DEF InOrder
<1>6. CASE fs[o.path] = Absent /\ fs' = fs /\ txn'.backups = txn.backups
  <2>1. Undoable(txn', fs, batch.before)
    BY <1>1, <1>2, <1>6, UndoableKept
  <2>2. TakenBy(txn') = TakenBy(txn)
    BY <1>6 DEF TakenBy
  <2>3. txn'.at = "place" => InPlace(batch.ops, txn', fs)
    BY <1>1, <1>2, <1>3, <1>4, <1>6, <2>2 DEF InPlace
  <2> QED BY <1>1, <1>2, <1>5, <1>6, <2>1, <2>3 DEF Undisturbed, Going
<1>7. CASE /\ fs[o.path] # Absent /\ fs' = Carving(fs, o.path)
           /\ txn'.backups = Append(txn.backups, Part(fs, o.path))
           /\ txn'.at = "place" => Fits(fs, o)
  <2> DEFINE b == Part(fs, o.path)
             T == Taking(fs, o.path)
  <2>1. b \in Backup /\ o.path \in T /\ T \subseteq Paths
    BY <1>2, <1>7, Carved
  <2>2. DOMAIN b.nodes = T /\ \A q \in T : b.nodes[q] = fs[q]
    BY DEF Part
  <2>3. txn.backups \in Seq(Backup)
    BY <1>2, TransactionFacts
  <2>4. \A q \in T : /\ q \notin TakenBy(txn) /\ q \notin InstalledBy(txn) /\ q \notin MadeBy(txn)
                     /\ \A f \in Through(batch.ops, txn) : f.path # q
                     /\ fs[q] = batch.before[q]
    BY <1>1, <1>7, TakenIsNew
  <2>5. \A q \in Paths : fs'[q] = IF q \in T THEN Absent ELSE fs[q]
    BY <1>7 DEF Carving
  <2>6. txn'.at = "place" => T = {o.path}
    BY <1>1, <1>7, FitsAlone
  <2> HIDE DEF b, T
  <2>7. /\ TakenBy(txn') = TakenBy(txn) \cup T
        /\ \A i \in DOMAIN txn'.backups : txn'.backups[i] = b \/ (i \in DOMAIN txn.backups /\ txn'.backups[i] = txn.backups[i])
        /\ \A i, j \in DOMAIN txn'.backups : i # j => i \in DOMAIN txn.backups \/ j \in DOMAIN txn.backups
        /\ \A i \in DOMAIN txn.backups : txn'.backups[i] = txn.backups[i]
    <3>1. txn'.backups = Append(txn.backups, b)
      BY <1>7 DEF b
    <3>2. \A i \in DOMAIN txn.backups : txn'.backups[i] = txn.backups[i]
      BY <2>1, <2>3, <3>1, Appended
    <3>3. /\ TakenBy(txn') = TakenBy(txn) \cup DOMAIN b.nodes
          /\ \A i \in DOMAIN txn'.backups : txn'.backups[i] = b \/ (i \in DOMAIN txn.backups /\ txn'.backups[i] = txn.backups[i])
          /\ \A i, j \in DOMAIN txn'.backups : i # j => i \in DOMAIN txn.backups \/ j \in DOMAIN txn.backups
      BY <2>1, <2>3, <3>1, TakenMore
    <3> QED BY <2>2, <3>2, <3>3
  <2>8. \A i \in DOMAIN txn.backups : DOMAIN txn.backups[i].nodes \subseteq TakenBy(txn)
    BY DEF TakenBy
  <2>9. \A i, j \in DOMAIN txn'.backups : i # j => DOMAIN txn'.backups[i].nodes \cap DOMAIN txn'.backups[j].nodes = {}
    <3> SUFFICES ASSUME NEW i \in DOMAIN txn'.backups, NEW j \in DOMAIN txn'.backups, i # j
                 PROVE  DOMAIN txn'.backups[i].nodes \cap DOMAIN txn'.backups[j].nodes = {}
      OBVIOUS
    <3>1. CASE i \in DOMAIN txn.backups /\ j \in DOMAIN txn.backups
      BY <1>2, <2>7, <3>1 DEF Undoable
    <3>2. CASE i \in DOMAIN txn.backups /\ j \notin DOMAIN txn.backups
      <4>1. txn'.backups[i] = txn.backups[i] /\ txn'.backups[j] = b
        BY <2>7, <3>2
      <4> QED BY <4>1, <3>2, <2>2, <2>4, <2>8
    <3>3. CASE i \notin DOMAIN txn.backups /\ j \in DOMAIN txn.backups
      <4>1. txn'.backups[i] = b /\ txn'.backups[j] = txn.backups[j]
        BY <2>7, <3>3
      <4> QED BY <4>1, <3>3, <2>2, <2>4, <2>8
    <3> QED BY <2>7, <3>1, <3>2, <3>3
  <2>10. \A i \in DOMAIN txn'.backups : \A p \in DOMAIN txn'.backups[i].nodes : txn'.backups[i].nodes[p] = batch.before[p]
    BY <1>2, <2>2, <2>4, <2>7 DEF Undoable
  <2>11. \A p \in Paths \ (TakenBy(txn') \cup InstalledBy(txn') \cup MadeBy(txn')) : fs'[p] = batch.before[p]
    BY <1>2, <1>3, <2>5, <2>7 DEF Undoable
  <2>12. /\ \A p \in (InstalledBy(txn') \cup MadeBy(txn')) \ TakenBy(txn') : batch.before[p] = Absent
         /\ TakenBy(txn') \cap MadeBy(txn') = {}
    BY <1>2, <1>3, <2>4, <2>7 DEF Undoable
  <2>13. Undoable(txn', fs', batch.before)
    BY <2>9, <2>10, <2>11, <2>12 DEF Undoable
  <2>14. ASSUME txn'.at = "place" PROVE InPlace(batch.ops, txn', fs')
    <3>1. \A f \in Through(batch.ops, txn') : f.path \in Paths /\ fs'[f.path] = f.desired
      <4> TAKE f \in Through(batch.ops, txn')
      <4>1. f \in Through(batch.ops, txn) /\ f.path \in Paths /\ f.path \notin T
        BY <1>2, <1>3, <2>4, OperationFacts DEF Through
      <4> QED BY <1>2, <2>5, <4>1 DEF InPlace
    <3>2. \A p \in TakenBy(txn') : \/ \E f \in Through(batch.ops, txn') : f.path = p
                                   \/ txn'.at = "place" /\ \E x \in txn'.item : x.path = p
      BY <1>1, <1>2, <1>3, <2>6, <2>7, <2>14 DEF InPlace
    <3>3. \A q \in MadeBy(txn') : /\ fs'[q] = Directory
                                  /\ \E x \in batch.ops \ txn'.todo : q \in Ancestors[x.path] /\ x.desired # Absent
      <4> TAKE q \in MadeBy(txn')
      <4>1. q \in MadeBy(txn) /\ q \notin T /\ fs[q] = Directory
        BY <1>2, <1>3, <2>4 DEF InPlace
      <4>2. PICK x \in batch.ops \ txn.todo : q \in Ancestors[x.path] /\ x.desired # Absent
        BY <1>2, <4>1 DEF InPlace
      <4>3. q \in Paths
        BY <1>2, <4>2, OperationFacts, PathTree
      <4> QED BY <1>1, <2>5, <4>1, <4>2, <4>3
    <3>4. \A x \in txn'.item : fs'[x.path] = Absent
      BY <1>1, <1>2, <1>4, <2>1, <2>5
    <3>5. \A p \in InstalledBy(txn') : \E f \in Through(batch.ops, txn') : f.path = p /\ f.desired # Absent
      BY <1>2, <1>3 DEF InPlace
    <3> QED BY <3>1, <3>2, <3>3, <3>4, <3>5 DEF InPlace
  <2> QED BY <1>1, <1>2, <1>5, <2>13, <2>14 DEF Undisturbed, Going
<1> QED BY <1>6, <1>7, CaptureEffect

\* So does installing the item,
LEMMA InstallUndisturbed ==
    ASSUME HelperShape, Undisturbed, NEW o \in batch.ops, install_item(o)
    PROVE  Undisturbed'
<1>1. txn.at = "place" /\ o \in txn.item /\ batch' = batch
  BY InstallEffect
<1>2. /\ InOrder(batch.ops, txn) /\ InPlace(batch.ops, txn, fs) /\ Undoable(txn, fs, batch.before) /\ ~txn.residue
      /\ txn \in Transaction /\ fs \in Worktree /\ o \in Operation /\ o.path \in Paths /\ batch.ops \subseteq Operation
      /\ txn.plans \subseteq batch.ops /\ Consistent(batch.ops, batch.before)
  BY <1>1, OperationFacts DEF Undisturbed, Going, HelperShape, Steady, Batch
<1>3. /\ txn.item = {o} /\ o \in txn.plans
      /\ \A other \in txn.todo \cup txn.plans : ~Before(other, o)
      /\ IF PlannedDirectories(batch.ops) # {} THEN txn.plans = {o} ELSE txn.todo = {}
  BY <1>1, <1>2 DEF InOrder
<1>4. CASE fs' = fs /\ Failed(txn, txn')
  <2>1. Undoable(txn', fs, batch.before)
    BY <1>2, <1>4, UndoableKept DEF Failed
  <2>2. txn'.at = "undo installed"
    BY <1>4 DEF Failed
  <2> QED BY <1>1, <1>4, <2>1, <2>2 DEF Undisturbed, Going
<1>5. CASE /\ fs[o.path] = Absent
           /\ fs' = [fs EXCEPT ![o.path] = o.desired]
           /\ txn'.todo = txn.todo /\ txn'.plans = txn.plans \ {o} /\ txn'.item = {}
           /\ txn'.backups = txn.backups /\ txn'.created = txn.created /\ txn'.residue = txn.residue
           /\ txn'.installed = IF o.desired = Absent THEN txn.installed ELSE Append(txn.installed, o)
           /\ \/ txn.todo # {} /\ txn'.at = "prepare"
              \/ txn.todo = {} /\ PlannedDirectories(batch.ops) = {} /\ txn'.at = "next"
              \/ /\ txn.todo = {} /\ txn'.at = "commit"
                 /\ txn.plans \ {o} = {} \/ PlannedDirectories(batch.ops) # {}
  <2>1. \A q \in Paths : fs'[q] = IF q = o.path THEN o.desired ELSE fs[q]
    BY <1>2, <1>5 DEF Worktree
  <2>2. /\ Through(batch.ops, txn') = Through(batch.ops, txn) \cup {o}
        /\ o \notin Through(batch.ops, txn)
    BY <1>2, <1>3, <1>5 DEF Through, InOrder
  <2>3. /\ TakenBy(txn') = TakenBy(txn) /\ MadeBy(txn') = MadeBy(txn)
        /\ o.desired = Absent => InstalledBy(txn') = InstalledBy(txn)
        /\ o.desired # Absent => InstalledBy(txn') = InstalledBy(txn) \cup {o.path}
    <3>1. TakenBy(txn') = TakenBy(txn) /\ MadeBy(txn') = MadeBy(txn)
      BY <1>5 DEF TakenBy, MadeBy
    <3>2. o.desired = Absent => InstalledBy(txn') = InstalledBy(txn)
      BY <1>5 DEF InstalledBy
    <3>3. ASSUME o.desired # Absent PROVE InstalledBy(txn') = InstalledBy(txn) \cup {o.path}
      <4>1. txn.installed \in Seq(Operation)
        BY <1>2, TransactionFacts
      <4>2. txn'.installed = Append(txn.installed, o)
        BY <1>5, <3>3
      <4> QED BY <1>2, <4>1, <4>2, InstalledMore
    <3> QED BY <3>1, <3>2, <3>3
  <2>4. InOrder(batch.ops, txn')
    <3>1. /\ \A f \in Through(batch.ops, txn'), x \in txn'.todo \cup txn'.plans : ~Before(x, f)
          /\ txn'.todo \cap txn'.plans = {}
      BY <1>2, <1>3, <1>5, <2>2 DEF InOrder
    <3>2. txn'.at = "prepare" => txn'.todo # {} /\ PlannedDirectories(batch.ops) # {} /\ txn'.plans = {}
      BY <1>3, <1>5
    <3>3. txn'.at = "next" => txn'.todo = {} /\ PlannedDirectories(batch.ops) = {}
      BY <1>5
    <3>4. txn'.at = "commit" => txn'.todo = {} /\ txn'.plans = {}
      BY <1>3, <1>5
    <3>5. txn'.at \notin {"capture", "place"}
      BY <1>5
    <3> QED BY <3>1, <3>2, <3>3, <3>4, <3>5 DEF InOrder
  <2>5. InPlace(batch.ops, txn', fs')
    <3>1. \A f \in Through(batch.ops, txn') : fs'[f.path] = f.desired
      <4> TAKE f \in Through(batch.ops, txn')
      <4>1. CASE f = o
        BY <4>1, <1>2, <2>1
      <4>2. CASE f # o
        <5>1. f \in Through(batch.ops, txn) /\ f \in batch.ops /\ o \in batch.ops
          BY <4>2, <2>2 DEF Through
        <5>2. f.path # o.path /\ f.path \in Paths
          BY <5>1, <4>2, <1>2, OperationFacts DEF Consistent
        <5> QED BY <5>1, <5>2, <2>1, <1>2 DEF InPlace
      <4> QED BY <4>1, <4>2
    <3>2. \A p \in TakenBy(txn') : \E f \in Through(batch.ops, txn') : f.path = p
      BY <1>2, <1>3, <2>2, <2>3 DEF InPlace
    <3>3. \A p \in InstalledBy(txn') : \E f \in Through(batch.ops, txn') : f.path = p /\ f.desired # Absent
      BY <1>2, <2>2, <2>3 DEF InPlace
    <3>4. \A q \in MadeBy(txn') : /\ fs'[q] = Directory
                                  /\ \E x \in batch.ops \ txn'.todo : q \in Ancestors[x.path] /\ x.desired # Absent
      <4> TAKE q \in MadeBy(txn')
      <4>1. q \in MadeBy(txn) /\ fs[q] = Directory
        BY <1>2, <2>3 DEF InPlace
      <4>2. PICK x \in batch.ops \ txn.todo : q \in Ancestors[x.path] /\ x.desired # Absent
        BY <1>2, <4>1 DEF InPlace
      <4>3. q \in Paths /\ q # o.path
        BY <1>2, <1>5, <4>1, <4>2, OperationFacts, PathTree, AbsentAndDirectory
      <4> QED BY <1>5, <2>1, <4>1, <4>2, <4>3
    <3>5. txn'.at # "place"
      BY <1>5
    <3> QED BY <3>1, <3>2, <3>3, <3>4, <3>5 DEF InPlace
  <2>6. Undoable(txn', fs', batch.before)
    <3>1. o.path \notin MadeBy(txn)
      BY <1>2, <1>5, AbsentAndDirectory DEF InPlace
    <3>2. o.path \notin TakenBy(txn) => batch.before[o.path] = Absent
      BY <1>2, <1>5 DEF Undoable
    <3>3. \A p \in Paths \ (TakenBy(txn') \cup InstalledBy(txn') \cup MadeBy(txn')) : fs'[p] = batch.before[p]
      BY <1>2, <2>1, <2>3, <3>2 DEF Undoable
    <3>4. \A p \in (InstalledBy(txn') \cup MadeBy(txn')) \ TakenBy(txn') : batch.before[p] = Absent
      BY <1>2, <2>3, <3>2 DEF Undoable
    <3>5. TakenBy(txn') \cap MadeBy(txn') = {}
      BY <1>2, <2>3 DEF Undoable
    <3> QED BY <1>2, <1>5, <3>3, <3>4, <3>5 DEF Undoable
  <2> QED BY <1>1, <1>2, <1>5, <2>4, <2>5, <2>6 DEF Undisturbed
<1> QED BY <1>4, <1>5, InstallEffect

\* undoing an installation,
LEMMA UndoInstalledUndisturbed ==
    ASSUME HelperShape, Undisturbed, UndoInstalled
    PROVE  Undisturbed'
<1> DEFINE p == txn.installed[Len(txn.installed)].path
<1>1. /\ txn.at = "undo installed" /\ batch' = batch
      /\ txn'.backups = txn.backups /\ txn'.created = txn.created
      /\ txn.residue => txn'.residue
      /\ \/ /\ txn.installed = <<>> /\ fs' = fs /\ txn'.at = "undo backups" /\ txn'.installed = txn.installed
         \/ /\ txn.installed # <<>> /\ txn'.at = txn.at
            /\ txn'.installed = PopLast(txn.installed)
            /\ \/ fs' = [fs EXCEPT ![p] = Absent]
               \/ fs' = fs /\ (fs[p] = Absent \/ txn'.residue)
  BY UndoInstalledEffect
<1>2. txn \in Transaction /\ fs \in Worktree
  BY DEF HelperShape, Steady
<1>3. SUFFICES ASSUME ~txn'.residue PROVE Undoable(txn', fs', batch.before)
  BY <1>1 DEF Undisturbed, Going
<1>4. Undoable(txn, fs, batch.before)
  BY <1>1, <1>3 DEF Undisturbed, Undoing
<1>5. CASE txn'.installed = txn.installed /\ fs' = fs
  BY <1>1, <1>4, <1>5, UndoableKept
<1>6. CASE txn.installed # <<>> /\ txn'.installed = PopLast(txn.installed)
  <2>1. txn.installed \in Seq(Operation)
    BY <1>2, TransactionFacts
  <2>2. InstalledBy(txn) = InstalledBy(txn') \cup {p} /\ p \in Paths
    BY <1>6, <2>1, InstalledLess, OperationFacts
  <2> HIDE DEF p
  <2>3. TakenBy(txn') = TakenBy(txn) /\ MadeBy(txn') = MadeBy(txn)
    BY <1>1 DEF TakenBy, MadeBy
  <2>4. \A q \in Paths : fs'[q] = IF q = p THEN Absent ELSE fs[q]
    BY <1>1, <1>2, <1>3, <1>6 DEF Worktree
  <2>5. \A q \in Paths \ (TakenBy(txn') \cup InstalledBy(txn') \cup MadeBy(txn')) : fs'[q] = batch.before[q]
    BY <1>4, <2>2, <2>3, <2>4 DEF Undoable
  <2>6. \A q \in (InstalledBy(txn') \cup MadeBy(txn')) \ TakenBy(txn') : batch.before[q] = Absent
    BY <1>4, <2>2, <2>3 DEF Undoable
  <2>7. TakenBy(txn') \cap MadeBy(txn') = {}
    BY <1>4, <2>3 DEF Undoable
  <2>8. txn'.backups = txn.backups
    BY <1>1
  <2> QED BY <1>4, <2>5, <2>6, <2>7, <2>8 DEF Undoable
<1> QED BY <1>1, <1>5, <1>6

\* undoing a parent, where the end shows the worktree of before,
LEMMA UndoCreatedUndisturbed ==
    ASSUME HelperShape, Undisturbed, UndoCreated
    PROVE  /\ Undisturbed'
           /\ txn'.at = "done" /\ txn'.outcome = "rejected" => fs' = batch'.before
           /\ txn'.at = "done" => txn'.outcome \in {"rejected", "residue"}
<1> DEFINE p == txn.created[Len(txn.created)]
<1>1. /\ txn.at = "undo created" /\ batch' = batch
      /\ txn'.installed = txn.installed /\ txn'.backups = txn.backups
      /\ \/ /\ txn.created = <<>> /\ fs' = fs /\ txn'.at = "done"
            /\ txn'.outcome = IF txn.residue THEN "residue" ELSE "rejected"
         \/ /\ txn.created # <<>> /\ txn'.at = txn.at
            /\ txn'.created = PopLast(txn.created)
            /\ txn.residue => txn'.residue
            /\ \/ fs' = [fs EXCEPT ![p] = Absent]
               \/ fs' = fs /\ (fs[p] = Absent \/ txn'.residue)
  BY UndoCreatedEffect
<1>2. /\ txn \in Transaction /\ fs \in Worktree /\ batch.before \in Worktree
      /\ txn.installed = <<>> /\ txn.backups = <<>>
  BY <1>1 DEF HelperShape, Steady, Batch
<1>3. TakenBy(txn) = {} /\ InstalledBy(txn) = {} /\ TakenBy(txn') = {} /\ InstalledBy(txn') = {}
  <2>1. DOMAIN txn.installed = {} /\ DOMAIN txn.backups = {}
    BY <1>2
  <2>2. TakenBy(txn) = {} /\ InstalledBy(txn) = {}
    BY <2>1 DEF TakenBy, InstalledBy
  <2>3. TakenBy(txn') = TakenBy(txn) /\ InstalledBy(txn') = InstalledBy(txn)
    BY <1>1 DEF TakenBy, InstalledBy
  <2> QED BY <2>2, <2>3
<1>4. CASE txn.created = <<>> /\ fs' = fs /\ txn'.at = "done"
  <2>1. MadeBy(txn) = {}
    BY <1>4 DEF MadeBy, Elements
  <2>2. ASSUME ~txn.residue PROVE fs = batch.before
    <3>1. Undoable(txn, fs, batch.before)
      BY <1>1, <2>2 DEF Undisturbed, Undoing
    <3>2. \A q \in Paths : fs[q] = batch.before[q]
      BY <1>3, <2>1, <3>1 DEF Undoable
    <3> QED BY <1>2, <3>2 DEF Worktree
  <2>3. txn'.outcome = IF txn.residue THEN "residue" ELSE "rejected"
    BY <1>1, <1>4
  <2> QED BY <1>1, <1>4, <2>2, <2>3 DEF Undisturbed, Going, Undoing
<1>5. CASE txn.created # <<>> /\ txn'.at = txn.at /\ txn'.created = PopLast(txn.created)
  <2>0. txn'.at = "undo created" /\ batch' = batch
    BY <1>1, <1>5
  <2>1. SUFFICES ASSUME ~txn'.residue PROVE Undoable(txn', fs', batch.before)
    BY <2>0 DEF Undisturbed, Going
  <2>2. Undoable(txn, fs, batch.before)
    BY <1>1, <1>5, <2>1 DEF Undisturbed, Undoing
  <2>3. txn.created \in Seq(Paths)
    BY <1>2, TransactionFacts
  <2>4. MadeBy(txn) = MadeBy(txn') \cup {p} /\ p \in Paths
    BY <1>5, <2>3, MadeLess
  <2> HIDE DEF p
  <2>5. \A q \in Paths : fs'[q] = IF q = p THEN Absent ELSE fs[q]
    BY <1>1, <1>2, <1>5, <2>1 DEF Worktree
  <2>6. \A q \in Paths \ (TakenBy(txn') \cup InstalledBy(txn') \cup MadeBy(txn')) : fs'[q] = batch.before[q]
    BY <1>3, <2>2, <2>4, <2>5 DEF Undoable
  <2>7. \A q \in (InstalledBy(txn') \cup MadeBy(txn')) \ TakenBy(txn') : batch.before[q] = Absent
    BY <1>3, <2>2, <2>4 DEF Undoable
  <2>8. TakenBy(txn') \cap MadeBy(txn') = {}
    BY <1>3
  <2>9. txn'.backups = txn.backups
    BY <1>1
  <2> QED BY <2>2, <2>6, <2>7, <2>8, <2>9 DEF Undoable
<1> QED BY <1>1, <1>4, <1>5

\* and undoing a capture.
LEMMA UndoBackupUndisturbed ==
    ASSUME HelperShape, Undisturbed, UndoBackup
    PROVE  Undisturbed'
<1> DEFINE b == txn.backups[Len(txn.backups)]
           tree == [q \in Paths |-> IF q \in DOMAIN b.nodes THEN b.nodes[q] ELSE fs[q]]
<1>1. /\ txn.at = "undo backups" /\ batch' = batch
      /\ txn'.installed = txn.installed /\ txn'.created = txn.created
      /\ txn.residue => txn'.residue
      /\ \/ txn.backups = <<>> /\ fs' = fs /\ txn'.at = "undo created" /\ txn'.backups = txn.backups
         \/ /\ txn.backups # <<>> /\ txn'.at = txn.at /\ txn'.backups = PopLast(txn.backups)
            /\ fs' = tree \/ txn'.residue
  BY UndoBackupEffect
<1>2. txn \in Transaction /\ txn.installed = <<>>
  BY <1>1 DEF HelperShape, Steady
<1>3. SUFFICES ASSUME ~txn'.residue PROVE Undoable(txn', fs', batch.before)
  BY <1>1 DEF Undisturbed, Going
<1>4. Undoable(txn, fs, batch.before)
  BY <1>1, <1>3 DEF Undisturbed, Undoing
<1>5. CASE txn'.backups = txn.backups /\ fs' = fs
  BY <1>1, <1>4, <1>5, UndoableKept
<1>6. CASE txn.backups # <<>> /\ txn'.backups = PopLast(txn.backups) /\ fs' = tree
  <2>1. txn.backups \in Seq(Backup)
    BY <1>2, TransactionFacts
  <2>2. /\ TakenBy(txn) = TakenBy(txn') \cup DOMAIN b.nodes
        /\ Len(txn.backups) \in DOMAIN txn.backups
        /\ DOMAIN txn'.backups = DOMAIN txn.backups \ {Len(txn.backups)}
        /\ \A i \in DOMAIN txn'.backups : txn'.backups[i] = txn.backups[i]
    BY <1>6, <2>1, TakenLess
  <2>3. \A q \in DOMAIN b.nodes : b.nodes[q] = batch.before[q]
    BY <1>4, <2>2 DEF Undoable
  <2>4. \A q \in Paths : fs'[q] = IF q \in DOMAIN b.nodes THEN b.nodes[q] ELSE fs[q]
    BY <1>6
  <2> HIDE DEF b, tree
  <2>5. InstalledBy(txn') = InstalledBy(txn) /\ MadeBy(txn') = MadeBy(txn)
    BY <1>1 DEF InstalledBy, MadeBy
  <2>6. InstalledBy(txn) = {}
    <3>1. DOMAIN txn.installed = {}
      BY <1>2
    <3> QED BY <3>1 DEF InstalledBy
  <2>7. \A q \in Paths \ (TakenBy(txn') \cup InstalledBy(txn') \cup MadeBy(txn')) : fs'[q] = batch.before[q]
    BY <1>4, <2>2, <2>3, <2>4, <2>5 DEF Undoable
  <2>8. \A q \in (InstalledBy(txn') \cup MadeBy(txn')) \ TakenBy(txn') : batch.before[q] = Absent
    BY <1>4, <2>2, <2>5, <2>6 DEF Undoable
  <2>9. TakenBy(txn') \cap MadeBy(txn') = {}
    BY <1>4, <2>2, <2>5 DEF Undoable
  <2>10. /\ \A i, j \in DOMAIN txn'.backups : i # j => DOMAIN txn'.backups[i].nodes \cap DOMAIN txn'.backups[j].nodes = {}
         /\ \A i \in DOMAIN txn'.backups : \A p \in DOMAIN txn'.backups[i].nodes : txn'.backups[i].nodes[p] = batch.before[p]
    BY <1>4, <2>2 DEF Undoable
  <2> QED BY <2>7, <2>8, <2>9, <2>10 DEF Undoable
<1> QED BY <1>1, <1>3, <1>5, <1>6

\* A batch that begins has nothing to undo.
LEMMA RequestUndisturbed ==
    ASSUME HelperShape, Restore \/ WriteFile
    PROVE  /\ Undisturbed' /\ fs' = batch'.before
           /\ txn'.at = "done" => txn'.outcome = "rejected" \/ batch'.ops = {}
<1>1. PICK kind \in {"restore", "write"}, ops \in SUBSET Operation :
        runBoundary(kind, ops) /\ (CheckAccepts(kind, ops) => Consistent(ops, fs))
  BY RequestEffect
<1>2. /\ fs' = fs /\ batch' = [kind |-> kind, before |-> fs, ops |-> ops]
      /\ txn'.plans = {} /\ txn'.item = {}
      /\ txn'.installed = <<>> /\ txn'.backups = <<>> /\ txn'.created = <<>> /\ txn'.residue = FALSE
      /\ \/ txn'.at = "done" /\ (txn'.outcome = "rejected" \/ ops = {})
         \/ txn'.at = "prepare" /\ txn'.todo = ops /\ ops # {}
  BY <1>1, BoundaryEffect
<1>3. batch'.ops = ops /\ batch'.before = fs
  BY <1>2
<1>4. CASE txn'.at = "done"
  BY <1>2, <1>3, <1>4 DEF Undisturbed, Going, Undoing
<1>5. CASE txn'.at = "prepare" /\ txn'.todo = ops /\ ops # {}
  <2>1. TakenBy(txn') = {} /\ InstalledBy(txn') = {} /\ MadeBy(txn') = {}
    <3>1. DOMAIN txn'.installed = {} /\ DOMAIN txn'.backups = {} /\ DOMAIN txn'.created = {}
      BY <1>2
    <3> QED BY <3>1 DEF TakenBy, InstalledBy, MadeBy, Elements
  <2>2. Through(ops, txn') = {}
    BY <1>5 DEF Through
  <2>3. InOrder(ops, txn')
    BY <1>2, <1>5, <2>2 DEF InOrder
  <2>4. InPlace(ops, txn', fs)
    BY <1>5, <2>1, <2>2 DEF InPlace
  <2>5. DOMAIN txn'.backups = {}
    BY <1>2
  <2>6. Undoable(txn', fs, fs)
    BY <2>1, <2>5 DEF Undoable
  <2> QED BY <1>2, <1>3, <1>5, <2>3, <2>4, <2>6 DEF Undisturbed
<1> QED BY <1>2, <1>4, <1>5

\* What is wanted at a path is what its only operation asks for.
LEMMA ResultFacts ==
    ASSUME NEW t \in Worktree, NEW ops \in SUBSET Operation,
           \A o1, o2 \in ops : o1.path = o2.path => o1 = o2, NEW p \in Paths
    PROVE  /\ \A o \in ops : o.path = p => Result(t, ops)[p] = o.desired
           /\ (\A o \in ops : o.path # p) => Result(t, ops)[p] = t[p]
<1>1. Result(t, ops)[p] = IF \E o \in ops : o.path = p THEN (CHOOSE o \in ops : o.path = p).desired ELSE t[p]
  BY DEF Result
<1>2. ASSUME NEW o \in ops, o.path = p PROVE (CHOOSE x \in ops : x.path = p) = o
  <2>1. LET c == CHOOSE x \in ops : x.path = p IN c \in ops /\ c.path = p
    BY <1>2
  <2> QED BY <1>2, <2>1
<1> QED BY <1>1, <1>2

\* When all is through, every path is as wanted, parents that were made aside.
LEMMA CommittedIsDone ==
    ASSUME HelperShape, Undisturbed, Committed
    PROVE  /\ LET wanted == Result(batch.before, batch.ops)
              IN  \A p \in Paths : \/ fs[p] = wanted[p]
                                   \/ /\ wanted[p] = Absent /\ fs[p] = Directory
                                      /\ \E o \in batch.ops : p \in Ancestors[o.path]
<1>1. /\ InOrder(batch.ops, txn) /\ InPlace(batch.ops, txn, fs) /\ Undoable(txn, fs, batch.before)
      /\ Consistent(batch.ops, batch.before) /\ txn.at = "commit"
      /\ batch.ops \in SUBSET Operation /\ batch.before \in Worktree
  BY DEF Committed, Undisturbed, Going, HelperShape, Steady, Batch
<1>2. Through(batch.ops, txn) = batch.ops
  BY <1>1 DEF InOrder, Through
<1>3. \A o1, o2 \in batch.ops : o1.path = o2.path => o1 = o2
  BY <1>1 DEF Consistent
<1> DEFINE wanted == Result(batch.before, batch.ops)
<1>4. SUFFICES ASSUME NEW p \in Paths
               PROVE  \/ fs[p] = wanted[p]
                      \/ /\ wanted[p] = Absent /\ fs[p] = Directory
                         /\ \E o \in batch.ops : p \in Ancestors[o.path]
  OBVIOUS
<1>5. /\ \A o \in batch.ops : o.path = p => wanted[p] = o.desired
      /\ (\A o \in batch.ops : o.path # p) => wanted[p] = batch.before[p]
  BY <1>1, <1>3, ResultFacts
<1> HIDE DEF wanted
<1>6. CASE \E o \in batch.ops : o.path = p
  BY <1>1, <1>2, <1>5, <1>6 DEF InPlace
<1>7. CASE \A o \in batch.ops : o.path # p
  <2>1. p \notin TakenBy(txn) /\ p \notin InstalledBy(txn)
    BY <1>1, <1>2, <1>7 DEF InPlace
  <2>2. CASE p \in MadeBy(txn)
    <3>1. fs[p] = Directory /\ \E o \in batch.ops : p \in Ancestors[o.path]
      BY <1>1, <2>2 DEF InPlace
    <3>2. batch.before[p] = Absent
      BY <1>1, <2>1, <2>2 DEF Undoable
    <3> QED BY <1>5, <1>7, <3>1, <3>2
  <2>3. CASE p \notin MadeBy(txn)
    <3>1. fs[p] = batch.before[p]
      BY <1>1, <2>1, <2>3 DEF Undoable
    <3> QED BY <1>5, <1>7, <3>1
  <2> QED BY <2>2, <2>3
<1> QED BY <1>6, <1>7

\* A batch that commits, fails or is killed keeps the invariant.
LEMMA EndUndisturbed ==
    ASSUME HelperShape, foreign = {} => Undisturbed, Committed \/ Fails \/ Killed
    PROVE  (foreign' = {} => Undisturbed') /\ AllOrNothing'
<1>1. CASE Committed
  <2>1. /\ fs' = fs /\ batch' = batch /\ foreign' = foreign
        /\ txn' = [NoTransaction EXCEPT !.at = "done", !.outcome = "committed"]
    BY <1>1 DEF Committed, Keep
  <2>2. txn'.at = "done" /\ txn'.outcome = "committed"
    BY <2>1, NoTransactionFacts DEF Transaction
  <2>3. ASSUME foreign = {}
        PROVE  \A p \in Paths : \/ fs[p] = Result(batch.before, batch.ops)[p]
                                \/ /\ Result(batch.before, batch.ops)[p] = Absent /\ fs[p] = Directory
                                   /\ \E o \in batch.ops : p \in Ancestors[o.path]
    BY <1>1, <2>3, CommittedIsDone
  <2>4. Undisturbed'
    BY <2>2 DEF Undisturbed, Going, Undoing
  <2>5. Result(batch.before, batch.ops)' = Result(batch.before, batch.ops)
    BY <2>1 DEF Result
  <2>6. AllOrNothing'
    BY <2>1, <2>2, <2>3, <2>5 DEF AllOrNothing
  <2> QED BY <2>4, <2>6
<1>2. CASE Fails
  <2>1. /\ fs' = fs /\ batch' = batch /\ foreign' = foreign /\ txn.at \in Going
        /\ txn' = [txn EXCEPT !.at = "undo installed"] /\ txn \in Transaction
    BY <1>2 DEF Fails, Fail, Keep, Going, HelperShape, Steady
  <2>2. Failed(txn, txn')
    BY <2>1, FailEffect
  <2>3. ASSUME foreign = {} PROVE Undisturbed'
    <3>1. Undoable(txn, fs, batch.before)
      BY <2>1, <2>3 DEF Undisturbed
    <3>2. Undoable(txn', fs, batch.before)
      BY <2>2, <3>1, UndoableKept DEF Failed
    <3> QED BY <2>1, <2>2, <3>2 DEF Undisturbed, Going, Failed
  <2> QED BY <2>1, <2>2, <2>3 DEF AllOrNothing, Failed
<1>3. CASE Killed
  <2>1. txn' = [txn EXCEPT !.at = "done", !.outcome = "timed_out"] /\ txn \in Transaction
    BY <1>3 DEF Killed, HelperShape, Steady
  <2>2. txn'.at = "done" /\ txn'.outcome = "timed_out"
    BY <2>1 DEF Transaction
  <2> QED BY <2>2 DEF Undisturbed, Going, Undoing, AllOrNothing
<1> QED BY <1>1, <1>2, <1>3

\* The invariant holds at the start.
LEMMA BatchInit ==
    ASSUME MutationInit
    PROVE  BatchInv
<1>1. /\ fs \in Worktree /\ WellFormed(fs) /\ foreign = {} /\ txn = NoTransaction
      /\ batch = [kind |-> "none", before |-> fs, ops |-> {}]
  BY MutationAssumption DEF MutationInit, Worktree
<1>2. DOMAIN NoTransaction.backups = {}
  BY NoTransactionFacts
<1>3. batch \in Batch /\ batch.before = fs /\ batch.ops = {}
  BY <1>1 DEF Batch
<1>4. Steady(txn, batch)
  BY <1>1, <1>2, <1>3, NoTransactionFacts DEF Steady, Going, Undoing
<1>5. HelperShape
  BY <1>1, <1>3, <1>4 DEF HelperShape
<1>6. Undisturbed /\ AllOrNothing
  BY <1>1, NoTransactionFacts DEF Undisturbed, Going, Undoing, AllOrNothing
<1> QED BY <1>5, <1>6 DEF BatchInv

\* Every step keeps it.
LEMMA BatchStep ==
    ASSUME BatchInv, [MutationNext]_mutationVars
    PROVE  BatchInv'
<1>1. HelperShape /\ (foreign = {} => Undisturbed) /\ AllOrNothing
  BY DEF BatchInv
<1>2. HelperShape'
  BY <1>1, HelperShapeStep
<1> SUFFICES (foreign' = {} => Undisturbed') /\ AllOrNothing'
  BY <1>2 DEF BatchInv
<1>3. CASE Restore \/ WriteFile
  <2>1. /\ Undisturbed' /\ fs' = batch'.before
        /\ txn'.at = "done" => txn'.outcome = "rejected" \/ batch'.ops = {}
    BY <1>1, <1>3, RequestUndisturbed
  <2>2. batch'.ops = {} => \A p \in Paths : Result(batch.before, batch.ops)'[p] = batch'.before[p]
    BY DEF Result
  <2>3. AllOrNothing'
    BY <2>1, <2>2 DEF AllOrNothing
  <2> QED BY <2>1, <2>3
<1>4. ASSUME NEW o \in batch.ops, PrepareItem(o) PROVE (foreign' = {} => Undisturbed') /\ AllOrNothing'
  <2>1. foreign' = foreign /\ txn'.at # "done"
    BY <1>1, <1>4, PrepareEffect DEF Failed
  <2> QED BY <1>1, <1>4, <2>1, PrepareUndisturbed DEF AllOrNothing
<1>5. ASSUME NEW o \in batch.ops, NextItem(o) PROVE (foreign' = {} => Undisturbed') /\ AllOrNothing'
  <2>1. foreign' = foreign /\ txn'.at # "done"
    BY <1>1, <1>5, NextEffect
  <2> QED BY <1>1, <1>5, <2>1, NextUndisturbed DEF AllOrNothing
<1>6. ASSUME NEW o \in batch.ops, capture_current(o) PROVE (foreign' = {} => Undisturbed') /\ AllOrNothing'
  <2>1. foreign' = foreign /\ txn'.at # "done"
    BY <1>1, <1>6, CaptureEffect
  <2> QED BY <1>1, <1>6, <2>1, CaptureUndisturbed DEF AllOrNothing
<1>7. ASSUME NEW o \in batch.ops, install_item(o) PROVE (foreign' = {} => Undisturbed') /\ AllOrNothing'
  <2>1. foreign' = foreign /\ txn'.at # "done"
    BY <1>1, <1>7, InstallEffect DEF Failed
  <2> QED BY <1>1, <1>7, <2>1, InstallUndisturbed DEF AllOrNothing
<1>8. CASE UndoInstalled
  <2>1. foreign' = foreign /\ txn'.at # "done"
    BY <1>1, <1>8, UndoInstalledEffect
  <2> QED BY <1>1, <1>8, <2>1, UndoInstalledUndisturbed DEF AllOrNothing
<1>9. CASE UndoBackup
  <2>1. foreign' = foreign /\ txn'.at # "done"
    BY <1>1, <1>9, UndoBackupEffect
  <2> QED BY <1>1, <1>9, <2>1, UndoBackupUndisturbed DEF AllOrNothing
<1>10. CASE UndoCreated
  <2>1. foreign' = foreign
    BY <1>1, <1>10, UndoCreatedEffect
  <2> QED BY <1>1, <1>10, <2>1, UndoCreatedUndisturbed DEF AllOrNothing
<1>11. ASSUME NEW p \in Paths, ForeignWrite(p) PROVE (foreign' = {} => Undisturbed') /\ AllOrNothing'
  BY <1>11 DEF ForeignWrite, AllOrNothing
<1>12. CASE UNCHANGED mutationVars
  BY <1>1, <1>12 DEF mutationVars, Undisturbed, AllOrNothing, Result
<1> QED BY <1>1, <1>3, <1>4, <1>5, <1>6, <1>7, <1>8, <1>9, <1>10, <1>11, <1>12, EndUndisturbed DEF MutationNext

\* The invariant of the mutation helper: undisturbed, it can always finish and
\* always go back (mutation-path.ts).
THEOREM BatchesHold == MutationSpec => []BatchInv
<1>1. MutationInit => BatchInv
  BY BatchInit
<1>2. BatchInv /\ [MutationNext]_mutationVars => BatchInv'
  BY BatchStep
<1> QED BY <1>1, <1>2, PTL DEF MutationSpec

\* A batch that nobody disturbs is done as asked or not at all, for any paths,
\* any worktrees and any plan of a restore (mutation-path.ts, restoreArtifactSnapshot).
THEOREM BatchesAreAllOrNothing == MutationSpec => []AllOrNothing
<1>1. BatchInv => AllOrNothing
  BY DEF BatchInv
<1> QED BY <1>1, BatchesHold, PTL

\* Every variable of the mutation helper stays in its range.
THEOREM BatchTypesHold == MutationSpec => []MutationTypeOK
<1>1. BatchInv => MutationTypeOK
  BY DEF BatchInv, HelperShape, Worktree, Batch, Steady, Transaction, Outcomes, MutationTypeOK
<1> QED BY <1>1, BatchesHold, PTL

------------------------------------------------------------------------------
\* What a call may resolve to.
RunnerVerdicts ==
    LeaderEnds \cup {"none", "throws", "invalid_request", "sandbox_unavailable", "sandbox_violation",
                    "launch_failed", "cancelled", "timed_out", "output_limit", "signaled"}
\* The record of a call.
CallRange ==
    [kind : {"none", "core tool", "command"},
     at : {"idle", "spawning", "running", "settled", "resolved", "returned"},
     timer : BOOLEAN, timedOut : BOOLEAN, cancelled : BOOLEAN, truncated : BOOLEAN,
     launchError : BOOLEAN, result : RunnerVerdicts, scratch : BOOLEAN]
\* The record of a child and of what it started.
ChildRange ==
    [leader : {"none", "alive"} \cup LeaderEnds, group : SUBSET Descendants,
     escaped : SUBSET Descendants, denied : BOOLEAN, killed : BOOLEAN, chunks : 0..(MaxCapture + 1)]
\* The record of a caller's control.
ControlRange ==
    [external : BOOLEAN, late : BOOLEAN, reason : {"none", "timed_out", "cancelled"}, armed : BOOLEAN]
\* Every variable is in its range.
RunnerRanges == call \in CallRange /\ child \in ChildRange /\ control \in ControlRange
\* There is a live child only while the call runs, and none at all before.
ChildLives ==
    /\ child.leader = "alive" => call.at = "running"
    /\ call.at \in {"idle", "spawning"} => child = NoChild
\* Why a child was killed is known from then on: the profile only kills a command,
\* and a kill of the runner leaves its reason in the call.
CauseKnown ==
    /\ child.denied => call.kind = "command" /\ child.leader = "SIGKILL"
    /\ child.killed => call.cancelled \/ call.timedOut \/ call.truncated
    /\ call.launchError => ~child.denied /\ ~child.killed
    /\ call.at \in {"idle", "spawning", "running"} => ~call.launchError
    /\ call.at \in {"running", "settled"} /\ ~call.launchError => child.leader # "none"
\* The invariant of the runner.
RunnerInv == RunnerRanges /\ ChildLives /\ CauseKnown /\ VerdictMatchesCause

------------------------------------------------------------------------------
\* A signal to the tree ends the child and what is left of its group, and is
\* noted as the runner's own only where it ended a live child.
LEMMA SignalEffect ==
    ASSUME NEW c \in ChildRange
    PROVE  /\ signalChildTree(c) \in ChildRange
           /\ signalChildTree(c).leader = IF c.leader = "alive" THEN "SIGKILL" ELSE c.leader
           /\ signalChildTree(c).denied = c.denied
           /\ signalChildTree(c).killed = (c.killed \/ c.leader = "alive")
BY DEF signalChildTree, ChildRange, LeaderEnds

\* What a settled call comes to is as VerdictMatchesCause says.
LEMMA ClassifiedMatches ==
    ASSUME RunnerInv, call.at = "settled"
    PROVE  /\ Classified \in RunnerVerdicts
           /\ call.kind = "command" =>
                 /\ Classified \in {"exit0", "exit1", "signaled"} => ~child.denied /\ ~child.killed
                 /\ Classified = "sandbox_violation" => ~child.killed
                 /\ child.denied => Classified \in {"sandbox_violation", "timed_out", "cancelled",
                                                    "output_limit"}
<1>1. /\ call \in CallRange /\ child \in ChildRange /\ CauseKnown /\ child.leader # "alive"
  BY DEF RunnerInv, RunnerRanges, ChildLives
<1>2. CASE call.launchError
  <2>1. Verdict = "launch_failed"
    BY <1>2 DEF Verdict
  <2>2. Classified \in {"launch_failed", "sandbox_unavailable"}
    BY <2>1 DEF Classified
  <2> QED BY <1>1, <1>2, <2>2 DEF CauseKnown, RunnerVerdicts
<1>3. CASE ~call.launchError /\ (call.cancelled \/ call.timedOut \/ call.truncated)
  <2>1. Verdict \in {"cancelled", "timed_out", "output_limit"}
    BY <1>3 DEF Verdict
  <2>2. Classified \in {"cancelled", "timed_out", "output_limit"}
    BY <2>1 DEF Classified
  <2> QED BY <2>2 DEF RunnerVerdicts
<1>4. CASE ~call.launchError /\ ~(call.cancelled \/ call.timedOut \/ call.truncated)
  <2>1. ~child.killed /\ child.leader \in LeaderEnds
    BY <1>1, <1>4 DEF CauseKnown, ChildRange
  <2>2. Verdict = IF child.leader \in {"SIGTERM", "SIGKILL"} THEN "signaled" ELSE child.leader
    BY <1>1, <1>4 DEF Verdict, CallRange
  <2> QED BY <1>1, <2>1, <2>2 DEF CauseKnown, Classified, observeDirectResult, RunnerVerdicts, LeaderEnds, CallRange
<1> QED BY <1>1, <1>2, <1>3, <1>4

------------------------------------------------------------------------------
\* An abort kills the child of a running call and is noted in the call; any
\* other call it leaves alone.
LEMMA OnAbortKeeps ==
    ASSUME RunnerInv, OnAbort
    PROVE  call' \in CallRange /\ child' \in ChildRange /\ ChildLives' /\ CauseKnown'
           /\ VerdictMatchesCause'
<1>1. CASE call.at = "running"
  <2>1. /\ call' = [call EXCEPT !.cancelled = TRUE]
        /\ child' = signalChildTree(child)
    BY <1>1 DEF OnAbort
  <2> QED BY <1>1, <2>1, SignalEffect
       DEF RunnerInv, RunnerRanges, CallRange, ChildLives, CauseKnown, VerdictMatchesCause
<1>2. CASE call.at # "running"
  BY <1>2 DEF OnAbort, RunnerInv, RunnerRanges, ChildLives, CauseKnown, VerdictMatchesCause
<1> QED BY <1>1, <1>2

\* A call and a child that stay as they are keep what is said of them.
LEMMA RunnerStutters ==
    ASSUME RunnerInv, UNCHANGED <<call, child>>
    PROVE  call' \in CallRange /\ child' \in ChildRange /\ ChildLives' /\ CauseKnown'
           /\ VerdictMatchesCause'
BY DEF RunnerInv, RunnerRanges, ChildLives, CauseKnown, VerdictMatchesCause

\* The invariant holds at first.
LEMMA RunnerInitInv == RunnerInit => RunnerInv
<1>1. 0 \in 0..(MaxCapture + 1)
  BY RunnerAssumption
<1> QED BY <1>1 DEF RunnerInit, NoCall, NoChild, RunnerInv, RunnerRanges, CallRange, ChildRange, ControlRange,
       ChildLives, CauseKnown, VerdictMatchesCause, RunnerVerdicts

\* Every step of the runner, of the processes it started and of its caller
\* keeps the invariant (command-runner.ts, sandbox.ts).
LEMMA RunnerStep == RunnerInv /\ [RunnerNext]_runnerVars => RunnerInv'
<1> SUFFICES ASSUME RunnerInv, [RunnerNext]_runnerVars PROVE RunnerInv'
  OBVIOUS
<1>0. /\ call \in CallRange /\ child \in ChildRange /\ control \in ControlRange
      /\ ChildLives /\ CauseKnown /\ VerdictMatchesCause
  BY DEF RunnerInv, RunnerRanges
<1>1. ASSUME NEW kind \in {"core tool", "command"}, NEW timeoutOk \in BOOLEAN,
             NEW sandbox \in {"available", "unavailable", "not representable"},
             Request(kind, timeoutOk, sandbox)
      PROVE  RunnerInv'
  <2>1. child' = NoChild /\ child = NoChild /\ control' = control
    BY <1>0, <1>1 DEF Request, ChildLives
  <2>2. /\ call' \in CallRange /\ call'.at \in {"resolved", "spawning"}
        /\ ~call'.launchError
    BY <1>1 DEF Request, Resolved, NoCall, CallRange, RunnerVerdicts
  <2>3. call'.at = "resolved" => call'.result \in {"throws", "invalid_request", "sandbox_unavailable"}
    BY <1>1 DEF Request, Resolved, NoCall
  <2> QED BY <1>0, <2>1, <2>2, <2>3
       DEF RunnerInv, RunnerRanges, ChildLives, CauseKnown, VerdictMatchesCause, NoChild
<1>2. ASSUME NEW works \in BOOLEAN, Spawn(works) PROVE RunnerInv'
  <2>1. child = NoChild /\ control' = control
    BY <1>0, <1>2 DEF Spawn, ChildLives
  <2>2. CASE works
    <3> DEFINE started == [child EXCEPT !.leader = "alive"]
    <3>1. /\ started \in ChildRange /\ started.leader = "alive" /\ ~started.denied /\ ~started.killed
      BY <1>0, <2>1 DEF ChildRange, NoChild
    <3>2. /\ call' = [call EXCEPT !.at = "running", !.timer = TRUE, !.cancelled = Aborted]
          /\ child' = IF Aborted THEN signalChildTree(started) ELSE started
      BY <1>2, <2>2 DEF Spawn
    <3>3. Aborted \in BOOLEAN
      BY DEF Aborted
    <3>4. /\ call' \in CallRange /\ call'.at = "running" /\ call'.cancelled = Aborted
          /\ call'.launchError = call.launchError /\ call'.kind = call.kind
      BY <1>0, <3>2, <3>3 DEF CallRange
    <3>5. /\ child' \in ChildRange /\ ~child'.denied /\ (child'.killed => Aborted)
          /\ child'.leader # "none"
      BY <3>1, <3>2, SignalEffect
    <3>6. call'.launchError = FALSE
      BY <1>0, <1>2, <3>4 DEF Spawn, CauseKnown
    <3> QED BY <1>0, <2>1, <3>4, <3>5, <3>6
         DEF RunnerInv, RunnerRanges, ChildLives, CauseKnown, VerdictMatchesCause
  <2>3. CASE ~works
    <3>1. call' = [call EXCEPT !.at = "settled", !.launchError = TRUE] /\ child' = child
      BY <1>2, <2>3 DEF Spawn
    <3> QED BY <1>0, <2>1, <3>1
         DEF RunnerInv, RunnerRanges, CallRange, ChildLives, CauseKnown, VerdictMatchesCause, NoChild
  <2> QED BY <2>2, <2>3
<1>3. ASSUME NEW how \in LeaderEnds, Exits(how) PROVE RunnerInv'
  BY <1>0, <1>3 DEF Exits, LeaderEnds, RunnerInv, RunnerRanges, ChildRange, ChildLives, CauseKnown,
     VerdictMatchesCause
<1>4. CASE SandboxDenies
  BY <1>0, <1>4 DEF SandboxDenies, LeaderEnds, RunnerInv, RunnerRanges, ChildRange, ChildLives, CauseKnown,
     VerdictMatchesCause
<1>5. ASSUME NEW d \in Descendants, Forks(d) \/ NewSession(d) \/ DescendantEnds(d) PROVE RunnerInv'
  <2>1. /\ call' = call /\ control' = control
        /\ child' \in ChildRange
        /\ child'.leader = child.leader /\ child'.denied = child.denied /\ child'.killed = child.killed
    <3>1. CASE Forks(d)
      BY <1>0, <3>1 DEF Forks, ChildRange
    <3>2. CASE NewSession(d)
      BY <1>0, <3>2 DEF NewSession, ChildRange
    <3>3. CASE DescendantEnds(d)
      BY <1>0, <3>3 DEF DescendantEnds, ChildRange
    <3> QED BY <1>5, <3>1, <3>2, <3>3
  <2>2. call.at \notin {"idle", "spawning"}
    BY <1>0, <1>5 DEF Forks, NewSession, DescendantEnds, ChildLives, NoChild
  <2> QED BY <1>0, <2>1, <2>2 DEF RunnerInv, RunnerRanges, ChildLives, CauseKnown, VerdictMatchesCause
<1>6. CASE Output
  <2> DEFINE more == [child EXCEPT !.chunks = @ + 1]
  <2>1. /\ more \in ChildRange /\ more.leader = child.leader /\ more.denied = child.denied
        /\ more.killed = child.killed
    BY <1>0, <1>6, RunnerAssumption DEF Output, ChildRange
  <2>2. /\ call.at = "running" /\ control' = control
        /\ \/ child' = signalChildTree(more) /\ call' = [call EXCEPT !.truncated = TRUE]
           \/ child' = more /\ call' = call
    BY <1>6 DEF Output, Running
  <2> HIDE DEF more
  <2>3. CASE child' = signalChildTree(more) /\ call' = [call EXCEPT !.truncated = TRUE]
    BY <1>0, <2>1, <2>2, <2>3, SignalEffect
       DEF RunnerInv, RunnerRanges, CallRange, ChildLives, CauseKnown, VerdictMatchesCause
  <2>4. CASE child' = more /\ call' = call
    BY <1>0, <2>1, <2>2, <2>4 DEF RunnerInv, RunnerRanges, ChildLives, CauseKnown, VerdictMatchesCause
  <2> QED BY <2>2, <2>3, <2>4
<1>7. CASE Timer
  BY <1>0, <1>7, SignalEffect
     DEF Timer, Running, RunnerInv, RunnerRanges, CallRange, ChildLives, CauseKnown, VerdictMatchesCause
<1>8. CASE Close
  BY <1>0, <1>8, SignalEffect
     DEF Close, Running, RunnerInv, RunnerRanges, CallRange, ChildLives, CauseKnown, VerdictMatchesCause,
         LeaderEnds
<1>9. CASE Resolve
  <2>1. call.at = "settled" /\ child' = child /\ control' = control
        /\ call' = [call EXCEPT !.at = "resolved", !.scratch = FALSE, !.result = Classified]
    BY <1>9 DEF Resolve
  <2>2. /\ call' \in CallRange /\ call'.at = "resolved" /\ call'.result = Classified
        /\ call'.kind = call.kind /\ call'.launchError = call.launchError
        /\ call'.cancelled = call.cancelled /\ call'.timedOut = call.timedOut
        /\ call'.truncated = call.truncated
    BY <1>0, <2>1, ClassifiedMatches DEF CallRange
  <2>3. VerdictMatchesCause'
    BY <2>1, <2>2, ClassifiedMatches DEF VerdictMatchesCause
  <2> QED BY <1>0, <2>1, <2>2, <2>3 DEF RunnerInv, RunnerRanges, ChildLives, CauseKnown
<1>10. CASE Returned
  <2>1. checkpoint \in {"none", "timed_out", "cancelled"}
    BY <1>0 DEF checkpoint, ControlRange, Aborted
  <2>2. /\ call.at = "resolved" /\ child' = child
        /\ call' = [call EXCEPT !.at = "returned", !.result = IF checkpoint # "none" THEN checkpoint ELSE @]
        /\ control' = [control EXCEPT !.armed = FALSE, !.reason = IF checkpoint # "none" THEN checkpoint ELSE @]
    BY <1>10 DEF Returned
  <2> HIDE DEF checkpoint
  <2>3. control' \in ControlRange
    BY <1>0, <2>1, <2>2 DEF ControlRange
  <2>4. /\ call' \in CallRange /\ call'.at = "returned"
        /\ call'.kind = call.kind /\ call'.launchError = call.launchError
        /\ call'.cancelled = call.cancelled /\ call'.timedOut = call.timedOut
        /\ call'.truncated = call.truncated
    BY <1>0, <2>1, <2>2 DEF CallRange, RunnerVerdicts
  <2> QED BY <1>0, <2>2, <2>3, <2>4 DEF RunnerInv, RunnerRanges, ChildLives, CauseKnown, VerdictMatchesCause
<1>11. CASE DeadlinePasses
  <2>1. control' \in ControlRange /\ UNCHANGED <<call, child>>
    BY <1>0, <1>11 DEF DeadlinePasses, ControlRange
  <2> QED BY <2>1, RunnerStutters DEF RunnerInv, RunnerRanges
<1>12. CASE ControlTimer
  <2>1. control' \in ControlRange /\ OnAbort
    BY <1>0, <1>12 DEF ControlTimer, ControlRange
  <2> QED BY <2>1, OnAbortKeeps DEF RunnerInv, RunnerRanges
<1>13. CASE ExternalAbort
  <2>1. control' \in ControlRange
    BY <1>0, <1>13 DEF ExternalAbort, ControlRange, AbortWith, Aborted
  <2>2. UNCHANGED <<call, child>> \/ OnAbort
    BY <1>13 DEF ExternalAbort
  <2> QED BY <2>1, <2>2, RunnerStutters, OnAbortKeeps DEF RunnerInv, RunnerRanges
<1>14. CASE UNCHANGED runnerVars
  BY <1>0, <1>14, RunnerStutters DEF runnerVars, RunnerInv, RunnerRanges
<1> QED BY <1>1, <1>2, <1>3, <1>4, <1>5, <1>6, <1>7, <1>8, <1>9, <1>10, <1>11, <1>12, <1>13, <1>14
     DEF RunnerNext

\* A command is said to have ended by itself only when nobody killed it, and a
\* kill of the runner's own is never taken for a violation of the sandbox, for any
\* number of descendants and any limit of output (command-runner.ts, sandbox.ts).
THEOREM VerdictsMatchTheirCauses == RunnerSpec => [](RunnerTypeOK /\ VerdictMatchesCause)
<1>1. RunnerInv => RunnerTypeOK /\ VerdictMatchesCause
  BY DEF RunnerInv, RunnerRanges, CallRange, ChildRange, ControlRange, RunnerTypeOK
<1> QED BY <1>1, RunnerInitInv, RunnerStep, PTL DEF RunnerSpec

------------------------------------------------------------------------------
\* A behaviour of the execution side is one of each of its four components.
LEMMA ExecutionParts ==
    /\ MCInit => ExecutorInit /\ CommandInit /\ RunnerInit /\ MutationInit
    /\ [MCNext]_vars => /\ [ExecutorNext]_executorVars /\ [CommandNext]_commandVars
                        /\ [RunnerNext]_runnerVars /\ [MutationNext]_mutationVars
BY DEF MCInit, MCNext, vars

\* Whichever component a behaviour of the execution side is about, its variables
\* stay in their ranges: executor, command executor, runner and mutation helper.
THEOREM ExecutionTypesHold == MCSpec => []ExecutionTypeOK
<1> DEFINE About == part \in {"executor", "command", "runner", "mutation"}
<1>1. MCSpec => ExecutorSpec /\ CommandSpec /\ MutationSpec
  BY ExecutionParts, PTL DEF MCSpec, ExecutorSpec, CommandSpec, MutationSpec
<1>2. MCSpec => []RunnerInv
  BY ExecutionParts, RunnerInitInv, RunnerStep, PTL DEF MCSpec
<1>3. MCSpec => []About
  <2>1. MCInit => About
    BY DEF MCInit
  <2>2. About /\ [MCNext]_vars => About'
    BY DEF MCNext, vars
  <2> QED BY <2>1, <2>2, PTL DEF MCSpec
<1>4. RunnerInv => RunnerTypeOK
  BY DEF RunnerInv, RunnerRanges, CallRange, ChildRange, ControlRange, RunnerTypeOK
<1>5. ExecutorTypeOK /\ CommandTypeOK /\ RunnerTypeOK /\ MutationTypeOK /\ About => ExecutionTypeOK
  BY DEF ExecutionTypeOK
<1> QED BY <1>1, <1>2, <1>3, <1>4, <1>5, ExecutorTypeCorrect, CommandTypesHold, BatchTypesHold, PTL

===============================================================================
