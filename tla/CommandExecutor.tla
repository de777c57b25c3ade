--------------------------- MODULE CommandExecutor ---------------------------
(***************************************************************************)
(* How an effect reaches the worktree: a command that runs in a disposable *)
(* copy and whose changes are captured, checked and promoted               *)
(* (core/src/executor/command-executor.ts), a patch that is tried in a     *)
(* copy first (patch.ts), and the freezing of a tree that both build on    *)
(* (gates/frozen-tree.ts).  Freezing reads one path after the other.       *)
(*                                                                         *)
(* Meanwhile other processes write to the worktree, and a descendant of    *)
(* the command that left its session goes on writing to the copy.          *)
(***************************************************************************)
EXTENDS Naturals, FiniteSets

CONSTANTS
    Files,          \* worktree-relative paths, as numbers in their sort order
    Ignored,        \* those that Git ignores
    Packages,       \* files of approved packages below the persistent output root
    Metadata,       \* the package manager's own files there that a validator accepts
    Roots,          \* all files below that root
    Staging,        \* where the approved sources are put for an install
    Manifest,       \* manifest and lockfile
    Golden,         \* test/golden
    FrozenRed,      \* RED tests an implementer may not touch
    Writable,       \* WRITE_PREFIXES: [Roles -> SUBSET Files]
    Present,        \* files of the worktree at the start
    MaxFiles,       \* artifactPolicy.maxFiles
    MaxDiff,        \* artifactPolicy.maxDiffBytes, in changed files
    MaxWrites       \* bound: writes by the command and by others

Roles == {"planner", "test_designer", "implementer", "diagnostician", "reviewer"}

ASSUME CommandAssumption ==
    /\ Files \subseteq Nat /\ IsFiniteSet(Files)
    /\ Ignored \cup Roots \cup Staging \cup Manifest \cup Golden \cup FrozenRed \subseteq Files
    /\ Packages \cup Metadata \subseteq Roots /\ Packages \cap Metadata = {}
    /\ Roots \cap (Golden \cup FrozenRed) = {}
    /\ Writable \in [Roles -> SUBSET Files] /\ Present \subseteq Files
    /\ MaxFiles \in Nat /\ MaxDiff \in Nat /\ MaxWrites \in Nat

VARIABLES
    disk,       \* the trees: worktree, workspace, capture
    index,      \* what Git tracks in each
    scan,       \* the freeze that is going on
    snap,       \* what was frozen
    task,       \* the running action
    stamp,      \* number of writes so far: every write has fresh content
    base        \* history: worktree and workspace when they were last listed

commandVars == <<disk, index, scan, snap, task, stamp, base>>

------------------------------------------------------------------------------
(* Trees *)

Places == {"worktree", "workspace", "capture"}
Approved == MaxWrites + 1       \* the content that the frozen policy asks for
Installed == Packages \cup Metadata
NoEntry == [kind |-> "none", blob |-> 0]
Entry == {NoEntry} \cup [kind : {"file", "link"}, blob : 0..Approved]
NoTree == [p \in Files |-> NoEntry]
Exists(t) == {p \in Files : t[p] # NoEntry}
Changed(t, u) == {p \in Files : t[p] # u[p]}
First(S) == CHOOSE p \in S : \A q \in S : p <= q
IsApproved(t, S) == \A p \in S : t[p] = [kind |-> "file", blob |-> Approved]

NoScan == [of |-> "nothing", into |-> "nothing", strict |-> FALSE, roots |-> {},
           at |-> "off", todo |-> {}, listed |-> {}, got |-> NoTree]
NoSnap == [input |-> NoTree, pre |-> NoTree, post |-> NoTree, captured |-> NoTree,
           fresh |-> NoTree]
NoTask == [at |-> "idle", kind |-> "none", role |-> "implementer", class |-> "none",
           alive |-> FALSE, escaped |-> FALSE, denied |-> FALSE, status |-> "none"]

CommandInit ==
    /\ disk = [d \in Places |-> IF d = "worktree"
                                THEN [p \in Files |-> IF p \in Present THEN [kind |-> "file", blob |-> 0]
                                                      ELSE NoEntry]
                                ELSE NoTree]
    /\ index = [d \in Places |-> IF d = "worktree" THEN Present \ Ignored ELSE {}]
    /\ scan = NoScan
    /\ snap = NoSnap
    /\ task = NoTask
    /\ stamp = 0
    /\ base = [d \in Places |-> NoTree]

------------------------------------------------------------------------------
(* Path policy *)

(* defect: an implementer may touch a frozen RED test *)
checkWriteUnfrozen(role, p) ==
    /\ p \notin Golden
    /\ p \in Writable[role]

checkWrite(role, p) ==
    /\ p \notin Golden
    /\ role = "implementer" => p \notin FrozenRed
    /\ p \in Writable[role]

checkCommand(role) == role \in {"implementer", "diagnostician"}

Install == task.kind = "install"

(* profileFor: what the command may write in its workspace.                *)
SandboxAllows(p) ==
    /\ p \notin Golden
    /\ Install => p \notin Staging
    /\ \/ task.class = "gate_check"
       \/ p \in Writable[task.role]
       \/ Install /\ p \in Roots

------------------------------------------------------------------------------
(* Freezing a tree *)

(* The descriptor-safe readers return one version of a file or of a link,  *)
(* or fail when it changed meanwhile (Interrupted).                        *)
readRegularFileByDescriptor(t, p) == IF t[p].kind = "file" THEN t[p] ELSE NoEntry
readSymlinkByDescriptor(t, p) == IF t[p].kind = "link" THEN t[p] ELSE NoEntry
readFrozenEntryContent(t, p) ==
    IF t[p].kind = "link" THEN readSymlinkByDescriptor(t, p) ELSE readRegularFileByDescriptor(t, p)

(* The shape audit sees every object, Git only what it tracks or does not  *)
(* ignore, and the roots that are asked for.                               *)
auditFilesystemShapes(place) == Exists(disk[place])
ListOf(place, strict, roots) ==
    IF strict THEN auditFilesystemShapes(place)
    ELSE index[place] \cup {p \in Exists(disk[place]) : p \notin Ignored \/ p \in roots}

(* freezeWorkingTree: the paths are listed first ...                       *)
Freeze(place, into, strict, roots) ==
    /\ scan' = [of |-> place, into |-> into, strict |-> strict, roots |-> roots, at |-> "read",
                todo |-> ListOf(place, strict, roots), listed |-> ListOf(place, strict, roots),
                got |-> NoTree]
    /\ base' = [base EXCEPT ![place] = disk[place]]

Ends(status) == task' = [task EXCEPT !.at = "done", !.status = status]
Dropped == disk' = [disk EXCEPT !["workspace"] = NoTree, !["capture"] = NoTree]

(* asCaptureRejection, and the removal of everything the attempt made.     *)
Reject(status) == Ends(status) /\ Dropped /\ scan' = NoScan

(* ... then read one after the other.  A tracked file that is gone is      *)
(* left out, but in the authoritative domain it is churn; that domain is   *)
(* listed and read twice.                                                  *)
ReadEntry ==
    LET p == First(scan.todo)
        e == readFrozenEntryContent(disk[scan.of], p)
    IN  /\ scan.at \in {"read", "reread"} /\ scan.todo # {}
        /\ IF \/ Cardinality(scan.listed \cup Exists(base[scan.of])) > MaxFiles
              \/ scan.strict /\ e = NoEntry
              \/ scan.at = "reread" /\ e # scan.got[p]
           THEN Reject("capture_rejected")
           ELSE /\ scan' = [scan EXCEPT !.todo = @ \ {p}, !.got[p] = e]
                /\ UNCHANGED <<task, disk>>
        /\ UNCHANGED <<index, snap, stamp, base>>

ListAgain ==
    /\ scan.at = "read" /\ scan.todo = {} /\ scan.strict
    /\ IF ListOf(scan.of, TRUE, {}) # scan.listed
       THEN Reject("capture_rejected") /\ base' = base
       ELSE /\ scan' = [scan EXCEPT !.at = "reread", !.todo = scan.listed]
            /\ base' = [base EXCEPT ![scan.of] = disk[scan.of]]
            /\ UNCHANGED <<task, disk>>
    /\ UNCHANGED <<index, snap, stamp>>

Frozen ==
    /\ scan.at = IF scan.strict THEN "reread" ELSE "read"
    /\ scan.todo = {}
    /\ snap' = [snap EXCEPT ![scan.into] = scan.got]
    /\ scan' = NoScan
    /\ task' = [task EXCEPT !.at = IF scan.into = "input" THEN "materialize" ELSE scan.into]
    /\ UNCHANGED <<disk, index, stamp, base>>

(* materializeFromSnapshot writes what was frozen, not what is there now.  *)
MaterializeInto(place, tree, extra) ==
    /\ disk' = [disk EXCEPT ![place] = [p \in Files |-> IF p \in extra
                                                         THEN [kind |-> "file", blob |-> Approved]
                                                         ELSE tree[p]]]
    /\ index' = [index EXCEPT ![place] = Exists(tree)]

------------------------------------------------------------------------------
(* A command *)

PersistentRoots == Roots

(* What may be known of the policy for offline installs: there is none, it *)
(* names other roles, or the command is not exactly one of its commands.   *)
OfflinePolicies == {"none", "other roles", "inexact", "exact"}
validateOfflinePolicy(kind, role, policy) ==
    CASE kind # "install" -> "accepted"
      [] policy = "none" /\ role # "implementer" -> "package_install_denied"
      [] policy = "other roles" -> "package_install_denied"
      [] policy = "exact" -> "accepted"
      [] OTHER -> "offline_dependency_unavailable"

(* The approved sources are read once more; any byte or file too many, or  *)
(* one that changes while it is read, makes them unavailable.              *)
captureApprovedSources(kind, sourcesIntact) ==
    IF kind # "install" \/ sourcesIntact THEN "accepted" ELSE "offline_dependency_unavailable"

(* execute up to the freeze: nothing is made before all of this passes.    *)
Execute(kind, role, class, network, policy, sourcesIntact) ==
    /\ task.at = "idle"
    /\ kind \in {"command", "install"}
    /\ checkCommand(role)
    /\ snap' = NoSnap
    /\ IF /\ network = "none"
          /\ validateOfflinePolicy(kind, role, policy) = "accepted"
          /\ captureApprovedSources(kind, sourcesIntact) = "accepted"
       THEN /\ task' = [NoTask EXCEPT !.at = "freeze", !.kind = kind, !.role = role, !.class = class]
            /\ Freeze("worktree", "input", FALSE, PersistentRoots)
       ELSE /\ task' = [NoTask EXCEPT !.at = "done", !.kind = kind, !.role = role,
                                      !.class = class, !.status = "preflight_rejected"]
            /\ UNCHANGED <<scan, base>>
    /\ UNCHANGED <<disk, index, stamp>>

(* validateFrozenDependencyGraph: manifest and lockfile are the hashed     *)
(* ones, and name the approved sources and nothing else.                   *)
FrozenGraphIsApproved == \A p \in Manifest : snap.input[p] = [kind |-> "file", blob |-> 0]

(* The workspace gets the frozen input; an install needs the exact         *)
(* manifest and lockfile and gets the approved sources beside them.        *)
Materialize ==
    /\ task.at = "materialize" /\ task.kind \in {"command", "install"}
    /\ IF Install /\ ~(FrozenGraphIsApproved /\ \A p \in Staging : snap.input[p] = NoEntry)
       THEN Reject("capture_rejected") /\ index' = index
       ELSE /\ MaterializeInto("workspace", snap.input, IF Install THEN Staging ELSE {})
            /\ task' = [task EXCEPT !.at = "spawn", !.alive = TRUE]
            /\ scan' = scan
    /\ UNCHANGED <<snap, stamp, base>>

(* The command, or what is left of it, writes or deletes; a denied write   *)
(* of the direct child kills it, one of a descendant just fails.  Only the *)
(* command itself installs approved content, every other write is fresh.   *)
CommandWrites(p, e) ==
    /\ task.alive \/ task.escaped
    /\ Exists(disk["workspace"]) # {}
    /\ stamp < MaxWrites
    /\ SandboxAllows(p)
    /\ e \in {NoEntry, [kind |-> "file", blob |-> stamp + 1], [kind |-> "link", blob |-> stamp + 1]}
             \cup IF p \in Installed /\ task.alive THEN {[kind |-> "file", blob |-> Approved]} ELSE {}
    /\ e # disk["workspace"][p]
    /\ disk' = [disk EXCEPT !["workspace"][p] = e]
    /\ stamp' = stamp + 1
    /\ UNCHANGED <<index, scan, snap, task, base>>

CommandDenied(p) ==
    /\ task.alive /\ ~SandboxAllows(p)
    /\ ~(Install /\ p \in Staging)      \* gracefulDenyRoots
    /\ task' = [task EXCEPT !.alive = FALSE, !.denied = TRUE]
    /\ UNCHANGED <<disk, index, scan, snap, stamp, base>>

Finished == [task EXCEPT !.alive = FALSE]

(* Only a clean exit of a mutating command is captured.                    *)
CommandEnds(how, leaves) ==
    /\ task.at = "spawn"
    /\ IF task.denied THEN how = "sandbox_violation"
       ELSE how \in {"exit0", "exit1", "signaled", "rejected"}
    /\ \/ /\ how = "exit0" /\ task.class = "artifact_mutation"
          /\ task' = [Finished EXCEPT !.at = "verify", !.escaped = leaves]
          /\ UNCHANGED <<disk, scan>>
       \/ /\ ~(how = "exit0" /\ task.class = "artifact_mutation")
          /\ task' = [Finished EXCEPT !.at = "done", !.status =
                        IF how = "rejected" THEN "preflight_rejected"
                        ELSE IF how = "sandbox_violation" THEN how
                        ELSE IF task.class = "artifact_mutation" THEN "command_failed"
                        ELSE IF how = "signaled" THEN "signaled" ELSE "completed"]
          /\ Dropped
          /\ scan' = scan
    /\ UNCHANGED <<index, snap, stamp, base>>

BeginScan ==
    /\ scan.at = "list"
    /\ Freeze(scan.of, scan.into, scan.strict, scan.roots)
    /\ UNCHANGED <<disk, index, snap, task, stamp>>

ScanNext(of, into) ==
    /\ scan' = [of |-> of, into |-> into, strict |-> FALSE, roots |-> PersistentRoots,
                at |-> "list", todo |-> {}, listed |-> {}, got |-> NoTree]
    /\ task' = [task EXCEPT !.at = "freeze"]

(* verifyInstalledApprovedSources, and the provisioned copies that go.     *)
VerifyInstall ==
    /\ task.at = "verify"
    /\ IF Install /\ ~(IsApproved(disk["workspace"], Packages) /\ IsApproved(disk["workspace"], Staging))
       THEN Reject("capture_rejected")
       ELSE /\ disk' = [disk EXCEPT !["workspace"] =
                          [p \in Files |-> IF Install /\ p \in Staging THEN NoEntry ELSE @[p]]]
            /\ ScanNext("workspace", "pre")
    /\ UNCHANGED <<index, snap, stamp, base>>

Copy ==
    /\ task.at = "pre"
    /\ MaterializeInto("capture", snap.pre, {})
    /\ ScanNext("workspace", "post")
    /\ UNCHANGED <<snap, stamp, base>>

(* defect: the capture is not compared with what was there before the copy *)
ComparePostOnce ==
    /\ task.at = "post"
    /\ IF FALSE THEN Reject("capture_rejected")
       ELSE ScanNext("capture", "captured") /\ disk' = disk
    /\ UNCHANGED <<index, snap, stamp, base>>

ComparePost ==
    /\ task.at = "post"
    /\ IF snap.pre # snap.post THEN Reject("capture_rejected")
       ELSE ScanNext("capture", "captured") /\ disk' = disk
    /\ UNCHANGED <<index, snap, stamp, base>>

(* verifyCapturedInstalledApprovedSources: below the output root there is  *)
(* exactly what was approved.                                              *)
MetadataIsValid == IsApproved(snap.captured, Metadata)
InstalledSetIsExact ==
    /\ IsApproved(snap.captured, Packages)
    /\ MetadataIsValid
    /\ \A p \in Roots \ Installed : snap.captured[p] = NoEntry

Allowed(p) == \/ checkWrite(task.role, p)
              \/ Install /\ p \in Installed

Changes == Changed(snap.input, snap.captured)

DiffAccepts ==
    /\ Cardinality(Changes) <= MaxDiff
    /\ \A p \in Changes : /\ snap.input[p].kind # "link" /\ snap.captured[p].kind # "link"
                          /\ Allowed(p)

CompareCapture ==
    /\ task.at = "captured" /\ task.kind # "patch"
    /\ IF \/ snap.captured # snap.pre
          \/ Install /\ ~InstalledSetIsExact
          \/ ~DiffAccepts
       THEN Reject("capture_rejected")
       ELSE IF Changes = {} THEN Reject("no_changes")
       ELSE ScanNext("worktree", "fresh") /\ disk' = disk
    /\ UNCHANGED <<index, snap, stamp, base>>

CompareInput ==
    /\ task.at = "fresh"
    /\ IF snap.fresh # snap.input THEN Reject("capture_rejected")
       ELSE task' = [task EXCEPT !.at = "promote"] /\ UNCHANGED <<disk, scan>>
    /\ UNCHANGED <<index, snap, stamp, base>>

(* promote and applyPatch: one mutation batch, every path with what it is  *)
(* expected to hold.                                                       *)
applyMutationBatch ==
    /\ task.at = "promote"
    /\ IF \E p \in Changes : disk["worktree"][p] # snap.input[p]
       THEN Reject("capture_rejected")
       ELSE /\ Ends("promoted")
            /\ disk' = [d \in Places |->
                          IF d # "worktree" THEN NoTree
                          ELSE [p \in Files |-> IF p \in Changes THEN snap.captured[p]
                                                ELSE disk["worktree"][p]]]
            /\ scan' = scan
    /\ UNCHANGED <<index, snap, stamp, base>>

(* The helper is killed in the middle of the batch: some of it is done,    *)
(* and the caller puts its snapshot back.                                  *)
BatchKilled ==
    /\ task.at = "promote"
    /\ Cardinality(Changes) > 1
    /\ \E done \in SUBSET {p \in Changes : disk["worktree"][p] = snap.input[p]} :
          disk' = [d \in Places |->
                     IF d # "worktree" THEN NoTree
                     ELSE [p \in Files |-> IF p \in done THEN snap.captured[p]
                                           ELSE disk["worktree"][p]]]
    /\ Ends("capture_rejected")
    /\ UNCHANGED <<index, scan, snap, stamp, base>>

(* Deadline, cancellation, or a failing tool anywhere before.              *)
Interrupted ==
    /\ task.at \notin {"idle", "done"}
    /\ Reject("capture_rejected")
    /\ UNCHANGED <<index, snap, stamp, base>>

------------------------------------------------------------------------------
(* A patch, and the snapshot that the executor takes before an action *)

preparePatch(role) ==
    /\ task.at = "idle"
    /\ task' = [NoTask EXCEPT !.at = "freeze", !.kind = "patch", !.role = role]
    /\ snap' = NoSnap
    /\ Freeze("worktree", "input", FALSE, {})
    /\ UNCHANGED <<disk, index, stamp>>

(* git apply in the inspection copy: it may refuse; what it changes is the *)
(* difference of the two frozen copies, and its paths are checked.         *)
InspectPatch(S) ==
    /\ task.at = "materialize" /\ task.kind = "patch"
    /\ stamp < MaxWrites
    /\ \A p \in S : snap.input[p].kind # "link"
    /\ IF S # {} /\ \A p \in S : checkWrite(task.role, p)
       THEN /\ \E e \in {NoEntry, [kind |-> "file", blob |-> stamp + 1]} :
                 snap' = [snap EXCEPT !.captured = [p \in Files |-> IF p \in S THEN e ELSE snap.input[p]]]
            /\ task' = [task EXCEPT !.at = "promote"]
            /\ UNCHANGED <<disk, scan>>
       ELSE Reject("patch_rejected") /\ snap' = snap
    /\ stamp' = stamp + 1
    /\ UNCHANGED <<index, base>>

CaptureState ==
    /\ task.at = "idle"
    /\ task' = [NoTask EXCEPT !.at = "freeze", !.kind = "snapshot"]
    /\ snap' = NoSnap
    /\ Freeze("worktree", "input", TRUE, {})
    /\ UNCHANGED <<disk, index, stamp>>

SnapshotTaken ==
    /\ task.at = "materialize" /\ task.kind = "snapshot"
    /\ Ends("snapshot")
    /\ UNCHANGED <<disk, index, scan, snap, stamp, base>>

------------------------------------------------------------------------------
(* Others write to the worktree and delete there at any time; what they    *)
(* write is fresh, so a file that was there once does not come back.       *)

OthersWrite(p, e) ==
    /\ task.at \notin {"idle", "done"}
    /\ stamp < MaxWrites
    /\ e \in {NoEntry, [kind |-> "file", blob |-> stamp + 1]}
    /\ e # disk["worktree"][p]
    /\ disk' = [disk EXCEPT !["worktree"][p] = e]
    /\ stamp' = stamp + 1
    /\ UNCHANGED <<index, scan, snap, task, base>>

CommandNext ==
    \/ \E kind \in {"command", "install"}, role \in Roles, network \in {"none", "allow"},
          class \in {"artifact_mutation", "read_only_probe", "gate_check"},
          policy \in OfflinePolicies, sourcesIntact \in BOOLEAN :
            Execute(kind, role, class, network, policy, sourcesIntact)
    \/ BeginScan \/ ReadEntry \/ ListAgain \/ Frozen
    \/ Materialize
    \/ \E p \in Files, e \in Entry : CommandWrites(p, e) \/ OthersWrite(p, e)
    \/ \E p \in Files : CommandDenied(p)
    \/ \E how \in {"exit0", "exit1", "signaled", "rejected", "sandbox_violation"},
          leaves \in BOOLEAN : CommandEnds(how, leaves)
    \/ VerifyInstall
    \/ Copy \/ ComparePost \/ CompareCapture \/ CompareInput
    \/ applyMutationBatch \/ BatchKilled
    \/ Interrupted
    \/ \E role \in Roles : preparePatch(role)
    \/ \E S \in SUBSET Files : InspectPatch(S)
    \/ CaptureState \/ SnapshotTaken

CommandSpec == CommandInit /\ [][CommandNext]_commandVars

------------------------------------------------------------------------------
(* Properties *)

FileTrees == [Files -> Entry]
Slots == {"input", "pre", "post", "captured", "fresh"}
TaskTypes ==
    [at : {"idle", "freeze", "materialize", "spawn", "verify", "promote", "done"} \cup Slots,
     kind : {"none", "command", "install", "patch", "snapshot"}, role : Roles,
     class : {"none", "artifact_mutation", "read_only_probe", "gate_check"},
     alive : BOOLEAN, escaped : BOOLEAN, denied : BOOLEAN,
     status : {"none", "preflight_rejected", "capture_rejected", "sandbox_violation",
               "command_failed", "signaled", "completed", "no_changes", "promoted",
               "patch_rejected", "snapshot"}]

(* Every variable stays in its range, and only a listed path is to be read. *)
CommandTypeOK ==
    /\ disk \in [Places -> FileTrees] /\ base \in [Places -> FileTrees]
    /\ index \in [Places -> SUBSET Files]
    /\ scan \in [of : Places \cup {"nothing"}, into : Slots \cup {"nothing"}, strict : BOOLEAN,
                 roots : SUBSET Files, at : {"off", "list", "read", "reread"},
                 todo : SUBSET Files, listed : SUBSET Files, got : FileTrees]
    /\ scan.todo \subseteq scan.listed
    /\ snap \in [input : FileTrees, pre : FileTrees, post : FileTrees, captured : FileTrees, fresh : FileTrees]
    /\ task \in TaskTypes
    /\ stamp \in 0..MaxWrites

Visible(t, roots) == [p \in Files |-> IF p \in Ignored \ roots THEN NoEntry ELSE t[p]]

(* What t says of each path of a place was so when the place was last      *)
(* listed, except for a file that is taken for absent because it was gone  *)
(* when its turn came to be read: what was listed is not there any more.   *)
IsMomentOf(t, place) ==
    \A p \in Files : \/ t[p] = Visible(base[place], Roots)[p]
                     \/ t[p] = NoEntry /\ disk[place][p] # base[place][p]

(* What a command is about to promote is a state its workspace really had  *)
(* after the command ended, taken against a worktree that was still the    *)
(* one it started from, and a snapshot is a state the worktree really had, *)
(* whatever was written while paths were read one after the other.         *)
FrozenIsAMoment ==
    /\ task.at = "promote" /\ task.kind \in {"command", "install"} =>
          IsMomentOf(snap.captured, "workspace") /\ IsMomentOf(snap.input, "worktree")
    /\ task.status = "snapshot" => snap.input = base["worktree"]

(* Whatever reaches the worktree is a change its role may make or a file   *)
(* of an approved package with its approved content; what others wrote     *)
(* since the freeze stays.                                                 *)
OnlyAllowedEffects ==
    [][disk'["worktree"] # disk["worktree"] /\ stamp' = stamp =>
         \A p \in Changed(disk["worktree"], disk'["worktree"]) :
            /\ disk["worktree"][p] = snap.input[p]
            /\ p \notin Golden
            /\ task.role = "implementer" => p \notin FrozenRed
            /\ \/ p \in Writable[task.role]
               \/ task.kind = "install" /\ disk'["worktree"][p].blob = Approved]_commandVars
==============================================================================
