---------------------------- MODULE ServiceProofs ----------------------------
(***************************************************************************)
(* Proofs about the services around a run, for any values of their         *)
(* constants: the evidence store, governance, the console, the gate of a   *)
(* task graph, the gate runner with its red artifacts, and the out-of-band *)
(* auditor.  The services share no variable, so each has an invariant and  *)
(* a theorem of its own; the last theorem puts the two that make up the    *)
(* records of a run together.                                              *)
(***************************************************************************)
EXTENDS EvidenceStore, Governance, Console, TaskGraph, RunRecords,
        FiniteSetTheorems, SequenceTheorems, NaturalsInduction, WellFoundedInduction, TLAPS

\* A set of numbers that is not empty has a least element.
LEMMA HasLeast ==
    ASSUME NEW S \in SUBSET Nat, S # {}
    PROVE  \E x \in S : \A y \in S : x <= y
  <1>1. PICK x \in S : \A y \in S : ~(<<y, x>> \in OpToRel(<, Nat))
    BY NatLessThanWellFounded, WFMin
  <1>2. ASSUME NEW y \in S PROVE x <= y
    <2>1. ~(y < x)
      BY <1>1 DEF OpToRel
    <2>2. QED
      BY <2>1
  <1>3. QED
    BY <1>2

\* And one that is bounded has a greatest.
LEMMA HasLast ==
    ASSUME NEW N \in Nat, NEW S \in SUBSET (1..N), S # {}
    PROVE  \E x \in S : \A y \in S : y <= x
  <1> DEFINE Upper == {k \in Nat : \A m \in S : m <= k}
  <1>1. N \in Upper
    OBVIOUS
  <1>2. PICK x \in Upper : \A y \in Upper : x <= y
    <2>1. Upper \in SUBSET Nat /\ Upper # {}
      BY <1>1
    <2> HIDE DEF Upper
    <2>2. QED
      BY <2>1, HasLeast
  <1>3. x \in Nat /\ \A m \in S : m <= x /\ m \in Nat /\ m >= 1
    BY <1>2
  <1>4. x \in S
    <2>1. SUFFICES ASSUME x \notin S PROVE FALSE
      OBVIOUS
    <2>2. \A m \in S : m <= x - 1
      BY <1>3, <2>1
    <2>3. x - 1 \in Nat
      <3>1. PICK m \in S : m <= x /\ m \in Nat /\ m >= 1
        BY <1>3
      <3>2. QED
        BY <1>3, <3>1
    <2>4. QED
      BY <1>2, <1>3, <2>2, <2>3
  <1>5. QED
    BY <1>3, <1>4

-------------------------------------------------------------------------------
(* EvidenceStore: OneKeyPerRun is inductive together with the types.  The      *)
(* metadata is written once, by a process that finds none, so before that      *)
(* nobody has opened anything, and afterwards nothing changes it.              *)

\* What every step keeps.
StoreInv == StoreTypeOK /\ OneKeyPerRun

\* A process that opens the store.
OpenerType ==
    [at : {"idle", "writing", "private", "metadata"}, public : Key, private : Key, result : Results]

\* A call that returns changes nothing but its process's place and result.
LEMMA OpenerReturnKeeps ==
    ASSUME StoreInv, NEW p \in Openers, NEW r \in Results, OpenerGets(p, r)
    PROVE  /\ opener' \in [Openers -> OpenerType]
           /\ \A q \in Openers : /\ opener'[q].public = opener[q].public
                                 /\ opener'[q].private = opener[q].private
  BY DEF StoreInv, StoreTypeOK, OpenerGets, OpenerType

\* So does a call that moves to its next step.
LEMMA MoveKeepsInv ==
    ASSUME StoreInv, NEW p \in Openers, NEW at \in {"idle", "writing", "private", "metadata"},
           opener' = [opener EXCEPT ![p].at = at]
    PROVE  /\ opener' \in [Openers -> OpenerType]
           /\ \A q \in Openers : /\ opener'[q].public = opener[q].public
                                 /\ opener'[q].private = opener[q].private
  BY DEF StoreInv, StoreTypeOK, OpenerType

\* Key material is opened for one process, under the one key of the metadata.
LEMMA OpeningKeepsInv ==
    ASSUME StoreInv, NEW p \in Openers, NEW k \in Key, buildAuthenticator(p, k, k),
           k = signing.public', signing.public # NoKey => k = signing.public
    PROVE  /\ opener' \in [Openers -> OpenerType]
           /\ OneKeyPerRun'
  <1>1. opener' \in [Openers -> OpenerType]
    BY DEF StoreInv, StoreTypeOK, buildAuthenticator, OpenerType, Results
  <1>2. SUFFICES ASSUME NEW q \in Openers, opener'[q].public # NoKey
                 PROVE  opener'[q].public = k /\ opener'[q].private = k
    BY <1>1 DEF OneKeyPerRun
  <1>3. CASE q = p
    BY <1>3 DEF StoreInv, StoreTypeOK, buildAuthenticator
  <1>4. CASE q # p
    BY <1>2, <1>4 DEF StoreInv, StoreTypeOK, buildAuthenticator, OneKeyPerRun
  <1>5. QED
    BY <1>3, <1>4

\* While the metadata stands, processes that keep what they have opened agree with it.
LEMMA UnopenedKeepsKey ==
    ASSUME StoreInv, signing'.public = signing.public,
           \A q \in Openers : /\ opener'[q].public = opener[q].public
                              /\ opener'[q].private = opener[q].private
    PROVE  OneKeyPerRun'
  BY DEF StoreInv, OneKeyPerRun

\* The bound on mishaps.
LEMMA MishapsBounded == StoreTypeOK /\ Mishap => storeMishaps' \in 0..MaxMishaps
  <1>1. StoreTypeOK => storeMishaps \in 0..MaxMishaps
    BY DEF StoreTypeOK
  <1>2. QED
    BY <1>1, MishapsAssumption DEF Mishap

(* Initially nothing is there and nobody has opened it. *)
LEMMA StoreInitInv == StoreInit => StoreInv
  <1>1. NoKey \in Key /\ "none" \in Results
    BY DEF Key, Results
  <1> SUFFICES ASSUME StoreInit PROVE StoreInv
    OBVIOUS
  <1>2. signing \in [dir : BOOLEAN, private : Key, public : Key, privateMode : BOOLEAN,
                     publicMode : BOOLEAN]
    BY <1>1 DEF StoreInit
  <1>3. Resting \in OpenerType /\ Resting.public = NoKey
    BY <1>1 DEF Resting, OpenerType
  <1>4. opener \in [Openers -> OpenerType] /\ \A p \in Openers : opener[p].public = NoKey
    BY <1>3 DEF StoreInit
  <1>5. blob = "absent" /\ storeMishaps \in 0..MaxMishaps
    BY MishapsAssumption DEF StoreInit
  <1>6. StoreTypeOK
    <2>1. blob \in {"absent", "partial", "whole", "damaged"}
      BY <1>5
    <2>2. QED
      BY <2>1, <1>2, <1>4, <1>5, Zenon DEF StoreTypeOK, OpenerType
  <1>7. OneKeyPerRun
    BY <1>4 DEF OneKeyPerRun
  <1>8. QED
    BY <1>6, <1>7 DEF StoreInv

(* Every step of a process and every mishap keeps the invariant. *)
THEOREM StoreStepInv == StoreInv /\ [StoreNext]_storeVars => StoreInv'
  <1> SUFFICES ASSUME StoreInv, [StoreNext]_storeVars PROVE StoreInv'
    OBVIOUS
  <1> USE OpenersAssumption
  <1>1. ASSUME NEW p \in Openers, PutCreates(p) PROVE StoreInv'
    BY <1>1, MoveKeepsInv, UnopenedKeepsKey DEF PutCreates, StoreInv, StoreTypeOK, OpenerType
  <1>2. ASSUME NEW p \in Openers, PutWrites(p) PROVE StoreInv'
    <2>1. "stored" \in Results
      BY DEF Results
    <2>2. QED
      BY <1>2, <2>1, OpenerReturnKeeps, UnopenedKeepsKey DEF PutWrites, StoreInv, StoreTypeOK, OpenerType
  <1>3. ASSUME NEW p \in Openers, PutFindsExisting(p) PROVE StoreInv'
    <2>1. (IF blob = "whole" THEN "stored" ELSE "existing_blob_mismatch") \in Results
      BY DEF Results
    <2>2. QED
      BY <1>3, <2>1, OpenerReturnKeeps, UnopenedKeepsKey
      DEF PutFindsExisting, StoreInv, StoreTypeOK, OpenerType
  <1>4. ASSUME NEW p \in Openers, get(p) PROVE StoreInv'
    <2> DEFINE r == CASE blob = "absent" -> "missing_blob" [] blob = "whole" -> "bytes"
                      [] OTHER -> "hash_mismatch"
    <2>1. r \in Results
      BY DEF Results
    <2>2. OpenerGets(p, r) /\ UNCHANGED <<blob, signing, storeMishaps>>
      BY <1>4 DEF get
    <2> HIDE DEF r
    <2>3. QED
      BY <2>1, <2>2, OpenerReturnKeeps, UnopenedKeepsKey DEF StoreInv, StoreTypeOK, OpenerType
  <1>5. ASSUME NEW p \in Openers, WritePrivateKey(p) PROVE StoreInv'
    <2>1. /\ signing' \in [dir : BOOLEAN, private : Key, public : Key, privateMode : BOOLEAN,
                           publicMode : BOOLEAN]
          /\ signing'.public = signing.public
      BY <1>5 DEF WritePrivateKey, StoreInv, StoreTypeOK, Key
    <2>2. "EEXIST" \in Results
      BY DEF Results
    <2>3. /\ opener' \in [Openers -> OpenerType]
          /\ \A q \in Openers : /\ opener'[q].public = opener[q].public
                                /\ opener'[q].private = opener[q].private
      <3>1. CASE signing.private = NoKey
        BY <1>5, <3>1, MoveKeepsInv DEF WritePrivateKey
      <3>2. CASE signing.private # NoKey
        BY <1>5, <2>2, <3>2, OpenerReturnKeeps DEF WritePrivateKey
      <3>3. QED
        BY <3>1, <3>2
    <2>4. QED
      BY <1>5, <2>1, <2>3, UnopenedKeepsKey DEF WritePrivateKey, StoreInv, StoreTypeOK, OpenerType
  <1>6. ASSUME NEW p \in Openers, WriteMetadata(p) PROVE StoreInv'
    <2>1. CASE signing.public = NoKey
      <3>1. /\ signing' \in [dir : BOOLEAN, private : Key, public : Key, privateMode : BOOLEAN,
                             publicMode : BOOLEAN]
            /\ p = signing'.public /\ p \in Key
        <4>1. p \in Key
          BY DEF Key
        <4>2. signing' = [signing EXCEPT !.public = p, !.publicMode = TRUE]
          BY <1>6, <2>1 DEF WriteMetadata
        <4>3. QED
          BY <4>1, <4>2 DEF StoreInv, StoreTypeOK
      <3>2. buildAuthenticator(p, p, p)
        BY <1>6, <2>1 DEF WriteMetadata
      <3>3. opener' \in [Openers -> OpenerType] /\ OneKeyPerRun'
        BY <2>1, <3>1, <3>2, OpeningKeepsInv
      <3>4. QED
        BY <1>6, <3>1, <3>3 DEF WriteMetadata, StoreInv, StoreTypeOK, OpenerType
    <2>2. CASE signing.public # NoKey
      <3>1. "EEXIST" \in Results
        BY DEF Results
      <3>2. QED
        BY <1>6, <2>2, <3>1, OpenerReturnKeeps, UnopenedKeepsKey
        DEF WriteMetadata, StoreInv, StoreTypeOK, OpenerType
    <2>3. QED
      BY <2>1, <2>2
  <1>7. ASSUME NEW p \in Openers, NEW w \in BOOLEAN, OpenNew(p, w) PROVE StoreInv'
    <2>1. /\ signing' \in [dir : BOOLEAN, private : Key, public : Key, privateMode : BOOLEAN,
                           publicMode : BOOLEAN]
          /\ signing'.public = signing.public
      BY <1>7 DEF OpenNew, StoreInv, StoreTypeOK
    <2>2. {"private_key_inside_worktree", "auth_already_initialized"} \subseteq Results
      BY DEF Results
    <2>3. \/ OpenerGets(p, "private_key_inside_worktree")
          \/ OpenerGets(p, "auth_already_initialized")
          \/ opener' = [opener EXCEPT ![p].at = "private"]
      BY <1>7 DEF OpenNew
    <2>4. /\ opener' \in [Openers -> OpenerType]
          /\ \A q \in Openers : /\ opener'[q].public = opener[q].public
                                /\ opener'[q].private = opener[q].private
      BY <2>2, <2>3, OpenerReturnKeeps, MoveKeepsInv
    <2>5. QED
      BY <1>7, <2>1, <2>4, UnopenedKeepsKey DEF OpenNew, StoreInv, StoreTypeOK, OpenerType
  <1>8. ASSUME NEW p \in Openers, NEW w \in BOOLEAN, OpenRecovering(p, w) PROVE StoreInv'
    <2>1. RecoveryRefusal(w) \in Results
      BY DEF RecoveryRefusal, Results
    <2>2. CASE RecoveryRefusal(w) = "none"
      <3>1. signing.private = signing.public /\ signing.public \in Key
        BY <2>2 DEF RecoveryRefusal, StoreInv, StoreTypeOK
      <3>2. buildAuthenticator(p, signing.public, signing.public) /\ UNCHANGED signing
        BY <1>8, <2>2, <3>1 DEF OpenRecovering
      <3>3. opener' \in [Openers -> OpenerType] /\ OneKeyPerRun'
        BY <3>1, <3>2, OpeningKeepsInv
      <3>4. QED
        BY <1>8, <3>2, <3>3 DEF OpenRecovering, StoreInv, StoreTypeOK, OpenerType
    <2>3. CASE RecoveryRefusal(w) # "none"
      BY <1>8, <2>1, <2>3, OpenerReturnKeeps, UnopenedKeepsKey
      DEF OpenRecovering, StoreInv, StoreTypeOK, OpenerType
    <2>4. QED
      BY <2>2, <2>3
  <1>9. ASSUME NEW p \in Openers, StoreCrash(p) PROVE StoreInv'
    <2>1. NoKey \in Key /\ "none" \in Results
      BY DEF Key, Results
    <2>2. Resting \in OpenerType /\ Resting.public = NoKey
      BY <2>1 DEF Resting, OpenerType
    <2>3. opener' = [opener EXCEPT ![p] = Resting] /\ UNCHANGED <<blob, signing>> /\ Mishap
      BY <1>9 DEF StoreCrash
    <2>4. opener' \in [Openers -> OpenerType]
      BY <2>2, <2>3 DEF StoreInv, StoreTypeOK, OpenerType
    <2>5. StoreTypeOK'
      BY <2>3, <2>4, MishapsBounded DEF StoreInv, StoreTypeOK, OpenerType
    <2>6. OneKeyPerRun'
      BY <2>2, <2>3 DEF StoreInv, StoreTypeOK, OneKeyPerRun
    <2>7. QED
      BY <2>5, <2>6 DEF StoreInv
  <1>10. ASSUME BlobDamaged PROVE StoreInv'
    <2>1. blob' \in {"absent", "partial", "whole", "damaged"} /\ UNCHANGED <<signing, opener>>
      BY <1>10 DEF BlobDamaged
    <2>2. storeMishaps' \in 0..MaxMishaps
      BY <1>10, MishapsBounded DEF BlobDamaged, StoreInv
    <2>3. QED
      BY <2>1, <2>2 DEF StoreInv, StoreTypeOK, OneKeyPerRun
  <1>11. ASSUME PrivateKeyRemoved PROVE StoreInv'
    <2>1. /\ signing' = [signing EXCEPT !.private = NoKey] /\ UNCHANGED <<blob, opener>>
          /\ NoKey \in Key
      BY <1>11 DEF PrivateKeyRemoved, Key
    <2>2. storeMishaps' \in 0..MaxMishaps
      BY <1>11, MishapsBounded DEF PrivateKeyRemoved, StoreInv
    <2>3. QED
      BY <2>1, <2>2 DEF StoreInv, StoreTypeOK, OneKeyPerRun
  <1>12. ASSUME ModesChanged PROVE StoreInv'
    <2>1. PICK private \in BOOLEAN, public \in BOOLEAN :
              signing' = [signing EXCEPT !.privateMode = private, !.publicMode = public]
      BY <1>12 DEF ModesChanged
    <2>2. storeMishaps' \in 0..MaxMishaps /\ UNCHANGED <<blob, opener>>
      BY <1>12, MishapsBounded DEF ModesChanged, StoreInv
    <2>3. QED
      BY <2>1, <2>2 DEF StoreInv, StoreTypeOK, OneKeyPerRun
  <1>13. CASE UNCHANGED storeVars
    BY <1>13 DEF storeVars, StoreInv, StoreTypeOK, OneKeyPerRun
  <1>14. QED
    BY <1>1, <1>2, <1>3, <1>4, <1>5, <1>6, <1>7, <1>8, <1>9, <1>10, <1>11, <1>12, <1>13 DEF StoreNext

(* The invariant holds in every reachable state. *)
THEOREM StoreAlwaysInv == StoreSpec => []StoreInv
  BY StoreInitInv, StoreStepInv, PTL DEF StoreSpec

(* Every variable stays in its range, for any processes and any mishaps. *)
THEOREM StoreTypeCorrect == StoreSpec => []StoreTypeOK
  <1>1. StoreInv => StoreTypeOK
    BY DEF StoreInv
  <1>2. QED
    BY <1>1, StoreAlwaysInv, PTL

(* Whoever has opened the run's signing material holds the key that the    *)
(* metadata has frozen.  (evidence/auth.ts, openEvidenceAuthenticator.)    *)
THEOREM KeyIsOne == StoreSpec => []OneKeyPerRun
  <1>1. StoreInv => OneKeyPerRun
    BY DEF StoreInv
  <1>2. QED
    BY <1>1, StoreAlwaysInv, PTL
-------------------------------------------------------------------------------
(* Governance: GovernanceIsHonoured is not inductive.  A file reaches approved/ *)
(* two steps after the approval was looked up, and the sweep of a task is a    *)
(* loop of its own.  The invariant adds what happens in between: a promotion   *)
(* under way and every lesson still to be swept has its approval in the log    *)
(* (PromotionsAreApproved), and an approval the sweep has seen took effect, or *)
(* is still in the queue, or is the promotion under way (SweepIsComplete).  The *)
(* log only grows, so what it held it holds (AppendKeeps).                     *)

\* The two records of a decision, and what the log is made of.
GovRecord == [type : {"GOVERNANCE_PROPOSED", "GOVERNANCE_CHANGE"}, p : governanceProposalId]
\* The promotion of a lesson has its approval in the log.
ApprovedIn(l) == Changed(govLog, LessonPromote(l))
\* The approval was there when the run read the log.
Seen(l) == \E i \in 1..govRun.loadedAt : govLog[i] = Change(LessonPromote(l))

\* Where a promotion is under way, and where the sweep of a task is.
Promoting == {"promote", "promote_write", "promote_unlink"}
\* The sweep, the lessons served after it, and a promotion out of either.
Sweeping == Promoting \cup {"reconciling", "serving", "approving"}

\* Whatever is to be promoted has been approved, and every place knows its subject.
PromotionsAreApproved ==
    /\ govRun.queue \subseteq {l \in LessonIds : ApprovedIn(l)}
    /\ govRun.pc \in Promoting => /\ govRun.lesson \in LessonIds /\ ApprovedIn(govRun.lesson)
                                  /\ govRun.back \in {"reconciling", "serving"}
    /\ govRun.pc \in {"lesson", "lesson_write", "lesson_propose"} => govRun.lesson \in LessonIds
    /\ govRun.pc \in {"refusing", "approving"} => govRun.proposal \in governanceProposalId

\* A lesson that still lies where its proposal left it.
Unmoved(l) == lessonFiles[l].pending = "ok" /\ lessonFiles[l].approved = "none"
\* An approval the run has read took effect, or is in the queue, or is under way;
\* a run that serves has nothing left in the queue.
SweepIsComplete ==
    /\ govRun.loadedAt <= Len(govLog)
    /\ govRun.pc \in {"serving", "approving"} => govRun.queue = {}
    /\ govRun.pc \in Promoting /\ govRun.back = "serving" => govRun.queue = {}
    /\ govRun.pc \in Sweeping =>
         \A l \in LessonIds : Seen(l) /\ Unmoved(l) =>
             l \in govRun.queue \/ (govRun.pc = "promote" /\ govRun.lesson = l)

\* What every step keeps.
GovInv == GovernanceTypeOK /\ LessonsAreApproved /\ PromotionsAreApproved /\ SweepIsComplete

-------------------------------------------------------------------------------
\* What the log holds it holds after an append.
LEMMA AppendKeeps ==
    ASSUME govLog \in Seq(GovRecord), NEW e \in GovRecord, govLog' = Append(govLog, e)
    PROVE  /\ govLog' \in Seq(GovRecord) /\ Len(govLog') = Len(govLog) + 1
           /\ \A i \in DOMAIN govLog : i \in DOMAIN govLog' /\ govLog'[i] = govLog[i]
           /\ govLog'[Len(govLog) + 1] = e
           /\ \A l \in LessonIds : ApprovedIn(l) => ApprovedIn(l)'
  <1>1. /\ govLog' \in Seq(GovRecord) /\ Len(govLog') = Len(govLog) + 1
        /\ \A i \in 1..Len(govLog) : govLog'[i] = govLog[i]
        /\ govLog'[Len(govLog) + 1] = e
    OBVIOUS
  <1>2. DOMAIN govLog = 1..Len(govLog) /\ DOMAIN govLog' = 1..(Len(govLog) + 1)
    BY <1>1
  <1>3. \A i \in DOMAIN govLog : i \in DOMAIN govLog' /\ govLog'[i] = govLog[i]
    BY <1>1, <1>2
  <1>4. \A l \in LessonIds : ApprovedIn(l) => ApprovedIn(l)'
    BY <1>3 DEF ApprovedIn, Changed, Logged, Change, LessonPromote
  <1>5. QED
    BY <1>1, <1>3, <1>4

\* Every proposal the model builds is one, and its two records can be logged.
LEMMA Proposals ==
    /\ \A b \in Snapshots \cup {NoSnapshot}, a \in Snapshots : PolicyChange(b, a) \in governanceProposalId
    /\ \A l \in LessonIds : LessonPromote(l) \in governanceProposalId
    /\ \A t \in GovTasks : FlakyQuarantine(t) \in governanceProposalId
    /\ \A p \in governanceProposalId : p.after \in Snapshots \cup {NoSnapshot}
    /\ \A p \in governanceProposalId : p.kind = "lesson_promote" =>
          p.subject \in LessonIds /\ p = LessonPromote(p.subject)
    /\ \A p \in governanceProposalId : Proposed(p) \in GovRecord /\ Change(p) \in GovRecord
  BY DEF governanceProposalId, PolicyChange, LessonPromote, FlakyQuarantine, Proposed, Change, GovRecord

\* A nonempty set of places of a log has a last one.
LEMMA LastPlace ==
    ASSUME NEW n \in Nat, NEW S \in SUBSET (1..n), S # {}
    PROVE  Max(S) \in S
  <1> DEFINE D == {n - x : x \in S}
  <1>1. D \in SUBSET Nat /\ D # {}
    <2>1. \A x \in S : n - x \in Nat
      OBVIOUS
    <2>2. QED
      BY <2>1, Zenon
  <1>2. PICK d \in D : \A y \in D : ~(<<y, d>> \in OpToRel(<, Nat))
    BY <1>1, NatLessThanWellFounded, WFMin
  <1>3. PICK x \in S : d = n - x
    BY <1>2
  <1>4. ASSUME NEW y \in S PROVE x >= y
    <2>1. n - y \in D /\ n - y \in Nat /\ n - x \in Nat
      OBVIOUS
    <2>2. ~(n - y < n - x)
      BY <1>2, <1>3, <2>1 DEF OpToRel
    <2>3. QED
      BY <2>2
  <1>5. QED
    BY <1>3, <1>4 DEF Max

\* The policy last approved is a snapshot, or there is none.
LEMMA LastApprovedIsSnapshot ==
    ASSUME govLog \in Seq(GovRecord)
    PROVE  lastApprovedPolicyHash(govLog) \in Snapshots \cup {NoSnapshot}
  <1> DEFINE changes == {i \in DOMAIN govLog : govLog[i].type = "GOVERNANCE_CHANGE" /\ govLog[i].p.kind = "policy_change"}
  <1>1. CASE changes = {}
    BY <1>1 DEF lastApprovedPolicyHash
  <1>2. CASE changes # {}
    <2>1. Len(govLog) \in Nat /\ changes \in SUBSET (1..Len(govLog))
      OBVIOUS
    <2>2. Max(changes) \in changes
      BY <1>2, <2>1, LastPlace
    <2>3. govLog[Max(changes)] \in GovRecord
      BY <2>2
    <2>4. govLog[Max(changes)].p.after \in Snapshots \cup {NoSnapshot}
      BY <2>3, Proposals DEF GovRecord
    <2>5. QED
      BY <1>2, <2>4 DEF lastApprovedPolicyHash
  <1>3. QED
    BY <1>1, <1>2

\* A file that is written changes one entry of one lesson.
LEMMA FileEffect ==
    ASSUME lessonFiles \in [LessonIds -> [LessonDirs -> FileStates]], NEW l \in LessonIds,
           NEW d \in LessonDirs, NEW s \in FileStates, SetFile(l, d, s)
    PROVE  /\ lessonFiles' \in [LessonIds -> [LessonDirs -> FileStates]]
           /\ lessonFiles'[l][d] = s
           /\ \A e \in LessonDirs : e # d => lessonFiles'[l][e] = lessonFiles[l][e]
           /\ \A k \in LessonIds : k # l => lessonFiles'[k] = lessonFiles[k]
  <1>1. [lessonFiles[l] EXCEPT ![d] = s] \in [LessonDirs -> FileStates]
    OBVIOUS
  <1>2. QED
    BY <1>1 DEF SetFile
\* The directories and file states the steps write.
LEMMA Dirs == "pending" \in LessonDirs /\ "approved" \in LessonDirs
              /\ "none" \in FileStates /\ "torn" \in FileStates /\ "ok" \in FileStates
  BY DEF LessonDirs, FileStates

-------------------------------------------------------------------------------
(* The steps of the run that leave the log alone, or add to it.                *)
LEMMA GovTypes ==
    ASSUME GovInv
    PROVE  /\ govRun \in GovRunType /\ govLog \in Seq(GovRecord)
           /\ lessonFiles \in [LessonIds -> [LessonDirs -> FileStates]]
           /\ policyFiles \in Snapshots /\ govCli \in governanceProposalId \cup {NoSubject}
           /\ govSpent \in [edits : 0..MaxPolicyEdits, runs : 0..MaxGovRuns]
           /\ \A l \in LessonIds : lessonFiles[l].approved # "none" \/ l \in govRun.loaded => ApprovedIn(l)
  BY DEF GovInv, GovernanceTypeOK, GovRecord, LessonsAreApproved, ApprovedIn

\* The invariant from its parts, after a step.
LEMMA PartsBack ==
    ASSUME govRun' \in GovRunType, govLog' \in Seq(GovRecord),
           lessonFiles' \in [LessonIds -> [LessonDirs -> FileStates]],
           policyFiles' \in Snapshots, govCli' \in governanceProposalId \cup {NoSubject},
           govSpent' \in [edits : 0..MaxPolicyEdits, runs : 0..MaxGovRuns],
           \A l \in LessonIds : lessonFiles'[l].approved # "none" \/ l \in govRun'.loaded => ApprovedIn(l)',
           PromotionsAreApproved', SweepIsComplete'
    PROVE  GovInv'
  BY DEF GovInv, GovernanceTypeOK, GovRecord, LessonsAreApproved, ApprovedIn

\* A run that is down has forgotten everything.
LEMMA DownType == Down \in GovRunType /\ Down.pc = "down" /\ Down.queue = {} /\ Down.loaded = {}
                  /\ Down.loadedAt = 0
  <1>1. {} \in SUBSET LessonIds /\ {} \in SUBSET GovTasks /\ 0 \in Nat /\ "down" \in RunPlaces
    BY DEF RunPlaces
  <1>2. QED
    BY <1>1 DEF Down, GovRunType

\* A run that is down, or between tasks, promises nothing.
LEMMA QuietInv ==
    ASSUME govRun'.queue = {}, govRun'.pc \in {"down", "between", "folding"}, govRun'.loadedAt = 0,
           govLog' \in Seq(GovRecord)
    PROVE  PromotionsAreApproved' /\ SweepIsComplete'
  <1>1. Len(govLog') \in Nat
    OBVIOUS
  <1>2. QED
    BY <1>1 DEF PromotionsAreApproved, SweepIsComplete, Promoting, Sweeping

\* One step of the run over the same log and files.
LEMMA RunMoves ==
    ASSUME GovInv, govRun' \in GovRunType, UNCHANGED <<policyFiles, govLog, lessonFiles, govCli>>,
           govSpent' \in [edits : 0..MaxPolicyEdits, runs : 0..MaxGovRuns],
           govRun'.loaded \subseteq govRun.loaded \cup {l \in LessonIds : lessonFiles[l].approved # "none"},
           PromotionsAreApproved', SweepIsComplete'
    PROVE  GovInv'
  <1>1. \A l \in LessonIds : lessonFiles'[l].approved # "none" \/ l \in govRun'.loaded => ApprovedIn(l)'
    BY GovTypes DEF ApprovedIn
  <1>2. QED
    BY <1>1, GovTypes, PartsBack

\* A run that starts has no lesson in hand (ensureGovernanceApproved).
LEMMA StartKeeps == GovInv /\ ensureGovernanceApproved => GovInv'
  <1> SUFFICES ASSUME GovInv, ensureGovernanceApproved PROVE GovInv'
    OBVIOUS
  <1> DEFINE before == lastApprovedPolicyHash(govLog)
             p == PolicyChange(before, policyFiles)
  <1>1. p \in governanceProposalId
    BY GovTypes, LastApprovedIsSnapshot, Proposals
  <1>2. /\ UNCHANGED <<policyFiles, govLog, lessonFiles, govCli>>
        /\ govSpent' = [govSpent EXCEPT !.runs = @ + 1] /\ govSpent.runs < MaxGovRuns
        /\ \/ govRun' = Down
           \/ govRun' = [Down EXCEPT !.pc = "between", !.todo = GovTasks]
           \/ govRun' = [Down EXCEPT !.pc = "refusing", !.proposal = p]
    BY DEF ensureGovernanceApproved
  <1>3. govSpent' \in [edits : 0..MaxPolicyEdits, runs : 0..MaxGovRuns]
    <2>1. govSpent.runs + 1 \in 0..MaxGovRuns
      BY <1>2, GovTypes, GovernanceAssumption
    <2>2. QED
      BY <1>2, <2>1, GovTypes
  <1>4. /\ govRun' \in GovRunType /\ govRun'.queue = {} /\ govRun'.loaded = {} /\ govRun'.loadedAt = 0
        /\ govRun'.pc \in {"down", "between"} \/ (govRun'.pc = "refusing" /\ govRun'.proposal = p)
    <2>1. "between" \in RunPlaces /\ "refusing" \in RunPlaces /\ GovTasks \in SUBSET GovTasks
      BY DEF RunPlaces
    <2>2. QED
      BY <1>1, <1>2, <2>1, DownType DEF GovRunType
  <1>5. PromotionsAreApproved' /\ SweepIsComplete'
    <2>1. Len(govLog') \in Nat
      BY <1>2, GovTypes
    <2>2. QED
      BY <1>1, <1>4, <2>1 DEF PromotionsAreApproved, SweepIsComplete, Promoting, Sweeping
  <1>6. QED
    BY <1>2, <1>3, <1>4, <1>5, RunMoves

\* Reading the log queues exactly the approvals it holds.
LEMMA LoadTaskKeeps == GovInv /\ LoadTask => GovInv'
  <1> SUFFICES ASSUME GovInv, LoadTask PROVE GovInv'
    OBVIOUS
  <1>1. UNCHANGED <<policyFiles, govLog, lessonFiles, govCli, govSpent>> /\ govRun.pc = "between"
    BY DEF LoadTask, OnlyRun
  <1>2. PICK t \in govRun.todo :
          \/ govRun' = [govRun EXCEPT !.todo = @ \ {t}]
          \/ govRun' = [govRun EXCEPT !.todo = @ \ {t}, !.pc = "reconciling", !.loadedAt = Len(govLog),
                                      !.queue = ApprovedLessons(govLog)]
    BY DEF LoadTask
  <1>3. CASE govRun' = [govRun EXCEPT !.todo = @ \ {t}]
    <2>1. /\ govRun' \in GovRunType /\ govRun'.loaded = govRun.loaded /\ govRun'.pc = govRun.pc
          /\ govRun'.queue = govRun.queue /\ govRun'.loadedAt = govRun.loadedAt
      BY <1>3, GovTypes DEF GovRunType
    <2>2. PromotionsAreApproved' /\ SweepIsComplete'
      BY <1>1, <2>1 DEF GovInv, PromotionsAreApproved, SweepIsComplete, Promoting, Sweeping, ApprovedIn
    <2>3. QED
      BY <1>1, <2>1, <2>2, GovTypes, RunMoves
  <1>4. CASE govRun' = [govRun EXCEPT !.todo = @ \ {t}, !.pc = "reconciling", !.loadedAt = Len(govLog),
                                      !.queue = ApprovedLessons(govLog)]
    <2>1. Len(govLog) \in Nat /\ ApprovedLessons(govLog) \in SUBSET LessonIds /\ "reconciling" \in RunPlaces
      BY GovTypes DEF ApprovedLessons, RunPlaces
    <2>2. /\ govRun' \in GovRunType /\ govRun'.loaded = govRun.loaded /\ govRun'.pc = "reconciling"
          /\ govRun'.queue = ApprovedLessons(govLog) /\ govRun'.loadedAt = Len(govLog)
      BY <1>4, <2>1, GovTypes DEF GovRunType
    <2>3. \A l \in LessonIds : Seen(l)' => l \in govRun'.queue
      BY <1>1, <2>2, GovTypes DEF Seen, ApprovedLessons, Changed, Logged
    <2>4. PromotionsAreApproved' /\ SweepIsComplete'
      BY <1>1, <2>1, <2>2, <2>3 DEF PromotionsAreApproved, SweepIsComplete, Promoting, ApprovedIn, ApprovedLessons
    <2>5. QED
      BY <1>1, <2>2, <2>4, GovTypes, RunMoves
  <1>5. QED
    BY <1>2, <1>3, <1>4

\* A promotion that begins: of an approved lesson, with nothing else to sweep or
\* with the rest of the queue.
LEMMA StartPromotionType ==
    ASSUME govRun \in GovRunType, NEW l \in LessonIds, NEW back \in {"reconciling", "serving"}
    PROVE  /\ StartPromotion(l, back) \in GovRunType
           /\ StartPromotion(l, back).queue = govRun.queue
           /\ StartPromotion(l, back).loaded = govRun.loaded
           /\ StartPromotion(l, back).loadedAt = govRun.loadedAt
           /\ IF lessonFiles[l].pending = "ok"
              THEN /\ StartPromotion(l, back).pc = "promote" /\ StartPromotion(l, back).lesson = l
                   /\ StartPromotion(l, back).back = back
              ELSE StartPromotion(l, back).pc = back
  <1>1. "promote" \in RunPlaces /\ back \in RunPlaces /\ l \in LessonIds \cup {NoSubject}
    BY DEF RunPlaces
  <1>2. QED
    BY <1>1 DEF StartPromotion, GovRunType

\* A lesson leaves the queue for the promotion, and no other way.
LEMMA ReconcileKeeps == GovInv /\ Reconcile => GovInv'
  <1> SUFFICES ASSUME GovInv, Reconcile PROVE GovInv'
    OBVIOUS
  <1>1. UNCHANGED <<policyFiles, govLog, lessonFiles, govCli, govSpent>> /\ govRun.pc = "reconciling"
    BY DEF Reconcile, OnlyRun
  <1>2. PICK l \in govRun.queue :
          \/ lessonFiles[l].approved # "none" /\ govRun' = [govRun EXCEPT !.queue = @ \ {l}]
          \/ /\ lessonFiles[l].approved = "none"
             /\ govRun' = [StartPromotion(l, "reconciling") EXCEPT !.queue = @ \ {l}]
    BY DEF Reconcile
  <1>3. l \in LessonIds /\ ApprovedIn(l)
    BY DEF GovInv, PromotionsAreApproved
  <1>4. /\ govRun' \in GovRunType /\ govRun'.queue = govRun.queue \ {l}
        /\ govRun'.loaded = govRun.loaded /\ govRun'.loadedAt = govRun.loadedAt
        /\ \/ govRun'.pc = "reconciling" /\ ~Unmoved(l)
           \/ govRun'.pc = "promote" /\ govRun'.lesson = l /\ govRun'.back = "reconciling"
    <2>1. govRun \in GovRunType
      BY GovTypes
    <2>2. CASE lessonFiles[l].approved # "none" /\ govRun' = [govRun EXCEPT !.queue = @ \ {l}]
      BY <1>1, <2>1, <2>2 DEF GovRunType, Unmoved
    <2>3. CASE /\ lessonFiles[l].approved = "none"
               /\ govRun' = [StartPromotion(l, "reconciling") EXCEPT !.queue = @ \ {l}]
      <3> DEFINE started == StartPromotion(l, "reconciling")
      <3>1. /\ started \in GovRunType /\ started.queue = govRun.queue /\ started.loaded = govRun.loaded
            /\ started.loadedAt = govRun.loadedAt
            /\ IF lessonFiles[l].pending = "ok"
               THEN started.pc = "promote" /\ started.lesson = l /\ started.back = "reconciling"
               ELSE started.pc = "reconciling"
        BY <1>3, <2>1, StartPromotionType
      <3>2. govRun' = [started EXCEPT !.queue = @ \ {l}]
        BY <2>3
      <3> HIDE DEF started
      <3>3. QED
        BY <3>1, <3>2 DEF GovRunType, Unmoved
    <2>4. QED
      BY <1>2, <2>2, <2>3
  <1>5. PromotionsAreApproved' /\ SweepIsComplete'
    BY <1>1, <1>3, <1>4 DEF GovInv, PromotionsAreApproved, SweepIsComplete, Promoting, Sweeping, ApprovedIn,
       Seen, Unmoved
  <1>6. QED
    BY <1>1, <1>4, <1>5, GovTypes, RunMoves

\* What a run loads lies in approved/, whose files are approved.
LEMMA LoadLessonsKeeps == GovInv /\ loadApprovedLessons => GovInv'
  <1> SUFFICES ASSUME GovInv, loadApprovedLessons PROVE GovInv'
    OBVIOUS
  <1>1. UNCHANGED <<policyFiles, govLog, lessonFiles, govCli, govSpent>> /\ govRun.pc = "reconciling"
        /\ govRun.queue = {}
    BY DEF loadApprovedLessons, OnlyRun
  <1>2. PICK taken \in SUBSET {l \in LessonIds : lessonFiles[l].approved = "ok"} :
          govRun' = [govRun EXCEPT !.pc = "serving", !.loaded = taken]
    BY DEF loadApprovedLessons
  <1>3. taken \in SUBSET LessonIds /\ "serving" \in RunPlaces
    BY DEF RunPlaces
  <1>4. /\ govRun' \in GovRunType /\ govRun'.loaded = taken /\ govRun'.queue = {} /\ govRun'.pc = "serving"
        /\ govRun'.loadedAt = govRun.loadedAt
    BY <1>1, <1>2, <1>3, GovTypes DEF GovRunType
  <1>5. govRun'.loaded \subseteq govRun.loaded \cup {l \in LessonIds : lessonFiles[l].approved # "none"}
    BY <1>2, <1>4
  <1>6. PromotionsAreApproved' /\ SweepIsComplete'
    BY <1>1, <1>4 DEF GovInv, PromotionsAreApproved, SweepIsComplete, Promoting, Sweeping, Seen, Unmoved
  <1>7. QED
    BY <1>1, <1>4, <1>5, <1>6, GovTypes, RunMoves

\* The places of the run that only look on.
LEMMA OnlookerKeeps ==
    ASSUME GovInv, UNCHANGED <<policyFiles, govLog, lessonFiles, govCli, govSpent>>,
           \/ \E l \in LessonIds : ConfirmHypothesis(l)
           \/ \E p \in listPendingProposals(govLog) : ApproveLive(p)
           \/ TaskEnds \/ foldConfirmedHypotheses \/ proposeLessonFromHypothesis
    PROVE  GovInv'
  <1>1. /\ govRun' \in GovRunType /\ govRun'.queue = govRun.queue
        /\ govRun'.loaded \subseteq govRun.loaded
        /\ govRun'.loadedAt \in {0, govRun.loadedAt}
        /\ \/ govRun.pc = "serving" /\ govRun'.pc \in {"serving", "approving"} /\ govRun'.loadedAt = govRun.loadedAt
           \/ govRun'.pc \in {"between", "folding"}
           \/ govRun'.pc = "lesson" /\ govRun'.lesson \in LessonIds
        /\ govRun'.pc = "approving" => govRun'.proposal \in governanceProposalId
    <2>1. govRun \in GovRunType
      BY GovTypes
    <2>2. CASE \E l \in LessonIds : ConfirmHypothesis(l)
      <3>1. PICK l \in LessonIds : ConfirmHypothesis(l)
        BY <2>2
      <3>2. QED
        BY <2>1, <3>1 DEF ConfirmHypothesis, GovRunType
    <2>3. CASE \E p \in listPendingProposals(govLog) : ApproveLive(p)
      <3>1. PICK p \in governanceProposalId : ApproveLive(p)
        BY <2>3 DEF listPendingProposals
      <3>2. p \in governanceProposalId \cup {NoSubject} /\ "approving" \in RunPlaces
        BY DEF RunPlaces
      <3>3. QED
        BY <2>1, <3>1, <3>2 DEF ApproveLive, GovRunType
    <2>4. CASE TaskEnds
      <3>1. {} \in SUBSET LessonIds /\ 0 \in Nat /\ "between" \in RunPlaces
        BY DEF RunPlaces
      <3>2. QED
        BY <2>1, <2>4, <3>1 DEF TaskEnds, GovRunType
    <2>5. CASE foldConfirmedHypotheses
      BY <2>1, <2>5 DEF foldConfirmedHypotheses, GovRunType, RunPlaces
    <2>6. CASE proposeLessonFromHypothesis
      <3>1. PICK l \in govRun.confirmed :
              \/ govRun' = [govRun EXCEPT !.confirmed = @ \ {l}, !.pc = "lesson", !.lesson = l]
              \/ govRun' = [govRun EXCEPT !.confirmed = @ \ {l}]
        BY <2>6 DEF proposeLessonFromHypothesis
      <3>2. govRun.pc = "folding" /\ l \in LessonIds /\ "lesson" \in RunPlaces
        BY <2>1, <2>6 DEF proposeLessonFromHypothesis, GovRunType, RunPlaces
      <3>3. QED
        BY <2>1, <3>1, <3>2 DEF GovRunType
    <2>7. QED
      BY <2>2, <2>3, <2>4, <2>5, <2>6
  <1>2. Len(govLog) \in Nat
    BY GovTypes
  <1>3. PromotionsAreApproved' /\ SweepIsComplete'
    BY <1>1, <1>2 DEF GovInv, PromotionsAreApproved, SweepIsComplete, Promoting, Sweeping, Seen, Unmoved, ApprovedIn
  <1>4. QED
    BY <1>1, <1>3, GovTypes, RunMoves

\* A run that ends or dies forgets its queue; files and log stay.
LEMMA DownKeeps == GovInv /\ (GovRunEnds \/ GovRunCrashes) => GovInv'
  <1> SUFFICES ASSUME GovInv, GovRunEnds \/ GovRunCrashes PROVE GovInv'
    OBVIOUS
  <1>1. UNCHANGED <<policyFiles, govLog, lessonFiles, govCli, govSpent>> /\ govRun' = Down
    BY DEF GovRunEnds, GovRunCrashes, OnlyRun
  <1>2. QED
    BY <1>1, DownType, QuietInv, GovTypes, RunMoves

-------------------------------------------------------------------------------
(* The writes into pending/ and approved/.                                     *)
LEMMA FileSteps ==
    ASSUME GovInv, NEW d \in LessonDirs, NEW state \in FileStates, NEW pc \in RunPlaces,
           SetFile(govRun.lesson, d, state), GovGoto(pc), RunAndFiles, govRun.lesson \in LessonIds,
           d = "approved" => ApprovedIn(govRun.lesson),
           d = "approved" => state # "none",
           d = "pending" /\ govRun.pc \in Sweeping => state = "none",
           pc \in Promoting => govRun.pc \in Promoting /\ pc # "promote",
           pc \in Sweeping => govRun.pc \in Sweeping,
           govRun.pc = "promote" => d = "approved",
           pc \in {"serving", "reconciling"} => govRun.back = pc /\ govRun.pc \in Promoting,
           pc \notin {"refusing", "approving"}
    PROVE  GovInv'
  <1>1. /\ govRun' = [govRun EXCEPT !.pc = pc] /\ govRun \in GovRunType
        /\ UNCHANGED <<policyFiles, govLog, govCli, govSpent>>
    BY GovTypes DEF GovGoto, RunAndFiles
  <1>2. /\ govRun' \in GovRunType /\ govRun'.pc = pc /\ govRun'.queue = govRun.queue
        /\ govRun'.loaded = govRun.loaded /\ govRun'.loadedAt = govRun.loadedAt
        /\ govRun'.lesson = govRun.lesson /\ govRun'.back = govRun.back
    BY <1>1 DEF GovRunType
  <1>3. /\ lessonFiles' \in [LessonIds -> [LessonDirs -> FileStates]]
        /\ lessonFiles'[govRun.lesson][d] = state
        /\ \A e \in LessonDirs : e # d => lessonFiles'[govRun.lesson][e] = lessonFiles[govRun.lesson][e]
        /\ \A k \in LessonIds : k # govRun.lesson => lessonFiles'[k] = lessonFiles[k]
    BY GovTypes, FileEffect
  <1>4. \A l \in LessonIds : lessonFiles'[l].approved # "none" => ApprovedIn(l)
    <2>1. CASE d = "approved"
      BY <1>3, <2>1, GovTypes
    <2>2. CASE d # "approved"
      BY <1>3, <2>2, GovTypes, Dirs
    <2>3. QED
      BY <2>1, <2>2
  <1>5. \A l \in LessonIds : lessonFiles'[l].approved # "none" \/ l \in govRun'.loaded => ApprovedIn(l)'
    BY <1>1, <1>2, <1>4, GovTypes DEF ApprovedIn
  <1>6. govRun.pc \in Sweeping => \A l \in LessonIds : Unmoved(l)' => Unmoved(l) /\ (l = govRun.lesson => govRun.pc # "promote")
    <2>1. CASE d = "approved"
      BY <1>3, <2>1, Dirs DEF Unmoved
    <2>2. CASE d = "pending"
      BY <1>3, <2>2, Dirs DEF Unmoved
    <2>3. QED
      BY <2>1, <2>2 DEF LessonDirs
  <1>7. PromotionsAreApproved' /\ SweepIsComplete'
    <2>1. PromotionsAreApproved'
      BY <1>1, <1>2 DEF GovInv, PromotionsAreApproved, Promoting, ApprovedIn
    <2>2. govRun'.loadedAt <= Len(govLog') /\ (pc \in {"serving", "approving"} => govRun'.queue = {})
      BY <1>1, <1>2 DEF GovInv, SweepIsComplete
    <2>3. pc \in Promoting /\ govRun'.back = "serving" => govRun'.queue = {}
      BY <1>2 DEF GovInv, SweepIsComplete, Promoting
    <2>4. pc \in Sweeping => \A l \in LessonIds : Seen(l)' /\ Unmoved(l)' => l \in govRun'.queue
      <3> SUFFICES ASSUME pc \in Sweeping, NEW l \in LessonIds, Seen(l)', Unmoved(l)'
                   PROVE  l \in govRun'.queue
        OBVIOUS
      <3>1. Seen(l) /\ Unmoved(l) /\ ~(govRun.pc = "promote" /\ govRun.lesson = l)
        BY <1>1, <1>2, <1>6 DEF Seen
      <3>2. QED
        BY <1>2, <3>1 DEF GovInv, SweepIsComplete
    <2>5. QED
      BY <1>2, <2>1, <2>2, <2>3, <2>4 DEF SweepIsComplete
  <1>8. QED
    BY <1>1, <1>2, <1>3, <1>5, <1>7, GovTypes, PartsBack

\* The promotion moves a file only for a lesson that has its approval.
LEMMA PromoteKeeps == GovInv /\ (PromoteOpens \/ PromoteWrites \/ PromoteUnlinks) => GovInv'
  <1> SUFFICES ASSUME GovInv, PromoteOpens \/ PromoteWrites \/ PromoteUnlinks PROVE GovInv'
    OBVIOUS
  <1>1. /\ govRun.pc \in Promoting /\ govRun.lesson \in LessonIds /\ ApprovedIn(govRun.lesson)
        /\ govRun.back \in {"reconciling", "serving"}
    BY DEF PromoteOpens, PromoteWrites, PromoteUnlinks, GovInv, PromotionsAreApproved, Promoting
  <1>2. /\ "promote_write" \in RunPlaces \cap Promoting \cap Sweeping
        /\ "promote_unlink" \in RunPlaces \cap Promoting \cap Sweeping
        /\ govRun.back \in RunPlaces /\ govRun.back \notin Promoting /\ govRun.pc \in Sweeping
    BY <1>1 DEF RunPlaces, Promoting, Sweeping
  <1>3. CASE PromoteOpens
    BY <1>1, <1>2, <1>3, Dirs, FileSteps DEF PromoteOpens
  <1>4. CASE PromoteWrites
    BY <1>1, <1>2, <1>4, Dirs, FileSteps DEF PromoteWrites
  <1>5. CASE PromoteUnlinks
    BY <1>1, <1>2, <1>5, Dirs, FileSteps DEF PromoteUnlinks
  <1>6. QED
    BY <1>3, <1>4, <1>5

\* A new lesson is written to pending/, which nothing loads.
LEMMA LessonFileKeeps == GovInv /\ (LessonOpens \/ LessonWrites) => GovInv'
  <1> SUFFICES ASSUME GovInv, LessonOpens \/ LessonWrites PROVE GovInv'
    OBVIOUS
  <1>1. govRun.lesson \in LessonIds /\ govRun.pc \in {"lesson", "lesson_write"}
    BY DEF LessonOpens, LessonWrites, GovInv, PromotionsAreApproved
  <1>2. /\ {"lesson_write", "lesson_propose"} \subseteq RunPlaces \ Sweeping
        /\ govRun.pc \notin Sweeping /\ Promoting \subseteq Sweeping
    BY <1>1 DEF RunPlaces, Promoting, Sweeping
  <1>3. CASE LessonOpens
    BY <1>1, <1>2, <1>3, Dirs, FileSteps DEF LessonOpens
  <1>4. CASE LessonWrites
    BY <1>1, <1>2, <1>4, Dirs, FileSteps DEF LessonWrites
  <1>5. QED
    BY <1>3, <1>4

-------------------------------------------------------------------------------
(* The appends to the governance log, of the run and of the command.           *)
LEMMA LogSteps ==
    ASSUME GovInv, NEW e \in GovRecord, govLog' \in {govLog, Append(govLog, e)}, govRun' \in GovRunType,
           UNCHANGED <<policyFiles, lessonFiles, govSpent>>,
           govCli' \in governanceProposalId \cup {NoSubject},
           govRun'.queue = govRun.queue \/ govRun'.queue = {}, govRun'.loaded \subseteq govRun.loaded,
           govRun'.loadedAt \in {0, govRun.loadedAt},
           govRun'.pc \in Promoting =>
              \/ /\ govRun.pc \in Promoting /\ govRun'.lesson = govRun.lesson /\ govRun'.back = govRun.back
              \/ /\ govRun.pc = "approving" /\ govRun'.pc = "promote" /\ govRun'.lesson \in LessonIds
                 /\ Changed(govLog', LessonPromote(govRun'.lesson)) /\ govRun'.back = "serving",
           govRun'.pc \in {"lesson", "lesson_write", "lesson_propose"} => govRun'.lesson \in LessonIds,
           govRun'.pc \in {"refusing", "approving"} => govRun'.proposal \in governanceProposalId,
           govRun'.pc \in Sweeping => govRun.pc \in Sweeping /\ govRun'.queue = govRun.queue
                                      /\ govRun'.loadedAt = govRun.loadedAt,
           govRun'.pc \in {"serving", "approving"} => govRun.pc \in {"serving", "approving"},
           govRun.pc = "promote" => govRun'.pc = "promote" \/ govRun'.pc \notin Sweeping
    PROVE  GovInv'
  <1>1. /\ govLog \in Seq(GovRecord) /\ govLog' \in Seq(GovRecord) /\ Len(govLog) <= Len(govLog')
        /\ Len(govLog) \in Nat /\ Len(govLog') \in Nat
        /\ \A i \in DOMAIN govLog : govLog'[i] = govLog[i]
        /\ \A l \in LessonIds : ApprovedIn(l) => ApprovedIn(l)'
    <2>1. CASE govLog' = govLog
      BY <2>1, GovTypes DEF ApprovedIn
    <2>2. CASE govLog' = Append(govLog, e)
      BY <2>2, GovTypes, AppendKeeps
    <2>3. QED
      BY <2>1, <2>2
  <1>2. \A l \in LessonIds : lessonFiles'[l].approved # "none" \/ l \in govRun'.loaded => ApprovedIn(l)'
    BY <1>1, GovTypes
  <1>3. govRun.queue \subseteq {l \in LessonIds : ApprovedIn(l)}
    BY DEF GovInv, PromotionsAreApproved
  <1>4. govRun'.queue \subseteq {l \in LessonIds : ApprovedIn(l)'}
    BY <1>1, <1>3
  <1>5. PromotionsAreApproved'
    <2>1. govRun'.pc \in Promoting => /\ govRun'.lesson \in LessonIds /\ Changed(govLog', LessonPromote(govRun'.lesson))
                                      /\ govRun'.back \in {"reconciling", "serving"}
      BY <1>1 DEF GovInv, PromotionsAreApproved, ApprovedIn
    <2>2. QED
      BY <1>4, <2>1 DEF PromotionsAreApproved, ApprovedIn
  <1>6. govRun.loadedAt \in Nat /\ govRun'.loadedAt <= Len(govLog')
    BY <1>1, GovTypes DEF GovInv, SweepIsComplete, GovRunType
  <1>7. govRun'.pc \in Sweeping => \A l \in LessonIds : Seen(l)' => Seen(l)
    <2> SUFFICES ASSUME govRun'.pc \in Sweeping, NEW l \in LessonIds, Seen(l)' PROVE Seen(l)
      OBVIOUS
    <2>1. PICK i \in 1..govRun.loadedAt : govLog'[i] = Change(LessonPromote(l))
      BY DEF Seen
    <2>2. i \in DOMAIN govLog
      BY <1>1, <1>6, <2>1 DEF GovInv, SweepIsComplete
    <2>3. QED
      BY <1>1, <2>1, <2>2 DEF Seen
  <1>8. govRun'.pc \in Sweeping => \A l \in LessonIds : Seen(l)' /\ Unmoved(l)' =>
          l \in govRun'.queue \/ (govRun'.pc = "promote" /\ govRun'.lesson = l)
    <2> SUFFICES ASSUME govRun'.pc \in Sweeping, NEW l \in LessonIds, Seen(l)', Unmoved(l)'
                 PROVE  l \in govRun'.queue \/ (govRun'.pc = "promote" /\ govRun'.lesson = l)
      OBVIOUS
    <2>1. l \in govRun.queue \/ (govRun.pc = "promote" /\ govRun.lesson = l)
      BY <1>7 DEF GovInv, SweepIsComplete, Unmoved
    <2>2. QED
      BY <2>1 DEF Promoting, Sweeping
  <1>9. /\ govRun'.pc \in {"serving", "approving"} => govRun'.queue = {}
        /\ govRun'.pc \in Promoting /\ govRun'.back = "serving" => govRun'.queue = {}
    BY DEF GovInv, SweepIsComplete, Promoting, Sweeping
  <1>10. QED
    BY <1>1, <1>2, <1>5, <1>6, <1>8, <1>9, GovTypes, PartsBack DEF SweepIsComplete

\* A refusal appends a proposal, never a decision.
LEMMA RefusalKeeps == GovInv /\ RecordRefusal => GovInv'
  <1> SUFFICES ASSUME GovInv, RecordRefusal PROVE GovInv'
    OBVIOUS
  <1>1. Proposed(govRun.proposal) \in GovRecord
    BY Proposals DEF RecordRefusal, GovInv, PromotionsAreApproved
  <1>2. Down.pc \notin Promoting \cup Sweeping \cup {"lesson", "lesson_write", "lesson_propose", "refusing"}
    BY DownType DEF Promoting, Sweeping
  <1>3. QED
    BY <1>1, <1>2, DownType, GovTypes, LogSteps DEF RecordRefusal, RunAndLog, Sweeping

\* So does the proposal of a quarantine.
LEMMA FlakyKeeps == GovInv /\ (\E t \in GovTasks : proposeFlakyQuarantine(t)) => GovInv'
  <1> SUFFICES ASSUME GovInv, NEW t \in GovTasks, proposeFlakyQuarantine(t) PROVE GovInv'
    OBVIOUS
  <1>1. Proposed(FlakyQuarantine(t)) \in GovRecord
    BY Proposals
  <1>2. /\ govLog' \in {govLog, Append(govLog, Proposed(FlakyQuarantine(t)))} /\ govRun.pc = "serving"
        /\ UNCHANGED <<policyFiles, lessonFiles, govCli, govSpent, govRun>>
    BY DEF proposeFlakyQuarantine, ProposeOnce, RunAndLog
  <1>3. QED
    BY <1>1, <1>2, GovTypes, LogSteps DEF Promoting, Sweeping

\* And that of a lesson.
LEMMA LessonProposalKeeps == GovInv /\ proposeLessonPromotion => GovInv'
  <1> SUFFICES ASSUME GovInv, proposeLessonPromotion PROVE GovInv'
    OBVIOUS
  <1>1. govRun.lesson \in LessonIds /\ Proposed(LessonPromote(govRun.lesson)) \in GovRecord
    BY Proposals DEF proposeLessonPromotion, GovInv, PromotionsAreApproved
  <1>2. /\ govLog' \in {govLog, Append(govLog, Proposed(LessonPromote(govRun.lesson)))}
        /\ UNCHANGED <<policyFiles, lessonFiles, govCli, govSpent>>
        /\ govRun' = [govRun EXCEPT !.pc = "folding"] /\ govRun.pc = "lesson_propose"
    BY DEF proposeLessonPromotion, ProposeOnce, RunAndLog, GovGoto
  <1>3. /\ govRun' \in GovRunType /\ govRun'.pc = "folding" /\ govRun'.queue = govRun.queue
        /\ govRun'.loaded = govRun.loaded /\ govRun'.loadedAt = govRun.loadedAt
    BY <1>2, GovTypes DEF GovRunType, RunPlaces
  <1>4. QED
    BY <1>1, <1>2, <1>3, GovTypes, LogSteps DEF Promoting, Sweeping

\* The human decides in the run: the approval is logged before the file moves.
LEMMA ApplyKeeps == GovInv /\ applyGovernanceApproval => GovInv'
  <1> SUFFICES ASSUME GovInv, applyGovernanceApproval PROVE GovInv'
    OBVIOUS
  <1> DEFINE p == govRun.proposal
  <1>1. /\ govRun.pc = "approving" /\ p \in governanceProposalId /\ Change(p) \in GovRecord
        /\ govLog' = Append(govLog, Change(p)) /\ UNCHANGED <<policyFiles, lessonFiles, govCli, govSpent>>
    BY Proposals DEF applyGovernanceApproval, RunAndLog, GovInv, PromotionsAreApproved
  <1>2. CASE p.kind = "lesson_promote"
    <2>1. /\ p.subject \in LessonIds /\ p = LessonPromote(p.subject)
          /\ govRun' = StartPromotion(p.subject, "serving")
      BY <1>1, <1>2, Proposals DEF applyGovernanceApproval
    <2>2. /\ govRun' \in GovRunType /\ govRun'.queue = govRun.queue /\ govRun'.loaded = govRun.loaded
          /\ govRun'.loadedAt = govRun.loadedAt
          /\ \/ govRun'.pc = "promote" /\ govRun'.lesson = p.subject /\ govRun'.back = "serving"
             \/ govRun'.pc = "serving"
      BY <2>1, GovTypes, StartPromotionType
    <2>3. Changed(govLog', LessonPromote(p.subject))
      <3>1. Len(govLog) + 1 \in DOMAIN govLog' /\ govLog'[Len(govLog) + 1] = Change(p)
        BY <1>1, GovTypes
      <3>2. QED
        BY <2>1, <3>1 DEF Changed, Logged
    <2>4. QED
      BY <1>1, <2>1, <2>2, <2>3, GovTypes, LogSteps DEF Promoting, Sweeping
  <1>3. CASE p.kind # "lesson_promote"
    <2>1. govRun' = [govRun EXCEPT !.pc = "serving"]
      BY <1>1, <1>3 DEF applyGovernanceApproval
    <2>2. /\ govRun' \in GovRunType /\ govRun'.queue = govRun.queue /\ govRun'.loaded = govRun.loaded
          /\ govRun'.loadedAt = govRun.loadedAt /\ govRun'.pc = "serving"
      BY <2>1, GovTypes DEF GovRunType, RunPlaces
    <2>3. QED
      BY <1>1, <2>2, GovTypes, LogSteps DEF Promoting, Sweeping
  <1>4. QED
    BY <1>2, <1>3

\* The human decides in the CLI: only the log changes, and the CLI forgets.
LEMMA CliKeeps ==
    GovInv /\ (approveProposal \/ \E p \in listPendingProposals(govLog) : CliReads(p)) => GovInv'
  <1> SUFFICES ASSUME GovInv, approveProposal \/ \E p \in listPendingProposals(govLog) : CliReads(p)
               PROVE  GovInv'
    OBVIOUS
  <1>1. PICK p \in governanceProposalId :
          /\ govLog' \in {govLog, Append(govLog, Change(p))} /\ govCli' \in governanceProposalId \cup {NoSubject}
          /\ UNCHANGED <<policyFiles, lessonFiles, govRun, govSpent>>
    <2>1. CASE approveProposal
      BY <2>1, GovTypes DEF approveProposal
    <2>2. CASE \E p \in listPendingProposals(govLog) : CliReads(p)
      BY <2>2 DEF CliReads, listPendingProposals
    <2>3. QED
      BY <2>1, <2>2
  <1>2. Change(p) \in GovRecord
    BY Proposals
  <1>3. QED
    BY <1>1, <1>2, GovTypes, LogSteps DEF GovInv, PromotionsAreApproved

\* An edit of the policy file touches neither log nor lessons.
LEMMA EditKeeps == GovInv /\ (\E s \in Snapshots : EditPolicy(s)) => GovInv'
  <1> SUFFICES ASSUME GovInv, NEW s \in Snapshots, EditPolicy(s) PROVE GovInv'
    OBVIOUS
  <1>1. /\ policyFiles' = s /\ UNCHANGED <<govLog, lessonFiles, govRun, govCli>>
        /\ govSpent' = [govSpent EXCEPT !.edits = @ + 1] /\ govSpent.edits < MaxPolicyEdits
    BY DEF EditPolicy
  <1>2. govSpent' \in [edits : 0..MaxPolicyEdits, runs : 0..MaxGovRuns]
    <2>1. govSpent.edits + 1 \in 0..MaxPolicyEdits
      BY <1>1, GovTypes, GovernanceAssumption
    <2>2. QED
      BY <1>1, <2>1, GovTypes
  <1>3. PromotionsAreApproved' /\ SweepIsComplete'
    BY <1>1 DEF GovInv, PromotionsAreApproved, SweepIsComplete, ApprovedIn, Seen, Unmoved
  <1>4. \A l \in LessonIds : lessonFiles'[l].approved # "none" \/ l \in govRun'.loaded => ApprovedIn(l)'
    BY <1>1, GovTypes DEF ApprovedIn
  <1>5. QED
    BY <1>1, <1>2, <1>3, <1>4, GovTypes, PartsBack

-------------------------------------------------------------------------------
(* A log starts empty or with the fixture's snapshot, and no lesson is written. *)
LEMMA GovInitInv == GovernanceInit => GovInv
  <1> SUFFICES ASSUME GovernanceInit PROVE GovInv
    OBVIOUS
  <1>1. /\ policyFiles \in Snapshots /\ govRun = Down /\ govCli = NoSubject
        /\ govSpent = [edits |-> 0, runs |-> 0]
        /\ lessonFiles = [l \in LessonIds |-> [d \in LessonDirs |-> "none"]]
    BY DEF GovernanceInit
  <1>2. govLog \in Seq(GovRecord)
    <2>1. Change(PolicyChange(NoSnapshot, policyFiles)) \in GovRecord
      BY <1>1, Proposals
    <2>2. <<>> \in Seq(GovRecord) /\ seedFixtureSnapshot(policyFiles) \in Seq(GovRecord)
      BY <2>1 DEF seedFixtureSnapshot
    <2>3. QED
      BY <2>2 DEF GovernanceInit
  <1>3. GovernanceTypeOK
    BY <1>1, <1>2, DownType, GovernanceAssumption DEF GovernanceTypeOK, GovRecord, FileStates
  <1>4. LessonsAreApproved
    BY <1>1, DownType, Dirs DEF LessonsAreApproved
  <1>5. PromotionsAreApproved /\ SweepIsComplete
    <2>1. Len(govLog) \in Nat
      BY <1>2
    <2>2. QED
      BY <1>1, <2>1, DownType DEF PromotionsAreApproved, SweepIsComplete, Promoting, Sweeping
  <1>6. QED
    BY <1>3, <1>4, <1>5 DEF GovInv

(* Every step of the run, the offline command, the person at the policy files  *)
(* and a crash keeps the invariant.                                            *)
THEOREM GovernanceStepInv == GovInv /\ [GovernanceNext]_govVars => GovInv'
  <1> SUFFICES ASSUME GovInv, [GovernanceNext]_govVars PROVE GovInv'
    OBVIOUS
  <1>1. CASE ensureGovernanceApproved \/ RecordRefusal \/ LoadTask \/ Reconcile \/ loadApprovedLessons
    BY <1>1, StartKeeps, RefusalKeeps, LoadTaskKeeps, ReconcileKeeps, LoadLessonsKeeps
  <1>2. CASE PromoteOpens \/ PromoteWrites \/ PromoteUnlinks \/ LessonOpens \/ LessonWrites
    BY <1>2, PromoteKeeps, LessonFileKeeps
  <1>3. CASE \/ \E l \in LessonIds : ConfirmHypothesis(l)
             \/ \E p \in listPendingProposals(govLog) : ApproveLive(p)
             \/ TaskEnds \/ foldConfirmedHypotheses \/ proposeLessonFromHypothesis
    <2>1. UNCHANGED <<policyFiles, govLog, lessonFiles, govCli, govSpent>>
      BY <1>3 DEF ConfirmHypothesis, ApproveLive, TaskEnds, foldConfirmedHypotheses,
                  proposeLessonFromHypothesis, OnlyRun
    <2>2. QED
      BY <1>3, <2>1, OnlookerKeeps
  <1>4. CASE (\E t \in GovTasks : proposeFlakyQuarantine(t)) \/ applyGovernanceApproval \/ proposeLessonPromotion
    BY <1>4, FlakyKeeps, ApplyKeeps, LessonProposalKeeps
  <1>5. CASE GovRunEnds \/ GovRunCrashes
    BY <1>5, DownKeeps
  <1>6. CASE \/ approveProposal \/ \E p \in listPendingProposals(govLog) : CliReads(p)
             \/ \E s \in Snapshots : EditPolicy(s)
    BY <1>6, CliKeeps, EditKeeps
  <1>7. CASE UNCHANGED govVars
    BY <1>7 DEF govVars, GovInv, GovernanceTypeOK, LessonsAreApproved, PromotionsAreApproved,
                SweepIsComplete, ApprovedIn, Seen, Unmoved
  <1>8. QED
    BY <1>1, <1>2, <1>3, <1>4, <1>5, <1>6, <1>7 DEF GovernanceNext

(* The invariant holds in every state of governance and its lessons.           *)
THEOREM GovernanceAlwaysInv == GovernanceSpec => []GovInv
  BY GovInitInv, GovernanceStepInv, PTL DEF GovernanceSpec

-------------------------------------------------------------------------------
(* That no lesson is lost is a second induction, over the first: what a step   *)
(* reads of a file before it writes or removes one is kept with the place.     *)

\* Somebody may approve the lesson, or has.
LessonNamed(l) == Logged(govLog, Proposed(LessonPromote(l))) \/ Changed(govLog, LessonPromote(l))
\* One of its files is complete.
LessonIntact(l) == "ok" \in {lessonFiles[l].pending, lessonFiles[l].approved}

\* What each place knows of the files of the lesson in hand, and that whatever is
\* about to be decided has been proposed.
PlacesKnowFiles ==
    /\ govRun.pc \in {"promote", "promote_write", "lesson_propose"} => lessonFiles[govRun.lesson].pending = "ok"
    /\ govRun.pc = "promote_unlink" => lessonFiles[govRun.lesson].approved = "ok"
    /\ govRun.pc = "lesson" => ~LessonIntact(govRun.lesson)
    /\ govRun.pc = "refusing" => govRun.proposal.kind = "policy_change"
    /\ govRun.pc = "approving" => Logged(govLog, Proposed(govRun.proposal))
    /\ govCli # NoSubject => Logged(govLog, Proposed(govCli))

\* What every step keeps, next to GovInv.
LessonsInv == NoLessonIsLost /\ PlacesKnowFiles

\* A step of the run alone: the place it goes to knows what it read.
LEMMA RunKnows ==
    ASSUME GovInv, LessonsInv,
           \/ ensureGovernanceApproved \/ LoadTask \/ Reconcile \/ loadApprovedLessons
           \/ \E l \in LessonIds : ConfirmHypothesis(l)
           \/ \E p \in listPendingProposals(govLog) : ApproveLive(p)
           \/ TaskEnds \/ foldConfirmedHypotheses \/ proposeLessonFromHypothesis
           \/ GovRunEnds \/ GovRunCrashes
    PROVE  LessonsInv'
  <1>1. govRun \in GovRunType /\ govRun.queue \subseteq LessonIds
    BY GovTypes DEF GovRunType
  <1>2. UNCHANGED <<govLog, lessonFiles, govCli>>
    BY DEF ensureGovernanceApproved, LoadTask, Reconcile, loadApprovedLessons, ConfirmHypothesis, ApproveLive,
           TaskEnds, foldConfirmedHypotheses, proposeLessonFromHypothesis, GovRunEnds, GovRunCrashes, OnlyRun
  <1>3. NoLessonIsLost'
    BY <1>2 DEF LessonsInv, NoLessonIsLost
  <1> DEFINE quiet == {"promote", "promote_write", "lesson_propose", "promote_unlink", "lesson", "refusing", "approving"}
  <1>4. \/ govRun'.pc \notin quiet
        \/ /\ govRun'.pc = "promote" /\ lessonFiles[govRun'.lesson].pending = "ok"
        \/ /\ govRun'.pc = "lesson" /\ ~LessonIntact(govRun'.lesson)
        \/ /\ govRun'.pc = "refusing" /\ govRun'.proposal.kind = "policy_change"
        \/ /\ govRun'.pc = "approving" /\ Logged(govLog, Proposed(govRun'.proposal))
    <2>1. CASE ensureGovernanceApproved
      <3> DEFINE p == PolicyChange(lastApprovedPolicyHash(govLog), policyFiles)
      <3>1. \/ govRun' = Down
            \/ govRun' = [Down EXCEPT !.pc = "between", !.todo = GovTasks]
            \/ govRun' = [Down EXCEPT !.pc = "refusing", !.proposal = p]
        BY <2>1 DEF ensureGovernanceApproved
      <3>2. p.kind = "policy_change"
        BY DEF PolicyChange
      <3> HIDE DEF p
      <3>3. QED
        BY <3>1, <3>2, DownType DEF GovRunType, Down
    <2>2. CASE LoadTask
      BY <1>1, <2>2 DEF LoadTask, GovRunType
    <2>3. CASE Reconcile
      <3>1. PICK l \in govRun.queue :
              \/ govRun' = [govRun EXCEPT !.queue = @ \ {l}]
              \/ govRun' = [StartPromotion(l, "reconciling") EXCEPT !.queue = @ \ {l}]
        BY <2>3 DEF Reconcile
      <3>2. CASE govRun' = [govRun EXCEPT !.queue = @ \ {l}]
        BY <1>1, <2>3, <3>2 DEF Reconcile, GovRunType
      <3>3. CASE govRun' = [StartPromotion(l, "reconciling") EXCEPT !.queue = @ \ {l}]
        <4> DEFINE started == StartPromotion(l, "reconciling")
        <4>1. /\ started \in GovRunType
              /\ IF lessonFiles[l].pending = "ok" THEN started.pc = "promote" /\ started.lesson = l
                                                  ELSE started.pc = "reconciling"
          BY <1>1, StartPromotionType
        <4>2. govRun' = [started EXCEPT !.queue = @ \ {l}]
          BY <3>3
        <4> HIDE DEF started
        <4>3. QED
          BY <4>1, <4>2 DEF GovRunType
      <3>4. QED
        BY <3>1, <3>2, <3>3
    <2>4. CASE loadApprovedLessons
      BY <1>1, <2>4 DEF loadApprovedLessons, GovRunType
    <2>5. CASE \E l \in LessonIds : ConfirmHypothesis(l)
      BY <1>1, <2>5 DEF ConfirmHypothesis, GovRunType
    <2>6. CASE \E p \in listPendingProposals(govLog) : ApproveLive(p)
      BY <1>1, <2>6 DEF ApproveLive, listPendingProposals, GovRunType
    <2>7. CASE TaskEnds \/ foldConfirmedHypotheses
      BY <1>1, <2>7 DEF TaskEnds, foldConfirmedHypotheses, GovRunType
    <2>8. CASE proposeLessonFromHypothesis
      <3>1. PICK l \in govRun.confirmed :
              \/ /\ lessonFiles[l] = [pending |-> "none", approved |-> "none"]
                 /\ govRun' = [govRun EXCEPT !.confirmed = @ \ {l}, !.pc = "lesson", !.lesson = l]
              \/ govRun' = [govRun EXCEPT !.confirmed = @ \ {l}]
        BY <2>8 DEF proposeLessonFromHypothesis
      <3>2. govRun.pc = "folding" /\ govRun' \in {[govRun EXCEPT !.confirmed = @ \ {l}, !.pc = "lesson", !.lesson = l],
                                                 [govRun EXCEPT !.confirmed = @ \ {l}]}
        BY <2>8, <3>1 DEF proposeLessonFromHypothesis
      <3>3. /\ govRun'.pc \in {"folding", "lesson"}
            /\ govRun'.pc = "lesson" => govRun'.lesson = l
        BY <1>1, <3>2 DEF GovRunType
      <3>4. govRun'.pc = "lesson" => lessonFiles[l] = [pending |-> "none", approved |-> "none"]
        <4>1. [govRun EXCEPT !.confirmed = @ \ {l}].pc = "folding"
          BY <1>1, <3>2 DEF GovRunType
        <4>2. QED
          BY <3>1, <4>1
      <3>5. QED
        BY <3>3, <3>4 DEF LessonIntact
    <2>9. CASE GovRunEnds \/ GovRunCrashes
      BY <2>9, DownType DEF GovRunEnds, GovRunCrashes
    <2>10. QED
      BY <2>1, <2>2, <2>3, <2>4, <2>5, <2>6, <2>7, <2>8, <2>9
  <1>5. PlacesKnowFiles'
    BY <1>2, <1>4 DEF LessonsInv, PlacesKnowFiles, LessonIntact
  <1>6. QED
    BY <1>3, <1>5 DEF LessonsInv

\* A write or a removal of a file leaves the lesson one that is complete, unless
\* it had none.
LEMMA FilesKnow ==
    ASSUME GovInv, LessonsInv, PromoteOpens \/ PromoteWrites \/ PromoteUnlinks \/ LessonOpens \/ LessonWrites
    PROVE  LessonsInv'
  <1> DEFINE l == govRun.lesson
  <1>1. /\ govRun \in GovRunType /\ l \in LessonIds
        /\ lessonFiles \in [LessonIds -> [LessonDirs -> FileStates]]
        /\ UNCHANGED <<govLog, govCli>>
    BY GovTypes DEF PromoteOpens, PromoteWrites, PromoteUnlinks, LessonOpens, LessonWrites, RunAndFiles, GovInv,
                    PromotionsAreApproved, Promoting
  <1>2. PICK d \in LessonDirs, state \in FileStates, 
          pc \in {"promote_write", "promote_unlink", "reconciling", "serving", "lesson_write", "lesson_propose"} :
          /\ SetFile(l, d, state) /\ GovGoto(pc)
          /\ \/ govRun.pc = "promote" /\ d = "approved" /\ state = "torn" /\ pc = "promote_write"
             \/ govRun.pc = "promote_write" /\ d = "approved" /\ state = "ok" /\ pc = "promote_unlink"
             \/ govRun.pc = "promote_unlink" /\ d = "pending" /\ state = "none" /\ pc \in {"reconciling", "serving"}
             \/ govRun.pc = "lesson" /\ d = "pending" /\ state = "torn" /\ pc = "lesson_write"
             \/ govRun.pc = "lesson_write" /\ d = "pending" /\ state = "ok" /\ pc = "lesson_propose"
    <2>1. CASE PromoteOpens
      BY <2>1, Dirs DEF PromoteOpens
    <2>2. CASE PromoteWrites
      BY <2>2, Dirs DEF PromoteWrites
    <2>3. CASE PromoteUnlinks
      BY <2>3, Dirs DEF PromoteUnlinks, GovInv, PromotionsAreApproved, Promoting
    <2>4. CASE LessonOpens
      BY <2>4, Dirs DEF LessonOpens
    <2>5. CASE LessonWrites
      BY <2>5, Dirs DEF LessonWrites
    <2>6. QED
      BY <2>1, <2>2, <2>3, <2>4, <2>5
  <1>3. /\ lessonFiles'[l][d] = state
        /\ \A e \in LessonDirs : e # d => lessonFiles'[l][e] = lessonFiles[l][e]
        /\ \A k \in LessonIds : k # l => lessonFiles'[k] = lessonFiles[k]
    BY <1>1, <1>2, FileEffect
  <1>4. govRun'.pc = pc /\ govRun'.lesson = l
    BY <1>1, <1>2 DEF GovGoto, GovRunType
  <1>5. LessonNamed(l) => LessonIntact(l)
    BY <1>1 DEF LessonsInv, NoLessonIsLost, LessonNamed, LessonIntact
  <1>6. LessonNamed(l) => "ok" \in {lessonFiles'[l].pending, lessonFiles'[l].approved}
    <2>1. CASE govRun.pc = "promote" \/ govRun.pc = "promote_write"
      BY <1>2, <1>3, <2>1, Dirs DEF LessonsInv, PlacesKnowFiles, LessonIntact
    <2>2. CASE govRun.pc = "promote_unlink"
      BY <1>2, <1>3, <2>2, Dirs DEF LessonsInv, PlacesKnowFiles, LessonIntact
    <2>3. CASE govRun.pc = "lesson"
      BY <1>5, <2>3 DEF LessonsInv, PlacesKnowFiles
    <2>4. CASE govRun.pc = "lesson_write"
      BY <1>2, <1>3, <2>4, Dirs DEF LessonIntact
    <2>5. QED
      BY <1>2, <2>1, <2>2, <2>3, <2>4
  <1>7. NoLessonIsLost'
    <2> SUFFICES ASSUME NEW k \in LessonIds, LessonNamed(k) PROVE "ok" \in {lessonFiles'[k].pending, lessonFiles'[k].approved}
      BY <1>1 DEF NoLessonIsLost, LessonNamed
    <2>1. CASE k = l
      BY <1>6, <2>1
    <2>2. CASE k # l
      BY <1>3, <2>2 DEF LessonsInv, NoLessonIsLost, LessonNamed
    <2>3. QED
      BY <2>1, <2>2
  <1>8. PlacesKnowFiles'
    <2>1. /\ pc = "promote_write" => lessonFiles'[l].pending = "ok"
          /\ pc = "lesson_propose" => lessonFiles'[l].pending = "ok"
          /\ pc = "promote_unlink" => lessonFiles'[l].approved = "ok"
          /\ pc \notin {"promote", "lesson", "refusing", "approving"}
      BY <1>2, <1>3, Dirs DEF LessonsInv, PlacesKnowFiles
    <2>2. govCli' # NoSubject => Logged(govLog, Proposed(govCli))'
      BY <1>1 DEF LessonsInv, PlacesKnowFiles
    <2>3. QED
      BY <1>4, <2>1, <2>2 DEF PlacesKnowFiles
  <1>9. QED
    BY <1>7, <1>8 DEF LessonsInv

\* An append names no lesson that has no complete file.
LEMMA LogKnows ==
    ASSUME GovInv, LessonsInv, NEW e \in GovRecord, govLog' \in {govLog, Append(govLog, e)},
           UNCHANGED lessonFiles,
           \A l \in LessonIds : e \in {Proposed(LessonPromote(l)), Change(LessonPromote(l))} => LessonNamed(l) \/ LessonIntact(l),
           govRun' = govRun \/ govRun'.pc \in {"down", "serving", "folding"}
              \/ (govRun'.pc = "promote" /\ lessonFiles[govRun'.lesson].pending = "ok"),
           govCli' \in {govCli, NoSubject}
    PROVE  LessonsInv'
  <1>1. /\ \A r : Logged(govLog', r) => Logged(govLog, r) \/ r = e
        /\ \A r : Logged(govLog, r) => Logged(govLog', r)
    <2>1. CASE govLog' = govLog
      BY <2>1
    <2>2. CASE govLog' = Append(govLog, e)
      <3>1. govLog \in Seq(GovRecord)
        BY GovTypes
      <3>2. /\ DOMAIN govLog' = 1..(Len(govLog) + 1) /\ DOMAIN govLog = 1..Len(govLog) /\ Len(govLog) \in Nat
            /\ govLog'[Len(govLog) + 1] = e
            /\ \A i \in DOMAIN govLog : i \in DOMAIN govLog' /\ govLog'[i] = govLog[i]
        BY <2>2, <3>1
      <3>3. \A i \in DOMAIN govLog' : i \in DOMAIN govLog \/ i = Len(govLog) + 1
        BY <3>2
      <3>4. QED
        BY <3>2, <3>3 DEF Logged
    <2>3. QED
      BY <2>1, <2>2
  <1>2. \A l \in LessonIds : LessonNamed(l)' => LessonIntact(l)
    <2> SUFFICES ASSUME NEW l \in LessonIds, LessonNamed(l)' PROVE LessonIntact(l)
      OBVIOUS
    <2>1. \/ LessonNamed(l)
          \/ e \in {Proposed(LessonPromote(l)), Change(LessonPromote(l))}
      BY <1>1 DEF LessonNamed, Changed
    <2>2. QED
      BY <2>1 DEF LessonsInv, NoLessonIsLost, LessonNamed, LessonIntact
  <1>3. NoLessonIsLost'
    BY <1>2 DEF NoLessonIsLost, LessonNamed, LessonIntact
  <1>4. PlacesKnowFiles'
    <2>1. govCli' # NoSubject => Logged(govLog', Proposed(govCli'))
      BY <1>1 DEF LessonsInv, PlacesKnowFiles
    <2>2. CASE govRun' = govRun
      BY <1>1, <2>1, <2>2 DEF LessonsInv, PlacesKnowFiles, LessonIntact
    <2>3. CASE govRun' # govRun
      BY <2>1, <2>3 DEF PlacesKnowFiles
    <2>4. QED
      BY <2>2, <2>3
  <1>5. QED
    BY <1>3, <1>4 DEF LessonsInv

\* Every step keeps it.
LEMMA LessonsStep == GovInv /\ LessonsInv /\ [GovernanceNext]_govVars => LessonsInv'
  <1> SUFFICES ASSUME GovInv, LessonsInv, [GovernanceNext]_govVars PROVE LessonsInv'
    OBVIOUS
  <1> USE DEF RunAndLog
  <1>1. CASE \/ ensureGovernanceApproved \/ LoadTask \/ Reconcile \/ loadApprovedLessons
             \/ \E l \in LessonIds : ConfirmHypothesis(l)
             \/ \E p \in listPendingProposals(govLog) : ApproveLive(p)
             \/ TaskEnds \/ foldConfirmedHypotheses \/ proposeLessonFromHypothesis
             \/ GovRunEnds \/ GovRunCrashes
    BY <1>1, RunKnows
  <1>2. CASE PromoteOpens \/ PromoteWrites \/ PromoteUnlinks \/ LessonOpens \/ LessonWrites
    BY <1>2, FilesKnow
  <1>3. CASE RecordRefusal
    <2>1. Proposed(govRun.proposal) \in GovRecord /\ govRun.proposal.kind = "policy_change"
      BY <1>3, Proposals DEF RecordRefusal, GovInv, PromotionsAreApproved, LessonsInv, PlacesKnowFiles
    <2>2. \A l \in LessonIds : Proposed(govRun.proposal) \notin {Proposed(LessonPromote(l)), Change(LessonPromote(l))}
      BY <2>1 DEF Proposed, Change, LessonPromote
    <2>3. QED
      BY <1>3, <2>1, <2>2, DownType, LogKnows DEF RecordRefusal
  <1>4. CASE \E t \in GovTasks : proposeFlakyQuarantine(t)
    <2>1. PICK t \in GovTasks : proposeFlakyQuarantine(t)
      BY <1>4
    <2>2. Proposed(FlakyQuarantine(t)) \in GovRecord
      BY Proposals
    <2>3. \A l \in LessonIds : Proposed(FlakyQuarantine(t)) \notin {Proposed(LessonPromote(l)), Change(LessonPromote(l))}
      BY DEF Proposed, Change, LessonPromote, FlakyQuarantine
    <2>4. QED
      BY <2>1, <2>2, <2>3, LogKnows DEF proposeFlakyQuarantine, ProposeOnce
  <1>5. CASE applyGovernanceApproval
    <2> DEFINE p == govRun.proposal
    <2>1. /\ p \in governanceProposalId /\ Change(p) \in GovRecord /\ Logged(govLog, Proposed(p))
          /\ govRun \in GovRunType /\ govLog' = Append(govLog, Change(p)) /\ UNCHANGED <<lessonFiles, govCli>>
      BY <1>5, Proposals, GovTypes DEF applyGovernanceApproval, GovInv, PromotionsAreApproved, LessonsInv, PlacesKnowFiles
    <2>2. \A l \in LessonIds : Change(p) \in {Proposed(LessonPromote(l)), Change(LessonPromote(l))} => LessonNamed(l)
      BY <2>1 DEF Proposed, Change, LessonNamed
    <2>3. \/ govRun'.pc = "serving"
          \/ govRun'.pc = "promote" /\ lessonFiles[govRun'.lesson].pending = "ok"
      <3>1. CASE p.kind = "lesson_promote"
        <4>1. p.subject \in LessonIds /\ govRun' = StartPromotion(p.subject, "serving")
          BY <1>5, <2>1, <3>1, Proposals DEF applyGovernanceApproval
        <4>2. QED
          BY <2>1, <4>1, StartPromotionType
      <3>2. CASE p.kind # "lesson_promote"
        BY <1>5, <2>1, <3>2 DEF applyGovernanceApproval, GovRunType
      <3>3. QED
        BY <3>1, <3>2
    <2>4. QED
      BY <2>1, <2>2, <2>3, LogKnows
  <1>6. CASE proposeLessonPromotion
    <2>1. govRun.lesson \in LessonIds /\ Proposed(LessonPromote(govRun.lesson)) \in GovRecord /\ govRun \in GovRunType
      BY <1>6, Proposals, GovTypes DEF proposeLessonPromotion, GovInv, PromotionsAreApproved
    <2>2. \A l \in LessonIds :
            Proposed(LessonPromote(govRun.lesson)) \in {Proposed(LessonPromote(l)), Change(LessonPromote(l))} => LessonIntact(l)
      BY <1>6 DEF proposeLessonPromotion, Proposed, Change, LessonPromote, LessonsInv, PlacesKnowFiles, LessonIntact
    <2>3. QED
      BY <1>6, <2>1, <2>2, LogKnows DEF proposeLessonPromotion, ProposeOnce, GovGoto, GovRunType
  <1>7. CASE approveProposal
    <2>1. govCli \in governanceProposalId /\ Change(govCli) \in GovRecord /\ Logged(govLog, Proposed(govCli))
      BY <1>7, Proposals, GovTypes DEF approveProposal, LessonsInv, PlacesKnowFiles
    <2>2. \A l \in LessonIds : Change(govCli) \in {Proposed(LessonPromote(l)), Change(LessonPromote(l))} => LessonNamed(l)
      BY <2>1 DEF Proposed, Change, LessonNamed
    <2>3. QED
      BY <1>7, <2>1, <2>2, LogKnows DEF approveProposal
  <1>8. CASE \E p \in listPendingProposals(govLog) : CliReads(p)
    BY <1>8 DEF CliReads, listPendingProposals, LessonsInv, NoLessonIsLost, PlacesKnowFiles, LessonIntact
  <1>9. CASE (\E s \in Snapshots : EditPolicy(s)) \/ UNCHANGED govVars
    BY <1>9 DEF EditPolicy, govVars, LessonsInv, NoLessonIsLost, PlacesKnowFiles, LessonIntact
  <1>10. QED
    BY <1>1, <1>2, <1>3, <1>4, <1>5, <1>6, <1>7, <1>8, <1>9 DEF GovernanceNext

\* A log starts without a lesson, proposed or approved.
LEMMA LessonsStart == GovernanceInit => LessonsInv
  <1> SUFFICES ASSUME GovernanceInit PROVE LessonsInv
    OBVIOUS
  <1>1. govRun.pc = "down" /\ govCli = NoSubject
    BY DownType DEF GovernanceInit
  <1>2. \A l \in LessonIds : ~LessonNamed(l)
    <2>1. \A i \in DOMAIN govLog : govLog[i].type = "GOVERNANCE_CHANGE" /\ govLog[i].p.kind = "policy_change"
      BY DEF GovernanceInit, seedFixtureSnapshot, Change, PolicyChange
    <2>2. QED
      BY <2>1 DEF LessonNamed, Changed, Logged, Proposed, Change, LessonPromote
  <1>3. QED
    BY <1>1, <1>2 DEF LessonsInv, NoLessonIsLost, PlacesKnowFiles, LessonNamed

(* No lesson reaches approved/ or a prompt without a person's approval in the  *)
(* log; a lesson that was proposed keeps a complete file; and while a task     *)
(* runs, every lesson whose approval it found in the log has a complete file   *)
(* in approved/, but for one whose promotion a crash cut short while it was    *)
(* written, which the code never promotes again: for any number of lessons,    *)
(* runs, crashes and concurrent approvals.  (governance/policy.ts,             *)
(* lessons/lessons.ts.)                                                        *)
THEOREM GovernanceHonoured == GovernanceSpec => []GovernanceIsHonoured
  <1>1. GovernanceSpec => [](GovInv /\ LessonsInv)
    <2>1. GovernanceInit => GovInv /\ LessonsInv
      BY GovInitInv, LessonsStart
    <2>2. GovInv /\ LessonsInv /\ [GovernanceNext]_govVars => (GovInv /\ LessonsInv)'
      BY GovernanceStepInv, LessonsStep
    <2>3. QED
      BY <2>1, <2>2, PTL DEF GovernanceSpec
  <1>2. GovInv /\ LessonsInv => LessonsAreApproved /\ NoLessonIsLost
    BY DEF GovInv, LessonsInv
  <1>3. GovInv /\ LessonsInv => ApprovalsTakeEffect
    <2> SUFFICES ASSUME GovInv, LessonsInv, govRun.pc = "serving", NEW l \in LessonIds,
                        \E i \in 1..govRun.loadedAt : govLog[i] = Change(LessonPromote(l))
                 PROVE  lessonFiles[l].approved = "ok" \/ PromotionCutShort(l)
      BY DEF ApprovalsTakeEffect
    <2>1. govRun.queue = {} /\ (Seen(l) /\ Unmoved(l) => l \in govRun.queue)
      BY DEF GovInv, SweepIsComplete, Sweeping
    <2>2. ~Unmoved(l)
      BY <2>1 DEF Seen
    <2>3. Changed(govLog, LessonPromote(l))
      <3>1. govLog \in Seq(GovRecord) /\ govRun.loadedAt \in Nat /\ govRun.loadedAt <= Len(govLog)
        BY GovTypes DEF GovInv, SweepIsComplete, GovRunType
      <3>2. QED
        BY <3>1 DEF Changed, Logged
    <2>4. "ok" \in {lessonFiles[l].pending, lessonFiles[l].approved}
      BY <2>3 DEF LessonsInv, NoLessonIsLost
    <2>5. lessonFiles[l].approved \in {"none", "torn", "ok"}
      BY GovTypes, Dirs DEF FileStates
    <2>6. QED
      BY <2>2, <2>4, <2>5 DEF Unmoved, PromotionCutShort
  <1>4. QED
    BY <1>1, <1>2, <1>3, PTL DEF GovernanceIsHonoured
-------------------------------------------------------------------------------
(* Console: each of its parts has an invariant of its own.  A chat has a       *)
(* timer for exactly the calls that wait, the tickets of the terminal are      *)
(* numbered, an address that was found stays the address of a run that is over, *)
(* a writer of the configuration has read what it writes over, and a browser   *)
(* that may still try has failed less often than the limit.                    *)

\* A connection: what waits for the operator is exactly what has a timer.
ChatType ==
    [ws : {"none", "ticketed", "expired", "open", "closing", "closed"}, busy : BOOLEAN, turns : Nat,
     pending : SUBSET ToolCalls, timers : SUBSET ToolCalls,
     verdict : [ToolCalls -> {"unasked", "waiting", "allow", "deny"}],
     audited : [ToolCalls -> Seq({"allow", "deny", "timeout", "ws_drop"})]]
\* The audit holds the one answer a call got, and nothing for a call without one.
AnsweredOnce(chat, k) ==
    /\ chat.verdict[k] = "allow" => chat.audited[k] = <<"allow">>
    /\ chat.verdict[k] = "deny" => chat.audited[k] \in {<<"deny">>, <<"timeout">>, <<"ws_drop">>}
    /\ chat.verdict[k] \in {"unasked", "waiting"} => chat.audited[k] = <<>>
\* What every step keeps of the chats.
ChatInv ==
    /\ chats \in [ChatConns -> ChatType]
    /\ \A c \in ChatConns, k \in ToolCalls :
          /\ k \in chats[c].pending <=> chats[c].verdict[k] = "waiting"
          /\ k \in chats[c].timers <=> chats[c].verdict[k] = "waiting"
          /\ AnsweredOnce(chats[c], k)

\* Tickets are numbered.
TermType ==
    [known : BOOLEAN, alive : BOOLEAN, issued : Nat, valid : SUBSET Nat, stale : SUBSET Nat,
     writer : Nat, bound : [Browsers -> Nat], lastWrite : Nat, retaken : BOOLEAN]
\* The newest ticket writes, no two sockets hold the same one, and nothing was
\* written by an older socket after a newer one.
TermInv ==
    /\ term \in TermType
    /\ term.writer = term.issued
    /\ term.lastWrite <= term.issued /\ ~term.retaken
    /\ \A b \in Browsers : term.bound[b] <= term.issued
    /\ \A b, c \in Browsers : term.bound[b] = term.bound[c] => b = c \/ term.bound[b] = 0

\* An address that was found is still the run's, or was replaced once the run was over.
ProxyInv ==
    /\ proxied \in [file : {"no_run", "absent", "live", "tombstoned"}, server : BOOLEAN,
                    request : {"none", "resolved"}, answer : Nat]
    /\ EndedMeansEnded

\* A tab's hash is that of the text it shows, and a save under way was checked against it.
ConfigInv ==
    /\ config \in [file : Contents \cup {NoFile}, base : [Browsers -> Contents \cup {NoHash}],
                   shown : [Browsers -> Contents \cup {NoFile}],
                   save : [tab : SUBSET Browsers, seen : Contents \cup {NoFile}, text : Contents \cup {NoFile}],
                   lost : BOOLEAN, raced : BOOLEAN]
    /\ \A b \in Browsers : config.base[b] = HashShown(config.shown[b])
    /\ config.file = NoFile => \A b \in Browsers : config.shown[b] = NoFile
    /\ config.save # NoSave =>
          /\ config.save.text \in Contents
          /\ \E b \in Browsers : config.save.tab = {b} /\ config.shown[b] = config.save.seen
    /\ EditsAreKept

\* An address counts its wrong passwords since the last right one or the last lockout.
LoginType ==
    [kind : {"basic", "oidc"}, discovery : {"none", "ok", "failed"}, jwks : {"none", "ok", "failed"},
     flows : 0..MaxFlows, pending : 0..MaxFlows, pendingEnds : BOOLEAN,
     call : [1..MaxFlows -> {"none", "exchanging", "refused", "verifying", "done"}],
     session : [kind : {"none", "basic", "oidc"}, flow : 0..MaxFlows], earned : BOOLEAN,
     count : [Browsers -> [failures : Nat, locked : BOOLEAN]], wrong : [Browsers -> Nat]]
\* A browser that is not locked has used up fewer attempts than it may.
LoginInv ==
    /\ login \in LoginType
    /\ login.session # NoLogin => login.earned
    /\ \A b \in Browsers :
          IF login.count[b].locked THEN login.count[b].failures = 0 /\ login.wrong[b] <= maxAttempts
          ELSE login.wrong[b] = login.count[b].failures /\ login.wrong[b] < maxAttempts

\* What a step of one part of the console leaves alone: every other part.
LEMMA ConsoleFrames ==
    /\ (ChatNext => ChatOnly) /\ (TermNext => TermOnly) /\ (SchedNext => SchedOnly) /\ (PruneNext => PruneOnly)
    /\ (ProxyNext => ProxyOnly) /\ (IssueNext => IssueOnly) /\ (ConfigNext => ConfigOnly) /\ (LoginNext => LoginOnly)
  <1>1. ChatNext => ChatOnly
    BY DEF ChatNext, CreateChat, ChatTicketExpires, RedeemChatTicket, handleUserMessage, handleDisconnect, TurnDone,
       TurnFails, canUseTool, ApprovalTimeout, handleToolDecision
  <1>2. TermNext => TermOnly
    BY DEF TermNext, CreateTerm, AttachRoute, PtyExits, KillTerm, TermTicketExpires, TermUpgrade, TermWrite
  <1>3. (SchedNext => SchedOnly) /\ (PruneNext => PruneOnly)
    BY DEF SchedNext, SchedStart, SchedScript, SchedStop, SchedChildExits, PruneNext, PrunePreview, PruneConfirmed,
       TranscriptAges
  <1>4. (ProxyNext => ProxyOnly) /\ (IssueNext => IssueOnly)
    BY DEF ProxyNext, RunStarts, RunListens, RunIsDiscoverable, RunStops, RunTombstones, findRun, loopFetch,
       IssueNext, createIssue, convertIssue, ConvertRecorded, rejectIssue, ConvertCrashes
  <1>5. (ConfigNext => ConfigOnly) /\ (LoginNext => LoginOnly)
    BY DEF ConfigNext, SaveRenames, OpenFile, writeSafe, ForeignWrite, LoginNext, OidcStart, PendingCookieExpires,
       SessionEnds, OidcCallback, ExchangeCode, VerifyAndMint, CooldownEnds, PasswordLogin
  <1>6. QED
    BY <1>1, <1>2, <1>3, <1>4, <1>5

\* ToolCallsFailClosed is the answer part of the chat invariant.
LEMMA ChatsFailClosed == ChatInv => ToolCallsFailClosed
  <1>1. ASSUME ChatInv, NEW c \in ChatConns, NEW k \in ToolCalls
        PROVE  LET verdict == chats[c].verdict[k]
                   audited == chats[c].audited[k]
               IN  CASE verdict = "allow"   -> audited = <<"allow">>
                     [] verdict = "deny"    -> audited \in {<<"deny">>, <<"timeout">>, <<"ws_drop">>}
                     [] verdict = "waiting" -> audited = <<>> /\ k \in chats[c].timers \cap chats[c].pending
                     [] verdict = "unasked" -> audited = <<>>
    <2>1. chats[c].verdict[k] \in {"unasked", "waiting", "allow", "deny"}
      BY <1>1 DEF ChatInv, ChatType
    <2>2. /\ k \in chats[c].pending <=> chats[c].verdict[k] = "waiting"
          /\ k \in chats[c].timers <=> chats[c].verdict[k] = "waiting"
          /\ AnsweredOnce(chats[c], k)
      BY <1>1 DEF ChatInv
    <2>3. QED
      BY <2>1, <2>2 DEF AnsweredOnce
  <1>2. QED
    BY <1>1 DEF ToolCallsFailClosed

\* A call is answered when its timer goes, its socket drops or the operator speaks: once.
LEMMA ChatStep ==
    ASSUME ChatInv, ConsoleNext
    PROVE  ChatInv'
  <1>1. CASE UNCHANGED chats
    BY <1>1 DEF ChatInv
  <1>2. ASSUME NEW c \in ChatConns, NEW chat \in ChatType, chats' = [chats EXCEPT ![c] = chat],
               \A k \in ToolCalls :
                  /\ k \in chat.pending <=> chat.verdict[k] = "waiting"
                  /\ k \in chat.timers <=> chat.verdict[k] = "waiting"
                  /\ AnsweredOnce(chat, k)
        PROVE  ChatInv'
    <2>1. chats' \in [ChatConns -> ChatType] /\ \A d \in ChatConns : chats'[d] = IF d = c THEN chat ELSE chats[d]
      BY <1>2 DEF ChatInv
    <2>2. QED
      BY <1>2, <2>1 DEF ChatInv, AnsweredOnce
  <1>a. ASSUME NEW c \in ChatConns, NEW chat \in ChatType, chats' = [chats EXCEPT ![c] = chat],
               chat.pending = chats[c].pending, chat.timers = chats[c].timers,
               chat.verdict = chats[c].verdict, chat.audited = chats[c].audited
        PROVE  ChatInv'
    BY <1>2, <1>a DEF ChatInv, AnsweredOnce
  <1>3. ASSUME NEW c \in ChatConns,
               \/ CreateChat(c) \/ ChatTicketExpires(c) \/ RedeemChatTicket(c)
               \/ handleUserMessage(c) \/ TurnDone(c) \/ TurnFails(c)
        PROVE  ChatInv'
    <2>0. chats[c] \in ChatType
      BY DEF ChatInv
    <2>1. ASSUME NEW ws \in {"none", "ticketed", "expired", "open", "closing", "closed"},
                 NEW busy \in BOOLEAN, NEW turns \in Nat,
                 chats' = [chats EXCEPT ![c] = [chats[c] EXCEPT !.ws = ws, !.busy = busy, !.turns = turns]]
          PROVE  ChatInv'
      <3> DEFINE chat == [chats[c] EXCEPT !.ws = ws, !.busy = busy, !.turns = turns]
      <3>1. /\ chat \in ChatType /\ chat.pending = chats[c].pending /\ chat.timers = chats[c].timers
            /\ chat.verdict = chats[c].verdict /\ chat.audited = chats[c].audited
        BY <2>0 DEF ChatType
      <3> HIDE DEF chat
      <3>2. QED
        BY <1>a, <2>1, <3>1 DEF chat
    <2>2. chats[c].busy \in BOOLEAN /\ chats[c].turns \in Nat /\ chats[c].turns + 1 \in Nat
      BY <2>0 DEF ChatType
    <2> DEFINE C == chats[c]
    <2>3. CASE CreateChat(c)
      <3>1. chats' = [chats EXCEPT ![c] = [C EXCEPT !.ws = "ticketed", !.busy = C.busy, !.turns = C.turns]]
        BY <2>0, <2>3 DEF CreateChat, ChatType
      <3>2. QED
        BY <2>1, <2>2, <3>1
    <2>4. CASE ChatTicketExpires(c)
      <3>1. chats' = [chats EXCEPT ![c] = [C EXCEPT !.ws = "expired", !.busy = C.busy, !.turns = C.turns]]
        BY <2>0, <2>4 DEF ChatTicketExpires, ChatType
      <3>2. QED
        BY <2>1, <2>2, <3>1
    <2>5. CASE RedeemChatTicket(c)
      <3>1. PICK ws \in {"open", "closed"} :
               chats' = [chats EXCEPT ![c] = [C EXCEPT !.ws = ws, !.busy = C.busy, !.turns = C.turns]]
        BY <2>0, <2>5 DEF RedeemChatTicket, ChatType
      <3>2. QED
        BY <2>1, <2>2, <3>1
    <2>6. CASE handleUserMessage(c)
      <3>1. /\ chats' = [chats EXCEPT ![c] = [C EXCEPT !.ws = C.ws, !.busy = TRUE, !.turns = C.turns + 1]]
            /\ C.ws \in {"open", "closing"}
        BY <2>0, <2>6 DEF handleUserMessage, ChatType
      <3>2. QED
        BY <2>1, <2>2, <3>1
    <2>7. CASE TurnDone(c)
      <3>1. /\ chats' = [chats EXCEPT ![c] = [C EXCEPT !.ws = C.ws, !.busy = FALSE, !.turns = C.turns]]
            /\ C.ws \in {"none", "ticketed", "expired", "open", "closing", "closed"}
        BY <2>0, <2>7 DEF TurnDone, ChatType
      <3>2. QED
        BY <2>1, <2>2, <3>1
    <2>8. CASE TurnFails(c)
      <3> DEFINE ws == IF C.ws = "open" THEN "closing" ELSE C.ws
      <3>1. chats' = [chats EXCEPT ![c] = [C EXCEPT !.ws = ws, !.busy = FALSE, !.turns = C.turns]]
        BY <2>0, <2>8 DEF TurnFails, ChatType
      <3>2. ws \in {"none", "ticketed", "expired", "open", "closing", "closed"}
        BY <2>0 DEF ChatType
      <3> HIDE DEF ws
      <3>3. QED
        BY <2>1, <2>2, <3>1, <3>2
    <2>9. QED
      BY <1>3, <2>3, <2>4, <2>5, <2>6, <2>7, <2>8
  <1>4. ASSUME NEW c \in ChatConns, NEW k \in ToolCalls, canUseTool(c, k)
        PROVE  ChatInv'
    <2> DEFINE chat == [chats[c] EXCEPT !.verdict[k] = "waiting", !.pending = @ \cup {k}, !.timers = @ \cup {k}]
    <2>1. chats[c] \in ChatType /\ chats[c].verdict[k] = "unasked"
      BY <1>4 DEF ChatInv, canUseTool
    <2>2. chats' = [chats EXCEPT ![c] = chat]
      BY <1>4 DEF canUseTool, ChatInv
    <2>3. chat \in ChatType /\ chat.pending = chats[c].pending \cup {k} /\ chat.timers = chats[c].timers \cup {k}
          /\ chat.audited = chats[c].audited
          /\ \A j \in ToolCalls : chat.verdict[j] = IF j = k THEN "waiting" ELSE chats[c].verdict[j]
      BY <2>1 DEF ChatType
    <2> HIDE DEF chat
    <2>4. QED
      BY <1>2, <2>1, <2>2, <2>3 DEF ChatInv, AnsweredOnce
  <1>5. ASSUME NEW c \in ChatConns, NEW k \in ToolCalls, NEW d \in {"allow", "deny"}, NEW why \in {"allow", "deny", "timeout"},
               why = d \/ (why = "timeout" /\ d = "deny"),
               k \in chats[c].timers \/ k \in chats[c].pending, 
               chats' = [chats EXCEPT ![c] = Settle(chats[c], k, d, why)]
        PROVE  ChatInv'
    <2> DEFINE C == chats[c]
               chat == Settle(chats[c], k, d, why)
    <2>1. C \in ChatType /\ C.verdict[k] = "waiting" /\ C.audited[k] = <<>>
      BY <1>5 DEF ChatInv, AnsweredOnce
    <2>2. Append(C.audited[k], why) = <<why>> /\ <<why>> \in Seq({"allow", "deny", "timeout", "ws_drop"})
      BY <2>1
    <2>3. chat \in ChatType /\ chat.pending = C.pending \ {k} /\ chat.timers = C.timers \ {k}
          /\ (\A j \in ToolCalls : chat.verdict[j] = IF j = k THEN d ELSE C.verdict[j])
          /\ \A j \in ToolCalls : chat.audited[j] = IF j = k THEN <<why>> ELSE C.audited[j]
      BY <2>1, <2>2 DEF ChatType, Settle
    <2> HIDE DEF chat
    <2>4. chats' = [chats EXCEPT ![c] = chat]
      BY <1>5 DEF chat
    <2>5. QED
      BY <1>2, <1>5, <2>1, <2>3, <2>4 DEF ChatInv, AnsweredOnce
  <1>6. ASSUME NEW c \in ChatConns, handleDisconnect(c)
        PROVE  ChatInv'
    <2> DEFINE C == chats[c]
               dropped == C.pending
               v == [k \in ToolCalls |-> IF k \in dropped THEN "deny" ELSE C.verdict[k]]
               a == [k \in ToolCalls |-> IF k \in dropped THEN Append(C.audited[k], "ws_drop") ELSE C.audited[k]]
               chat == [C EXCEPT !.ws = "closed", !.pending = {}, !.timers = @ \ dropped, !.verdict = v, !.audited = a]
    <2>1. C \in ChatType
      BY DEF ChatInv
    <2>2. chats' = [chats EXCEPT ![c] = chat]
      BY <1>6 DEF handleDisconnect
    <2>3. \A k \in dropped : C.audited[k] = <<>> /\ C.verdict[k] = "waiting" /\ k \in ToolCalls
      BY <2>1 DEF ChatInv, AnsweredOnce, ChatType
    <2>4. v \in [ToolCalls -> {"unasked", "waiting", "allow", "deny"}]
      <3>1. C.verdict \in [ToolCalls -> {"unasked", "waiting", "allow", "deny"}]
        BY <2>1 DEF ChatType
      <3>2. QED
        BY <3>1
    <2>5. \A k \in ToolCalls : a[k] = IF k \in dropped THEN <<"ws_drop">> ELSE C.audited[k]
      <3>1. ASSUME NEW k \in ToolCalls, k \in C.pending PROVE Append(C.audited[k], "ws_drop") = <<"ws_drop">>
        <4>1. C.audited[k] = <<>>
          BY <2>3, <3>1
        <4>2. QED
          BY <4>1
      <3>2. \A k \in ToolCalls : a[k] = IF k \in dropped THEN Append(C.audited[k], "ws_drop") ELSE C.audited[k]
        OBVIOUS
      <3> HIDE DEF a
      <3>3. QED
        BY <3>1, <3>2
    <2>6. a \in [ToolCalls -> Seq({"allow", "deny", "timeout", "ws_drop"})]
      <3>1. \A k \in ToolCalls : a[k] \in Seq({"allow", "deny", "timeout", "ws_drop"})
        BY <2>1, <2>5 DEF ChatType
      <3>2. QED
        BY <3>1
    <2>7. \A k \in ToolCalls : v[k] = IF k \in dropped THEN "deny" ELSE C.verdict[k]
      OBVIOUS
    <2> HIDE DEF v, a
    <2>8. chat \in ChatType /\ chat.pending = {} /\ chat.timers = C.timers \ dropped
          /\ chat.verdict = v /\ chat.audited = a
      BY <2>1, <2>4, <2>6 DEF ChatType
    <2> HIDE DEF chat
    <2>9. QED
      BY <1>2, <2>1, <2>2, <2>3, <2>5, <2>7, <2>8 DEF ChatInv, AnsweredOnce
  <1>7. ASSUME NEW c \in ChatConns, NEW k \in ToolCalls,
               ApprovalTimeout(c, k) \/ \E d \in {"allow", "deny"} : handleToolDecision(c, k, d)
        PROVE  ChatInv'
    <2>1. CASE ApprovalTimeout(c, k)
      <3>1. k \in chats[c].timers
        BY <2>1 DEF ApprovalTimeout
      <3>2. QED
        BY <1>5, <2>1, <3>1 DEF ApprovalTimeout
    <2>2. ASSUME NEW d \in {"allow", "deny"}, handleToolDecision(c, k, d) PROVE ChatInv'
      <3>1. k \in chats[c].pending
        BY <2>2 DEF handleToolDecision
      <3>2. QED
        BY <1>5, <2>2, <3>1 DEF handleToolDecision
    <2>3. QED
      BY <1>7, <2>1, <2>2
  <1>8. CASE ChatNext
    BY <1>3, <1>4, <1>6, <1>7, <1>8 DEF ChatNext
  <1>9. CASE TermNext \/ SchedNext \/ PruneNext \/ ProxyNext \/ IssueNext \/ ConfigNext \/ LoginNext
    BY <1>1, <1>9, ConsoleFrames DEF TermOnly, SchedOnly, PruneOnly, ProxyOnly, IssueOnly, ConfigOnly, LoginOnly
  <1>13. QED
    BY <1>8, <1>9 DEF ConsoleNext

\* A new ticket has a number no socket is bound to.
LEMMA TicketIsNew ==
    ASSUME NEW t \in TermType
    PROVE  /\ IssueTicket(t) \in TermType
           /\ IssueTicket(t).issued = t.issued + 1 /\ IssueTicket(t).writer = t.issued + 1
           /\ IssueTicket(t).bound = t.bound /\ IssueTicket(t).lastWrite = t.lastWrite
           /\ IssueTicket(t).retaken = t.retaken
  <1>1. t.issued + 1 \in Nat /\ t.valid \cup {t.issued + 1} \in SUBSET Nat
    BY DEF TermType
  <1> DEFINE r(i, v) == [t EXCEPT !.issued = i, !.valid = v, !.writer = i]
  <1>2. \A i \in Nat, v \in SUBSET Nat :
           /\ r(i, v) \in TermType /\ r(i, v).issued = i /\ r(i, v).writer = i /\ r(i, v).bound = t.bound
           /\ r(i, v).lastWrite = t.lastWrite /\ r(i, v).retaken = t.retaken
    BY DEF TermType
  <1>3. IssueTicket(t) = r(t.issued + 1, t.valid \cup {t.issued + 1})
    BY DEF IssueTicket, TermType
  <1> HIDE DEF r
  <1>4. QED
    BY <1>1, <1>2, <1>3

\* A socket is bound to the ticket it spent, and the last one issued writes.
LEMMA TermStep ==
    ASSUME TermInv, ConsoleNext
    PROVE  TermInv'
  <1>1. CASE UNCHANGED term
    BY <1>1 DEF TermInv, TermType
  <1>2. CASE TermNext
    <2> DEFINE issued == IssueTicket(term)
    <2>0. /\ term \in TermType /\ issued \in TermType
          /\ issued.issued = term.issued + 1 /\ issued.writer = term.issued + 1
          /\ issued.bound = term.bound /\ issued.lastWrite = term.lastWrite /\ issued.retaken = term.retaken
          /\ term.issued \in Nat /\ term.lastWrite \in Nat /\ term.bound \in [Browsers -> Nat]
      BY TicketIsNew DEF TermInv, TermType
    <2>1. CASE CreateTerm
      <3>1. term' = [issued EXCEPT !.known = TRUE, !.alive = TRUE]
        BY <2>1 DEF CreateTerm
      <3> HIDE DEF issued
      <3>2. /\ term' \in TermType /\ term'.issued = issued.issued /\ term'.writer = issued.writer
            /\ term'.bound = issued.bound /\ term'.lastWrite = issued.lastWrite /\ term'.retaken = issued.retaken
        BY <2>0, <3>1 DEF TermType
      <3>3. QED
        BY <2>0, <3>2 DEF TermInv
    <2>2. CASE AttachRoute
      <3>1. term' = issued
        BY <2>2 DEF AttachRoute
      <3> HIDE DEF issued
      <3>2. QED
        BY <2>0, <3>1 DEF TermInv
    <2>3. CASE PtyExits \/ KillTerm
      <3>1. PICK k \in BOOLEAN : term' = [term EXCEPT !.known = k, !.alive = FALSE]
        <4>1. CASE PtyExits
          <5>1. term' = [term EXCEPT !.known = term.known, !.alive = FALSE]
            BY <2>0, <4>1 DEF PtyExits, TermType
          <5>2. QED
            BY <2>0, <5>1 DEF TermType
        <4>2. CASE KillTerm
          BY <4>2 DEF KillTerm
        <4>3. QED
          BY <2>3, <4>1, <4>2
      <3>2. /\ term' \in TermType /\ term'.issued = term.issued /\ term'.writer = term.writer
            /\ term'.bound = term.bound /\ term'.lastWrite = term.lastWrite /\ term'.retaken = term.retaken
        BY <2>0, <3>1 DEF TermType
      <3>3. QED
        BY <3>2 DEF TermInv
    <2>4. ASSUME NEW n \in 1..MaxTickets, TermTicketExpires(n) PROVE TermInv'
      BY <2>4, ConsoleAssumption DEF TermInv, TermType, TermTicketExpires
    <2>5. ASSUME NEW n \in 1..MaxTickets, NEW b \in Browsers, TermUpgrade(b, n) PROVE TermInv'
      <3> DEFINE spent == [term EXCEPT !.valid = @ \ {n}, !.stale = @ \ {n}]
                 fresh == IssueTicket(spent)
      <3>1. /\ spent \in TermType /\ spent.issued = term.issued /\ spent.writer = term.writer
            /\ spent.bound = term.bound /\ spent.lastWrite = term.lastWrite /\ spent.retaken = term.retaken
        BY <2>0 DEF TermType
      <3>2. term' = spent \/ term' = [fresh EXCEPT !.bound[b] = term.issued + 1]
        BY <2>5 DEF TermUpgrade
      <3> HIDE DEF spent
      <3>3. /\ fresh \in TermType /\ fresh.issued = term.issued + 1 /\ fresh.writer = term.issued + 1
            /\ fresh.bound = term.bound /\ fresh.lastWrite = term.lastWrite /\ fresh.retaken = term.retaken
        BY <3>1, TicketIsNew
      <3> HIDE DEF fresh
      <3>4. CASE term' = spent
        BY <3>1, <3>4 DEF TermInv
      <3>5. CASE term' = [fresh EXCEPT !.bound[b] = term.issued + 1]
        <4>1. /\ term' \in TermType /\ term'.issued = term.issued + 1 /\ term'.writer = term.issued + 1
              /\ term'.bound = [term.bound EXCEPT ![b] = term.issued + 1] /\ term'.lastWrite = term.lastWrite
              /\ term'.retaken = term.retaken
          BY <2>0, <3>3, <3>5 DEF TermType
        <4>2. \A c \in Browsers : term'.bound[c] = IF c = b THEN term.issued + 1 ELSE term.bound[c]
          BY <2>0, <4>1
        <4>3. QED
          BY <2>0, <4>1, <4>2 DEF TermInv
      <3>6. QED
        BY <3>2, <3>4, <3>5
    <2>6. ASSUME NEW b \in Browsers, TermWrite(b) PROVE TermInv'
      <3>1. /\ term' = [term EXCEPT !.lastWrite = term.bound[b], !.retaken = @ \/ term.bound[b] < term.lastWrite]
            /\ term.bound[b] = term.issued /\ ~(term.bound[b] < term.lastWrite) /\ term.bound[b] \in Nat
        BY <2>0, <2>6 DEF TermInv, TermWrite
      <3>2. term' = [term EXCEPT !.lastWrite = term.bound[b]]
        BY <2>0, <3>1 DEF TermInv, TermType
      <3>3. /\ term' \in TermType /\ term'.issued = term.issued /\ term'.writer = term.writer
            /\ term'.bound = term.bound /\ term'.lastWrite = term.issued /\ term'.retaken = term.retaken
        BY <2>0, <3>1, <3>2 DEF TermType
      <3>4. QED
        BY <2>0, <3>3 DEF TermInv
    <2>7. QED
      BY <1>2, <2>1, <2>2, <2>3, <2>4, <2>5, <2>6 DEF TermNext
  <1>8. CASE ChatNext \/ SchedNext \/ PruneNext \/ ProxyNext \/ IssueNext \/ ConfigNext \/ LoginNext
    BY <1>1, <1>8, ConsoleFrames DEF ChatOnly, SchedOnly, PruneOnly, ProxyOnly, IssueOnly, ConfigOnly, LoginOnly
  <1>13. QED
    BY <1>2, <1>8 DEF ConsoleNext

\* Two sockets with the same number would be the same socket.
LEMMA OneWriter == TermInv => SingleWriter
  <1> SUFFICES ASSUME TermInv PROVE SingleWriter
    OBVIOUS
  <1> DEFINE W == {b \in Browsers : term.bound[b] # 0 /\ term.bound[b] = term.writer}
  <1>1. Cardinality(W) <= 1
    <2>1. CASE W = {}
      <3>1. Cardinality(W) = 0
        BY <2>1, FS_EmptySet
      <3>2. QED
        BY <3>1
    <2>2. ASSUME NEW b \in W PROVE Cardinality(W) <= 1
      <3>1. W = {b}
        BY <2>2 DEF TermInv, TermType
      <3>2. Cardinality(W) = 1
        BY <3>1, FS_Singleton
      <3>3. QED
        BY <3>2
    <2>3. QED
      BY <2>1, <2>2
  <1>2. QED
    BY <1>1 DEF TermInv, TermType, SingleWriter

\* Only a run that is over gives its address away.
LEMMA ProxyStep ==
    ASSUME ProxyInv, ConsoleNext
    PROVE  ProxyInv'
  <1>1. CASE UNCHANGED proxied
    BY <1>1 DEF ProxyInv, EndedMeansEnded
  <1>2. CASE ProxyNext
    <2>1. CASE RunStarts \/ RunListens
      BY <2>1 DEF ProxyInv, EndedMeansEnded, RunStarts, RunListens
    <2>2. CASE RunIsDiscoverable \/ RunStops
      BY <2>2 DEF ProxyInv, EndedMeansEnded, RunIsDiscoverable, RunStops
    <2>3. CASE RunTombstones
      BY <2>3 DEF ProxyInv, EndedMeansEnded, RunTombstones
    <2>6. CASE loopFetch
      <3> DEFINE answer == IF proxied.server THEN 200 ELSE 502
      <3>1. proxied' = [proxied EXCEPT !.request = "none", !.answer = answer] /\ answer \in Nat
        BY <2>6 DEF loopFetch
      <3> HIDE DEF answer
      <3>2. QED
        BY <3>1 DEF ProxyInv, EndedMeansEnded
    <2>4. CASE findRun
      <3>1. CASE proxied.file = "live"
        BY <2>4, <3>1 DEF ProxyInv, EndedMeansEnded, findRun
      <3>2. CASE proxied.file # "live"
        <4>1. /\ proxied'.file = proxied.file /\ proxied'.server = proxied.server
              /\ proxied'.request = proxied.request /\ proxied'.answer \in Nat
          BY <2>4, <3>2 DEF ProxyInv, findRun
        <4>2. proxied' \in [file : {"no_run", "absent", "live", "tombstoned"}, server : BOOLEAN,
                            request : {"none", "resolved"}, answer : Nat]
          BY <2>4, <3>2 DEF ProxyInv, findRun
        <4>3. QED
          BY <4>1, <4>2 DEF ProxyInv, EndedMeansEnded
      <3>3. QED
        BY <3>1, <3>2
    <2>5. QED
      BY <1>2, <2>1, <2>2, <2>3, <2>4, <2>6 DEF ProxyNext
  <1>8. CASE ChatNext \/ TermNext \/ SchedNext \/ PruneNext \/ IssueNext \/ ConfigNext \/ LoginNext
    BY <1>1, <1>8, ConsoleFrames DEF ChatOnly, TermOnly, SchedOnly, PruneOnly, IssueOnly, ConfigOnly, LoginOnly
  <1>13. QED
    BY <1>2, <1>8 DEF ConsoleNext

\* The lock is taken before the configuration is read, and given back after the write.
LEMMA ConfigStep ==
    ASSUME ConfigInv, ConsoleNext
    PROVE  ConfigInv'
  <1>1. CASE UNCHANGED config
    BY <1>1 DEF ConfigInv, EditsAreKept, HashShown, NoSave
  <1>2. ASSUME NEW b \in Browsers, OpenFile(b) PROVE ConfigInv'
    BY <1>2, ConsoleAssumption DEF ConfigInv, EditsAreKept, HashShown, OpenFile
  <1>3. ASSUME NEW b \in Browsers, NEW text \in Contents, writeSafe(b, text) PROVE ConfigInv'
    <2>1. config.shown[b] = config.file
      BY <1>3, ConsoleAssumption DEF ConfigInv, HashShown, writeSafe
    <2>2. config'.save = [tab |-> {b}, seen |-> config.file, text |-> text]
      BY <1>3 DEF ConfigInv, writeSafe
    <2>3. /\ config'.shown = config.shown /\ config'.file = config.file /\ config'.base = config.base
          /\ config'.lost = config.lost /\ config'.raced = config.raced
      BY <1>3 DEF ConfigInv, writeSafe
    <2>4. config' \in [file : Contents \cup {NoFile}, base : [Browsers -> Contents \cup {NoHash}],
                   shown : [Browsers -> Contents \cup {NoFile}],
                   save : [tab : SUBSET Browsers, seen : Contents \cup {NoFile}, text : Contents \cup {NoFile}],
                   lost : BOOLEAN, raced : BOOLEAN]
      BY <1>3 DEF ConfigInv, writeSafe
    <2>5. QED
      BY <2>1, <2>2, <2>3, <2>4 DEF ConfigInv, EditsAreKept, HashShown
  <1>4. CASE SaveRenames
    <2>1. PICK b \in Browsers : config.save.tab = {b} /\ config.shown[b] = config.save.seen
      BY <1>4 DEF ConfigInv, SaveRenames
    <2>2. (CHOOSE t \in Browsers : t \in config.save.tab) = b
      BY <2>1
    <2>3. config' = [config EXCEPT !.file = config.save.text, !.save = NoSave,
                                   !.lost = @ \/ config.file # config.shown[b],
                                   !.raced = @ \/ config.file # config.save.seen]
      BY <1>4, <2>2 DEF SaveRenames
    <2>4. config.save.text \in Contents
      BY <1>4 DEF ConfigInv, SaveRenames
    <2>5. QED
      BY <2>1, <2>3, <2>4, ConsoleAssumption DEF ConfigInv, EditsAreKept, HashShown, NoSave
  <1>5. ASSUME NEW text \in Contents, ForeignWrite(text) PROVE ConfigInv'
    BY <1>5, ConsoleAssumption DEF ConfigInv, EditsAreKept, HashShown, ForeignWrite
  <1>8. CASE ChatNext \/ TermNext \/ SchedNext \/ PruneNext \/ ProxyNext \/ IssueNext \/ LoginNext
    BY <1>1, <1>8, ConsoleFrames DEF ChatOnly, TermOnly, SchedOnly, PruneOnly, ProxyOnly, IssueOnly, LoginOnly
  <1>13. QED
    BY <1>2, <1>3, <1>4, <1>5, <1>8 DEF ConsoleNext, ConfigNext

\* A session is given to a password that was right, and a wrong one is counted.
LEMMA LoginStep ==
    ASSUME LoginInv, ConsoleNext
    PROVE  LoginInv'
  <1>1. CASE UNCHANGED login
    BY <1>1 DEF LoginInv, LoginType
  <1>a. login \in LoginType /\ MaxFlows \in Nat /\ maxAttempts \in Nat /\ maxAttempts > 0
    BY ConsoleAssumption DEF LoginInv
  <1>b. ASSUME login' \in LoginType, login'.count = login.count, login'.wrong = login.wrong,
               login'.session # NoLogin => login'.earned
        PROVE  LoginInv'
    BY <1>b DEF LoginInv, NoLogin
  <1>c. ASSUME login' \in LoginType, login'.session # NoLogin => login'.earned,
               NEW b \in Browsers, \A d \in Browsers \ {b} : login'.count[d] = login.count[d] /\ login'.wrong[d] = login.wrong[d],
               IF login'.count[b].locked THEN login'.count[b].failures = 0 /\ login'.wrong[b] <= maxAttempts
               ELSE login'.wrong[b] = login'.count[b].failures /\ login'.wrong[b] < maxAttempts
        PROVE  LoginInv'
    BY <1>c DEF LoginInv, NoLogin
  <1>2. CASE OidcStart
    <2>1. PICK discovery \in Fetched(login.discovery) :
             login' = IF discovery = "failed"
                      THEN [login EXCEPT !.discovery = discovery]
                      ELSE [login EXCEPT !.discovery = discovery, !.flows = @ + 1,
                                         !.pending = login.flows + 1, !.pendingEnds = FALSE]
      BY <1>2 DEF OidcStart
    <2>2. discovery \in {"none", "ok", "failed"} /\ login.flows + 1 \in 0..MaxFlows
      BY <1>2, <1>a DEF OidcStart, Fetched, LoginType
    <2>3. /\ login' \in LoginType /\ login'.count = login.count /\ login'.wrong = login.wrong
          /\ login'.session = login.session /\ login'.earned = login.earned
      <3>1. CASE discovery = "failed"
        BY <1>a, <2>1, <2>2, <3>1 DEF LoginType
      <3>2. CASE discovery # "failed"
        BY <1>a, <2>1, <2>2, <3>2 DEF LoginType
      <3>3. QED
        BY <3>1, <3>2
    <2>4. QED
      BY <1>b, <2>3 DEF LoginInv
  <1>3. CASE PendingCookieExpires \/ SessionEnds
    <2>1. CASE PendingCookieExpires
      <3>1. /\ login' \in LoginType /\ login'.count = login.count /\ login'.wrong = login.wrong
            /\ login'.session = login.session /\ login'.earned = login.earned
        BY <1>a, <2>1 DEF LoginType, PendingCookieExpires
      <3>2. QED
        BY <1>b, <3>1 DEF LoginInv
    <2>2. CASE SessionEnds
      <3>0. login' = [login EXCEPT !.session = NoLogin, !.earned = FALSE]
            /\ NoLogin \in [kind : {"none", "basic", "oidc"}, flow : 0..MaxFlows]
        BY <1>a, <2>2 DEF SessionEnds, NoLogin
      <3>1. /\ login' \in LoginType /\ login'.count = login.count /\ login'.wrong = login.wrong
            /\ login'.session = NoLogin
        BY <1>a, <3>0 DEF LoginType
      <3>2. QED
        BY <1>b, <3>1
    <2>3. QED
      BY <1>3, <2>1, <2>2
  <1>4. ASSUME NEW f \in 1..MaxFlows, OidcCallback(f) \/ ExchangeCode(f) PROVE LoginInv'
    <2>1. ASSUME NEW jwks \in {"none", "ok", "failed"}, NEW next \in {"exchanging", "verifying", "refused"},
                 login' = [login EXCEPT !.jwks = jwks, !.call[f] = next]
          PROVE  LoginInv'
      <3>1. /\ login' \in LoginType /\ login'.count = login.count /\ login'.wrong = login.wrong
            /\ login'.session = login.session /\ login'.earned = login.earned
        BY <1>a, <2>1 DEF LoginType
      <3>2. QED
        BY <1>b, <3>1 DEF LoginInv
    <2>2. CASE OidcCallback(f)
      <3>1. PICK next \in {"exchanging", "refused"} : login' = [login EXCEPT !.call[f] = next]
        BY <2>2 DEF OidcCallback
      <3>2. login' = [login EXCEPT !.jwks = login.jwks, !.call[f] = next]
        BY <1>a, <3>1 DEF LoginType
      <3>3. login.jwks \in {"none", "ok", "failed"}
        BY <1>a DEF LoginType
      <3>4. QED
        BY <2>1, <3>2, <3>3
    <2>3. CASE ExchangeCode(f)
      <3>1. PICK jwks \in Fetched(login.jwks) :
               \/ login' = [login EXCEPT !.jwks = jwks, !.call[f] = IF jwks = "ok" THEN "verifying" ELSE "refused"]
               \/ login' = [login EXCEPT !.call[f] = "refused"]
        BY <2>3 DEF ExchangeCode
      <3>2. jwks \in {"none", "ok", "failed"} /\ login.jwks \in {"none", "ok", "failed"}
        BY <1>a, <3>1 DEF LoginType, Fetched
      <3>3. CASE login' = [login EXCEPT !.jwks = jwks, !.call[f] = IF jwks = "ok" THEN "verifying" ELSE "refused"]
        BY <2>1, <3>2, <3>3
      <3>4. CASE login' = [login EXCEPT !.call[f] = "refused"]
        <4>1. login' = [login EXCEPT !.jwks = login.jwks, !.call[f] = "refused"]
          BY <1>a, <3>4 DEF LoginType
        <4>2. QED
          BY <2>1, <3>2, <4>1
      <3>5. QED
        BY <3>1, <3>3, <3>4
    <2>4. QED
      BY <1>4, <2>2, <2>3
  <1>5. ASSUME NEW f \in 1..MaxFlows, NEW token \in IdTokens, VerifyAndMint(f, token) PROVE LoginInv'
    <2>1. CASE verifyIdToken(token, f)
      <3> DEFINE minted == [kind |-> "oidc", flow |-> f]
      <3>1. /\ minted \in [kind : {"none", "basic", "oidc"}, flow : 0..MaxFlows] /\ 0 \in 0..MaxFlows
            /\ (token.nonce = f /\ token.sub = "allowed") = TRUE
        BY <1>a, <2>1 DEF verifyIdToken
      <3>2. login' = [login EXCEPT !.call[f] = "done", !.session = minted, !.earned = TRUE, !.pending = 0]
        BY <1>5, <2>1, <3>1 DEF VerifyAndMint
      <3> HIDE DEF minted
      <3>3. /\ login' \in LoginType /\ login'.count = login.count /\ login'.wrong = login.wrong /\ login'.earned
        BY <1>a, <3>1, <3>2 DEF LoginType
      <3>4. QED
        BY <1>b, <3>3
    <2>2. CASE ~verifyIdToken(token, f)
      <3>1. login' = [login EXCEPT !.call[f] = "refused"]
        BY <1>5, <2>2 DEF VerifyAndMint
      <3>2. /\ login' \in LoginType /\ login'.count = login.count /\ login'.wrong = login.wrong
            /\ login'.session = login.session /\ login'.earned = login.earned
        BY <1>a, <3>1 DEF LoginType
      <3>3. QED
        BY <1>b, <3>2 DEF LoginInv
    <2>3. QED
      BY <2>1, <2>2
  <1>6. ASSUME NEW b \in Browsers, CooldownEnds(b) PROVE LoginInv'
    <2>1. login.count[b] \in [failures : Nat, locked : BOOLEAN] /\ login.count[b].locked /\ login.count[b].failures = 0
      BY <1>6, <1>a DEF LoginInv, LoginType, CooldownEnds
    <2> DEFINE counts == [login.count EXCEPT ![b].locked = FALSE]
               wrongs == [login.wrong EXCEPT ![b] = 0]
    <2>2. login' = [login EXCEPT !.count = counts, !.wrong = wrongs]
      BY <1>6, <1>a DEF CooldownEnds, LoginType
    <2>3. counts \in [Browsers -> [failures : Nat, locked : BOOLEAN]] /\ wrongs \in [Browsers -> Nat]
      BY <1>a, <2>1 DEF LoginType
    <2>4. /\ \A d \in Browsers \ {b} : counts[d] = login.count[d] /\ wrongs[d] = login.wrong[d]
          /\ counts[b].locked = FALSE /\ counts[b].failures = 0 /\ wrongs[b] = 0
      BY <1>a, <2>1 DEF LoginType
    <2> HIDE DEF counts, wrongs
    <2>5. /\ login' \in LoginType /\ login'.count = counts /\ login'.wrong = wrongs
          /\ login'.session = login.session /\ login'.earned = login.earned
      BY <1>a, <2>2, <2>3 DEF LoginType
    <2>6. QED
      BY <1>a, <1>c, <2>4, <2>5 DEF LoginInv
  <1>7. ASSUME NEW b \in Browsers, NEW right \in BOOLEAN, PasswordLogin(b, right) PROVE LoginInv'
    <2> DEFINE Attempt(count, wrong, session, earned) ==
                  [login EXCEPT !.count[b] = count, !.wrong[b] = wrong, !.session = session, !.earned = earned]
    <2>1. ASSUME NEW count \in [failures : Nat, locked : BOOLEAN], NEW wrong \in Nat,
                 NEW session \in [kind : {"none", "basic", "oidc"}, flow : 0..MaxFlows], NEW earned \in BOOLEAN,
                 login' = Attempt(count, wrong, session, earned), session # NoLogin => earned,
                 IF count.locked THEN count.failures = 0 /\ wrong <= maxAttempts
                 ELSE wrong = count.failures /\ wrong < maxAttempts
          PROVE  LoginInv'
      <3>1. /\ login' \in LoginType /\ login'.session = session /\ login'.earned = earned
            /\ login'.count[b] = count /\ login'.wrong[b] = wrong
            /\ \A d \in Browsers \ {b} : login'.count[d] = login.count[d] /\ login'.wrong[d] = login.wrong[d]
        BY <1>a, <2>1 DEF LoginType
      <3>2. QED
        BY <1>c, <2>1, <3>1
    <2>2. CASE right
      <3>1. login' = Attempt([failures |-> 0, locked |-> FALSE], 0, [kind |-> "basic", flow |-> 0], TRUE)
        BY <1>7, <2>2 DEF PasswordLogin
      <3> HIDE DEF Attempt
      <3>2. /\ [failures |-> 0, locked |-> FALSE] \in [failures : Nat, locked : BOOLEAN]
            /\ [kind |-> "basic", flow |-> 0] \in [kind : {"none", "basic", "oidc"}, flow : 0..MaxFlows]
        BY <1>a
      <3>3. QED
        BY <1>a, <2>1, <3>1, <3>2
    <2>3. CASE ~right
      <3> DEFINE count == login.count[b]
                 next == recordFailure(count)
      <3>1. /\ count \in [failures : Nat, locked : BOOLEAN] /\ ~count.locked /\ login.wrong[b] = count.failures
            /\ login.wrong[b] < maxAttempts /\ login.wrong[b] \in Nat
        BY <1>7, <1>a DEF LoginInv, LoginType, PasswordLogin
      <3>2. next \in [failures : Nat, locked : BOOLEAN]
            /\ IF next.locked THEN next.failures = 0 ELSE next.failures = count.failures + 1 /\ count.failures + 1 < maxAttempts
        BY <1>a, <3>1 DEF recordFailure
      <3>3. login' = Attempt(next, login.wrong[b] + 1, login.session, login.earned)
        BY <1>7, <1>a, <2>3 DEF PasswordLogin, LoginType
      <3> HIDE DEF next, count
      <3>4. /\ login.session \in [kind : {"none", "basic", "oidc"}, flow : 0..MaxFlows] /\ login.earned \in BOOLEAN
            /\ login.session # NoLogin => login.earned
        BY <1>a DEF LoginInv, LoginType
      <3> HIDE DEF Attempt
      <3>5. login.wrong[b] + 1 \in Nat
        BY <3>1
      <3>6. IF next.locked THEN next.failures = 0 /\ login.wrong[b] + 1 <= maxAttempts
            ELSE login.wrong[b] + 1 = next.failures /\ login.wrong[b] + 1 < maxAttempts
        BY <1>a, <3>1, <3>2
      <3>7. QED
        BY <2>1, <3>2, <3>3, <3>4, <3>5, <3>6
    <2>4. QED
      BY <2>2, <2>3
  <1>8. CASE ChatNext \/ TermNext \/ SchedNext \/ PruneNext \/ ProxyNext \/ IssueNext \/ ConfigNext
    BY <1>1, <1>8, ConsoleFrames DEF ChatOnly, TermOnly, SchedOnly, PruneOnly, ProxyOnly, IssueOnly, ConfigOnly
  <1>13. QED
    BY <1>2, <1>3, <1>4, <1>5, <1>6, <1>7, <1>8 DEF ConsoleNext, LoginNext

\* What those leave open: tickets are numbered up to the last one issued, and a flow
\* is pending only after it was started.
TicketsNumbered ==
    term.issued <= MaxTickets + 1 /\ term.valid \subseteq 1..term.issued /\ term.stale \subseteq term.valid
\* The child: its place is taken while a process of it lives.
SchedInv ==
    /\ sched \in [child : {"none", "running", "signalled"}, token : BOOLEAN, procs : Nat]
    /\ sched.procs = IF sched.child = "none" THEN 0 ELSE 1
\* The transcripts: what the client shows stood on a preview, and so did what is gone.
PruneInv ==
    /\ prune \in [old : SUBSET Transcripts, deleted : SUBSET Transcripts, previewed : BOOLEAN,
                  shown : SUBSET Transcripts, seen : SUBSET Transcripts]
    /\ prune.shown \cup prune.deleted \subseteq prune.seen
\* The issue: its draft is written before it is recorded as converted.
IssueInv ==
    /\ issues \in [status : {"none", "open", "converted", "rejected"}, draft : BOOLEAN, converting : BOOLEAN]
    /\ issues.converting \/ issues.status = "converted" => issues.draft
\* Child, transcripts, issue and the proxied answer.
SmallerParts == SchedInv /\ PruneInv /\ IssueInv /\ proxied.answer \in {0, 200, 404, 409, 502}
\* The flow in the pending cookie was started.
FlowIsStarted == login.pending <= login.flows

\* A ticket that is issued is the next number.
LEMMA TicketsStep ==
    ASSUME TermInv, TicketsNumbered, ConsoleNext
    PROVE  TicketsNumbered'
  <1>1. CASE UNCHANGED term
    BY <1>1 DEF TicketsNumbered
  <1>2. CASE TermNext
    <2>0. /\ term \in TermType /\ term.issued \in Nat /\ MaxTickets \in Nat
      BY ConsoleAssumption DEF TermInv, TermType
    <2>a. ASSUME NEW t \in TermType, t.issued = term.issued, t.valid \subseteq term.valid, t.stale \subseteq t.valid,
                 term.issued <= MaxTickets, NEW u \in TermType,
                 u.issued = IssueTicket(t).issued, u.valid = IssueTicket(t).valid, u.stale = IssueTicket(t).stale,
                 term' = u
          PROVE  TicketsNumbered'
      <3>1. /\ u.issued = term.issued + 1 /\ u.valid = t.valid \cup {term.issued + 1} /\ u.stale = t.stale
        BY <2>a DEF IssueTicket, TermType
      <3>2. QED
        BY <2>0, <2>a, <3>1 DEF TicketsNumbered
    <2>b. ASSUME term'.issued = term.issued, term'.valid \subseteq term.valid, term'.stale \subseteq term'.valid
          PROVE  TicketsNumbered'
      BY <2>0, <2>b DEF TicketsNumbered
    <2>1. CASE CreateTerm
      <3>1. term' = [IssueTicket(term) EXCEPT !.known = TRUE, !.alive = TRUE] /\ term.issued <= MaxTickets
        BY <2>0, <2>1 DEF CreateTerm
      <3>2. IssueTicket(term) \in TermType
        BY <2>0, TicketIsNew
      <3>3. /\ term' \in TermType /\ term'.issued = IssueTicket(term).issued
            /\ term'.valid = IssueTicket(term).valid /\ term'.stale = IssueTicket(term).stale
        BY <3>1, <3>2 DEF TermType
      <3>4. QED
        BY <2>0, <2>a, <3>1, <3>3 DEF TicketsNumbered
    <2>2. CASE AttachRoute
      <3>1. term' = IssueTicket(term) /\ term.issued <= MaxTickets
        BY <2>0, <2>2, ConsoleAssumption DEF AttachRoute
      <3>2. IssueTicket(term) \in TermType
        BY <2>0, TicketIsNew
      <3>3. QED
        BY <2>0, <2>a, <3>1, <3>2 DEF TicketsNumbered
    <2>3. ASSUME NEW n \in 1..MaxTickets, TermTicketExpires(n) PROVE TicketsNumbered'
      <3>1. n \in term.valid /\ term' = [term EXCEPT !.stale = @ \cup {n}]
        BY <2>3 DEF TermTicketExpires
      <3>2. term'.issued = term.issued /\ term'.valid = term.valid /\ term'.stale = term.stale \cup {n}
        BY <2>0, <3>1 DEF TermType
      <3>3. QED
        BY <2>b, <3>1, <3>2 DEF TicketsNumbered
    <2>4. ASSUME NEW n \in 1..MaxTickets, NEW b \in Browsers, TermUpgrade(b, n) PROVE TicketsNumbered'
      <3> DEFINE spent == [term EXCEPT !.valid = @ \ {n}, !.stale = @ \ {n}]
      <3>1. /\ term.issued <= MaxTickets
            /\ \/ term' = spent
               \/ term' = [IssueTicket(spent) EXCEPT !.bound[b] = term.issued + 1]
        BY <2>0, <2>4, ConsoleAssumption DEF TermUpgrade
      <3>2. /\ spent \in TermType /\ spent.issued = term.issued /\ spent.valid \subseteq term.valid
            /\ spent.stale \subseteq spent.valid
        BY <2>0 DEF TermType, TicketsNumbered
      <3> HIDE DEF spent
      <3>3. CASE term' = spent
        BY <2>b, <3>2, <3>3
      <3>4. CASE term' = [IssueTicket(spent) EXCEPT !.bound[b] = term.issued + 1]
        <4>1. IssueTicket(spent) \in TermType
          BY <3>2, TicketIsNew
        <4>2. /\ term' \in TermType /\ term'.issued = IssueTicket(spent).issued
              /\ term'.valid = IssueTicket(spent).valid /\ term'.stale = IssueTicket(spent).stale
          BY <2>0, <3>4, <4>1 DEF TermType
        <4>3. QED
          BY <2>a, <3>1, <3>2, <4>2
      <3>5. QED
        BY <3>1, <3>3, <3>4
    <2>5. ASSUME NEW b \in Browsers, TermWrite(b) PROVE TicketsNumbered'
      <3>1. term'.issued = term.issued /\ term'.valid = term.valid /\ term'.stale = term.stale
        BY <2>0, <2>5 DEF TermWrite, TermType
      <3>2. QED
        BY <2>b, <3>1 DEF TicketsNumbered
    <2>6. CASE PtyExits \/ KillTerm
      <3>1. term'.issued = term.issued /\ term'.valid = term.valid /\ term'.stale = term.stale
        <4>1. CASE PtyExits
          BY <2>0, <4>1 DEF PtyExits, TermType
        <4>2. CASE KillTerm
          BY <2>0, <4>2 DEF KillTerm, TermType
        <4>3. QED
          BY <2>6, <4>1, <4>2
      <3>2. QED
        BY <2>b, <3>1 DEF TicketsNumbered
    <2>7. QED
      BY <1>2, <2>1, <2>2, <2>3, <2>4, <2>5, <2>6 DEF TermNext
  <1>3. QED
    BY <1>1, <1>2, ConsoleFrames DEF ConsoleNext, ChatOnly, SchedOnly, PruneOnly, ProxyOnly, IssueOnly, ConfigOnly,
       LoginOnly

\* A child starts only where there is none, and gives its place up when it exits.
LEMMA SchedStep == SchedInv /\ SchedNext => SchedInv'
  <1> SUFFICES ASSUME SchedInv, SchedNext PROVE SchedInv'
    OBVIOUS
  <1>1. sched \in [child : {"none", "running", "signalled"}, token : BOOLEAN, procs : Nat]
    BY DEF SchedInv
  <1>2. PICK c \in {"none", "running", "signalled"}, t \in BOOLEAN, n \in Nat :
          sched' = [child |-> c, token |-> t, procs |-> n] /\ n = IF c = "none" THEN 0 ELSE 1
    <2>1. ASSUME NEW confirmed \in BOOLEAN, SchedStart(confirmed)
          PROVE  \/ sched.child = "none" /\ sched' = [sched EXCEPT !.child = "running", !.procs = @ + 1]
                 \/ sched' = [sched EXCEPT !.token = TRUE]
      BY <2>1 DEF SchedStart, decideSchedStart
    <2>2. \/ sched.child = "none" /\ sched' = [sched EXCEPT !.child = "running", !.procs = @ + 1]
          \/ sched' = [sched EXCEPT !.token = TRUE]
          \/ sched.child # "none" /\ sched' = [sched EXCEPT !.child = "signalled"]
          \/ sched.child # "none" /\ sched' = [sched EXCEPT !.child = "none", !.procs = @ - 1]
      BY <2>1 DEF SchedNext, SchedScript, SchedStop, SchedChildExits
    <2>3. CASE sched.child = "none" /\ sched' = [sched EXCEPT !.child = "running", !.procs = @ + 1]
      <3>1. sched.procs = 0
        BY <2>3 DEF SchedInv
      <3>2. sched' = [child |-> "running", token |-> sched.token, procs |-> sched.procs + 1]
        BY <1>1, <2>3
      <3>3. QED
        BY <1>1, <3>1, <3>2
    <2>4. CASE sched' = [sched EXCEPT !.token = TRUE]
      <3>1. sched' = [child |-> sched.child, token |-> TRUE, procs |-> sched.procs]
        BY <1>1, <2>4
      <3>2. QED
        BY <1>1, <3>1 DEF SchedInv
    <2>5. CASE sched.child # "none" /\ sched' = [sched EXCEPT !.child = "signalled"]
      <3>1. sched.procs = 1 /\ sched' = [child |-> "signalled", token |-> sched.token, procs |-> sched.procs]
        BY <1>1, <2>5 DEF SchedInv
      <3>2. QED
        BY <1>1, <3>1
    <2>6. CASE sched.child # "none" /\ sched' = [sched EXCEPT !.child = "none", !.procs = @ - 1]
      <3>1. sched.procs = 1
        BY <2>6 DEF SchedInv
      <3>2. sched' = [child |-> "none", token |-> sched.token, procs |-> sched.procs - 1]
        BY <1>1, <2>6
      <3>3. QED
        BY <1>1, <3>1, <3>2
    <2>7. QED
      BY <2>2, <2>3, <2>4, <2>5, <2>6
  <1>3. QED
    BY <1>2 DEF SchedInv

\* What is deleted is what the preview showed.
LEMMA PruneStep == PruneInv /\ PruneNext => PruneInv'
  <1> SUFFICES ASSUME PruneInv, PruneNext PROVE PruneInv'
    OBVIOUS
  <1>1. prune \in [old : SUBSET Transcripts, deleted : SUBSET Transcripts, previewed : BOOLEAN,
                   shown : SUBSET Transcripts, seen : SUBSET Transcripts]
    BY DEF PruneInv
  <1>2. CASE PrunePreview
    <2>1. prune' = [old |-> prune.old, deleted |-> prune.deleted, previewed |-> TRUE, shown |-> prune.old,
                    seen |-> prune.seen \cup prune.old]
      BY <1>1, <1>2 DEF PrunePreview
    <2>2. QED
      BY <1>1, <2>1 DEF PruneInv
  <1>3. CASE PruneConfirmed
    <2>1. /\ prune.old = prune.shown
          /\ prune' = [old |-> {}, deleted |-> prune.deleted \cup prune.old, previewed |-> FALSE,
                       shown |-> prune.shown, seen |-> prune.seen]
      BY <1>1, <1>3 DEF PruneConfirmed
    <2>2. QED
      BY <1>1, <2>1 DEF PruneInv
  <1>4. ASSUME NEW f \in Transcripts, TranscriptAges(f) PROVE PruneInv'
    <2>1. prune' = [old |-> prune.old \cup {f}, deleted |-> prune.deleted, previewed |-> prune.previewed,
                    shown |-> prune.shown, seen |-> prune.seen]
      BY <1>1, <1>4 DEF TranscriptAges
    <2>2. QED
      BY <1>1, <2>1 DEF PruneInv
  <1>5. QED
    BY <1>2, <1>3, <1>4 DEF PruneNext

\* The record follows the draft.
LEMMA IssueStep == IssueInv /\ IssueNext => IssueInv'
  <1> SUFFICES ASSUME IssueInv, IssueNext PROVE IssueInv'
    OBVIOUS
  <1>1. issues \in [status : {"none", "open", "converted", "rejected"}, draft : BOOLEAN, converting : BOOLEAN]
    BY DEF IssueInv
  <1>2. CASE createIssue \/ rejectIssue
    <2>1. PICK s \in {"open", "rejected"} : issues' = [issues EXCEPT !.status = s]
      BY <1>2 DEF createIssue, rejectIssue
    <2>2. issues' = [status |-> s, draft |-> issues.draft, converting |-> issues.converting]
      BY <1>1, <2>1
    <2>3. QED
      BY <1>1, <2>2 DEF IssueInv
  <1>3. CASE convertIssue
    <2>1. issues' = [status |-> issues.status, draft |-> TRUE, converting |-> TRUE]
      BY <1>1, <1>3 DEF convertIssue
    <2>2. QED
      BY <1>1, <2>1 DEF IssueInv
  <1>4. CASE ConvertRecorded
    <2>1. issues.draft /\ issues' = [status |-> "converted", draft |-> issues.draft, converting |-> FALSE]
      BY <1>1, <1>4 DEF ConvertRecorded, IssueInv
    <2>2. QED
      BY <1>1, <2>1 DEF IssueInv
  <1>5. CASE ConvertCrashes
    <2>1. issues' = [status |-> issues.status, draft |-> issues.draft, converting |-> FALSE]
      BY <1>1, <1>5 DEF ConvertCrashes
    <2>2. QED
      BY <1>1, <2>1 DEF IssueInv
  <1>6. QED
    BY <1>2, <1>3, <1>4, <1>5 DEF IssueNext

\* Whichever of these parts moves, the others stay as they are.
LEMMA SmallerStep ==
    ASSUME SmallerParts, ProxyInv, ConsoleNext
    PROVE  SmallerParts'
  <1> USE DEF SmallerParts
  <1>0. /\ UNCHANGED sched => SchedInv'
        /\ UNCHANGED prune => PruneInv'
        /\ UNCHANGED issues => IssueInv'
        /\ UNCHANGED proxied => proxied'.answer \in {0, 200, 404, 409, 502}
    BY DEF SchedInv, PruneInv, IssueInv
  <1>1. CASE SchedNext
    BY <1>0, <1>1, SchedStep, ConsoleFrames DEF SchedOnly
  <1>2. CASE PruneNext
    BY <1>0, <1>2, PruneStep, ConsoleFrames DEF PruneOnly
  <1>3. CASE IssueNext
    BY <1>0, <1>3, IssueStep, ConsoleFrames DEF IssueOnly
  <1>4. CASE TermNext \/ ChatNext \/ ConfigNext \/ LoginNext
    BY <1>0, <1>4, ConsoleFrames DEF TermOnly, ChatOnly, ConfigOnly, LoginOnly
  <1>5. CASE ProxyNext
    <2>1. UNCHANGED <<sched, prune, issues>>
      BY <1>5, ConsoleFrames DEF ProxyOnly
    <2>2. proxied'.answer \in {0, 200, 404, 409, 502}
      <3>1. CASE findRun
        <4>1. \/ proxied' = [proxied EXCEPT !.request = "resolved", !.answer = 0]
              \/ \E a \in {404, 409} : proxied' = [proxied EXCEPT !.answer = a]
          BY <3>1 DEF findRun
        <4>2. CASE proxied' = [proxied EXCEPT !.request = "resolved", !.answer = 0]
          BY <4>2 DEF ProxyInv
        <4>3. CASE \E a \in {404, 409} : proxied' = [proxied EXCEPT !.answer = a]
          BY <4>3 DEF ProxyInv
        <4>4. QED
          BY <4>1, <4>2, <4>3
      <3>2. CASE loopFetch
        <4>1. proxied' = [proxied EXCEPT !.request = "none", !.answer = IF proxied.server THEN 200 ELSE 502]
          BY <3>2 DEF loopFetch
        <4>2. proxied'.answer = IF proxied.server THEN 200 ELSE 502
          BY <4>1 DEF ProxyInv
        <4>3. QED
          BY <4>1, <4>2
      <3>3. CASE RunStarts \/ RunIsDiscoverable \/ RunTombstones
        <4>1. \E file : proxied' = [proxied EXCEPT !.file = file]
          BY <3>3 DEF RunStarts, RunIsDiscoverable, RunTombstones
        <4>2. QED
          BY <4>1 DEF ProxyInv
      <3>4. CASE RunListens \/ RunStops
        <4>1. \E server : proxied' = [proxied EXCEPT !.server = server]
          BY <3>4 DEF RunListens, RunStops
        <4>2. QED
          BY <4>1 DEF ProxyInv
      <3>5. QED
        BY <1>5, <3>1, <3>2, <3>3, <3>4 DEF ProxyNext
    <2>3. QED
      BY <1>0, <2>1, <2>2
  <1>6. QED
    BY <1>1, <1>2, <1>3, <1>4, <1>5 DEF ConsoleNext

\* A flow is started before its cookie is set.
LEMMA FlowsStep ==
    ASSUME LoginInv, FlowIsStarted, ConsoleNext
    PROVE  FlowIsStarted'
  <1>1. CASE UNCHANGED login
    BY <1>1 DEF FlowIsStarted
  <1>a. login \in LoginType /\ login.flows \in Nat /\ login.pending \in Nat
    BY ConsoleAssumption DEF LoginInv, LoginType
  <1>b. ASSUME login'.flows = login.flows, login'.pending \in {0, login.pending}
        PROVE  FlowIsStarted'
    BY <1>a, <1>b DEF FlowIsStarted
  <1>2. CASE OidcStart
    <2>1. \/ \E d : login' = [login EXCEPT !.discovery = d]
          \/ \E d : login' = [login EXCEPT !.discovery = d, !.flows = @ + 1, !.pending = login.flows + 1,
                                           !.pendingEnds = FALSE]
      BY <1>2 DEF OidcStart
    <2>2. CASE \E d : login' = [login EXCEPT !.discovery = d]
      <3>1. login'.flows = login.flows /\ login'.pending = login.pending
        BY <1>a, <2>2 DEF LoginType
      <3>2. QED
        BY <1>b, <3>1
    <2>3. CASE \E d : login' = [login EXCEPT !.discovery = d, !.flows = @ + 1, !.pending = login.flows + 1,
                                             !.pendingEnds = FALSE]
      <3>1. login'.flows = login.flows + 1 /\ login'.pending = login.flows + 1
        BY <1>a, <2>3 DEF LoginType
      <3>2. QED
        BY <1>a, <3>1 DEF FlowIsStarted
    <2>4. QED
      BY <2>1, <2>2, <2>3
  <1>3. CASE PendingCookieExpires \/ SessionEnds
    <2>1. login'.flows = login.flows /\ login'.pending = login.pending
      BY <1>a, <1>3 DEF PendingCookieExpires, SessionEnds, LoginType
    <2>2. QED
      BY <1>b, <2>1
  <1>4. ASSUME NEW f \in 1..MaxFlows, OidcCallback(f) \/ ExchangeCode(f) \/ \E token \in IdTokens : VerifyAndMint(f, token)
        PROVE  FlowIsStarted'
    <2>1. CASE OidcCallback(f)
      <3>1. login'.flows = login.flows /\ login'.pending = login.pending
        BY <1>a, <2>1 DEF OidcCallback, LoginType
      <3>2. QED
        BY <1>b, <3>1
    <2>2. CASE ExchangeCode(f)
      <3>1. login'.flows = login.flows /\ login'.pending = login.pending
        BY <1>a, <2>2 DEF ExchangeCode, LoginType
      <3>2. QED
        BY <1>b, <3>1
    <2>3. CASE \E token \in IdTokens : VerifyAndMint(f, token)
      <3>1. login'.flows = login.flows /\ login'.pending \in {0, login.pending}
        BY <1>a, <2>3 DEF VerifyAndMint, LoginType
      <3>2. QED
        BY <1>b, <3>1
    <2>4. QED
      BY <1>4, <2>1, <2>2, <2>3
  <1>5. ASSUME NEW b \in Browsers, CooldownEnds(b) \/ \E right \in BOOLEAN : PasswordLogin(b, right)
        PROVE  FlowIsStarted'
    <2>1. login'.flows = login.flows /\ login'.pending = login.pending
      BY <1>a, <1>5 DEF CooldownEnds, PasswordLogin, LoginType
    <2>2. QED
      BY <1>b, <2>1
  <1>6. CASE LoginNext
    BY <1>2, <1>3, <1>4, <1>5, <1>6 DEF LoginNext
  <1>7. QED
    BY <1>1, <1>6, ConsoleFrames DEF ConsoleNext, ChatOnly, TermOnly, SchedOnly, PruneOnly, ProxyOnly, IssueOnly, ConfigOnly

\* What every step of the console keeps.
ConsoleInv ==
    /\ ChatInv /\ TermInv /\ ProxyInv /\ ConfigInv /\ LoginInv
    /\ TicketsNumbered /\ SmallerParts /\ FlowIsStarted

\* The first state.
LEMMA ConsoleStarts == ConsoleInit => ConsoleInv
  <1> SUFFICES ASSUME ConsoleInit PROVE ConsoleInv
    OBVIOUS
  <1>1. ChatInv
    BY DEF ConsoleInit, ChatInv, ChatType, FreshChat, AnsweredOnce
  <1>2. TermInv /\ ProxyInv
    BY DEF ConsoleInit, TermInv, TermType, NoTerm, ProxyInv, EndedMeansEnded
  <1>3. ConfigInv
    <2>1. PICK f \in Contents \cup {NoFile} :
             config = [file |-> f, base |-> [b \in Browsers |-> NoHash], shown |-> [b \in Browsers |-> NoFile],
                       save |-> NoSave, lost |-> FALSE, raced |-> FALSE]
      BY DEF ConsoleInit
    <2>2. NoSave \in [tab : SUBSET Browsers, seen : Contents \cup {NoFile}, text : Contents \cup {NoFile}]
      BY DEF NoSave
    <2>3. config \in [file : Contents \cup {NoFile}, base : [Browsers -> Contents \cup {NoHash}],
                      shown : [Browsers -> Contents \cup {NoFile}],
                      save : [tab : SUBSET Browsers, seen : Contents \cup {NoFile}, text : Contents \cup {NoFile}],
                      lost : BOOLEAN, raced : BOOLEAN]
      BY <2>1, <2>2
    <2>4. /\ \A b \in Browsers : config.base[b] = NoHash /\ config.shown[b] = NoFile
          /\ config.save = NoSave /\ ~config.lost
      BY <2>1
    <2>5. QED
      BY <2>3, <2>4 DEF ConfigInv, HashShown, EditsAreKept
  <1>4. LoginInv
    <2>1. PICK k \in {"basic", "oidc"} :
             login = [kind |-> k, discovery |-> "none", jwks |-> "none", flows |-> 0, pending |-> 0,
                      pendingEnds |-> FALSE, call |-> [f \in 1..MaxFlows |-> "none"],
                      session |-> NoLogin, earned |-> FALSE,
                      count |-> [b \in Browsers |-> [failures |-> 0, locked |-> FALSE]],
                      wrong |-> [b \in Browsers |-> 0]]
      BY DEF ConsoleInit
    <2>2. 0 \in 0..MaxFlows /\ NoLogin \in [kind : {"none", "basic", "oidc"}, flow : 0..MaxFlows]
      BY ConsoleAssumption DEF NoLogin
    <2>3. login \in LoginType /\ login.session = NoLogin
      BY <2>1, <2>2 DEF LoginType
    <2>4. \A b \in Browsers : login.count[b] = [failures |-> 0, locked |-> FALSE] /\ login.wrong[b] = 0
      BY <2>1
    <2>5. QED
      BY <2>3, <2>4, ConsoleAssumption DEF LoginInv
  <1>5. TicketsNumbered /\ SmallerParts /\ FlowIsStarted
    BY ConsoleAssumption DEF ConsoleInit, NoTerm, TicketsNumbered, SmallerParts, SchedInv, PruneInv, IssueInv,
                            FlowIsStarted
  <1>6. QED
    BY <1>1, <1>2, <1>3, <1>4, <1>5 DEF ConsoleInv

\* ConsoleInv is inductive: whichever part of the console moves, it keeps its own
\* promises and touches no other (the routes and handlers of console/backend).
THEOREM ConsoleStep == ConsoleInv /\ [ConsoleNext]_consoleVars => ConsoleInv'
  <1> SUFFICES ASSUME ConsoleInv, [ConsoleNext]_consoleVars PROVE ConsoleInv'
    OBVIOUS
  <1>1. CASE UNCHANGED consoleVars
    <2>1. ChatInv' /\ ConfigInv'
      BY <1>1 DEF consoleVars, ConsoleInv, ChatInv, ConfigInv, EditsAreKept
    <2>2. TermInv' /\ ProxyInv'
      BY <1>1 DEF consoleVars, ConsoleInv, TermInv, TermType, ProxyInv, EndedMeansEnded
    <2>3. LoginInv'
      BY <1>1 DEF consoleVars, ConsoleInv, LoginInv, LoginType
    <2>4. TicketsNumbered' /\ SmallerParts' /\ FlowIsStarted'
      BY <1>1 DEF consoleVars, ConsoleInv, TicketsNumbered, SmallerParts, SchedInv, PruneInv, IssueInv, FlowIsStarted
    <2>5. QED
      BY <2>1, <2>2, <2>3, <2>4 DEF ConsoleInv
  <1>2. CASE ConsoleNext
    BY <1>2, ChatStep, TermStep, ProxyStep, ConfigStep, LoginStep, TicketsStep, SmallerStep, FlowsStep DEF ConsoleInv
  <1>3. QED
    BY <1>1, <1>2

(* For any number of connections, calls, browsers, tickets, runs and writers:  *)
(* a tool call is answered once, and allowed only by the operator; at most one *)
(* browser holds the writer's ticket, and none writes after a browser that     *)
(* attached later has; one scheduled child lives at a time, and only what a    *)
(* preview showed is deleted; a run that has ended has no server left; a save  *)
(* loses no edit it could have seen; a session was earned by its own flow, and *)
(* no address is answered more wrong passwords than a lockout allows.          *)
(* (chat.ts, term.ts, sched.ts, app.ts, issues.ts, loop-proxy.ts, govern.ts,   *)
(* auth/.)                                                                     *)
THEOREM ConsoleIsSafe == ConsoleSpec => []ConsoleFailsClosed
  <1>1. ConsoleInv => ConsoleFailsClosed
    <2>1. LoginInv => LoginIsEarned
      BY ConsoleAssumption DEF LoginInv, LoginType, LoginIsEarned
    <2>2. ConsoleInv => ActsAreBacked
      BY DEF ConsoleInv, SmallerParts, SchedInv, PruneInv, IssueInv, ActsAreBacked
    <2>3. QED
      BY <2>1, <2>2, ChatsFailClosed, OneWriter DEF ConsoleInv, ConsoleFailsClosed, ProxyInv, ConfigInv
  <1>2. QED
    BY <1>1, ConsoleStarts, ConsoleStep, PTL DEF ConsoleSpec

\* The invariant gives the ranges of ConsoleTypeOK.
LEMMA ConsoleTypes == ConsoleInv => ConsoleTypeOK
  <1> SUFFICES ASSUME ConsoleInv PROVE ConsoleTypeOK
    OBVIOUS
  <1>1. \A c \in ChatConns :
            /\ chats[c].ws \in {"none", "ticketed", "expired", "open", "closing", "closed"}
            /\ chats[c].pending \cup chats[c].timers \subseteq ToolCalls
            /\ chats[c].verdict \in [ToolCalls -> {"unasked", "waiting", "allow", "deny"}]
    BY DEF ConsoleInv, ChatInv, ChatType
  <1>2. /\ term.issued \in 0..(MaxTickets + 1)
        /\ term.stale \subseteq term.valid /\ term.valid \subseteq 1..(MaxTickets + 1)
    <2>1. term.issued \in Nat /\ MaxTickets \in Nat
      BY ConsoleAssumption DEF ConsoleInv, TermInv, TermType
    <2>2. QED
      BY <2>1 DEF ConsoleInv, TicketsNumbered
  <1>3. /\ sched.child \in {"none", "running", "signalled"}
        /\ prune.old \cup prune.deleted \cup prune.shown \subseteq Transcripts
        /\ proxied.file \in {"no_run", "absent", "live", "tombstoned"}
        /\ proxied.answer \in {0, 200, 404, 409, 502}
        /\ issues.status \in {"none", "open", "converted", "rejected"}
    BY DEF ConsoleInv, SmallerParts, SchedInv, PruneInv, IssueInv, ProxyInv
  <1>4. {config.file} \cup {config.shown[b] : b \in Browsers} \subseteq Contents \cup {NoFile}
    BY DEF ConsoleInv, ConfigInv
  <1>5. login.pending \in 0..login.flows /\ login.flows \in 0..MaxFlows
    BY ConsoleAssumption DEF ConsoleInv, LoginInv, LoginType, FlowIsStarted
  <1>6. \A b \in Browsers : login.count[b].failures \in 0..maxAttempts
    <2>1. ASSUME NEW b \in Browsers PROVE login.count[b].failures \in 0..maxAttempts
      <3>1. /\ login.count[b].failures \in Nat /\ login.count[b].locked \in BOOLEAN /\ login.wrong[b] \in Nat
            /\ maxAttempts \in Nat
        BY ConsoleAssumption DEF ConsoleInv, LoginInv, LoginType
      <3>2. QED
        BY <3>1 DEF ConsoleInv, LoginInv
    <2>2. QED
      BY <2>1
  <1>7. QED
    BY <1>1, <1>2, <1>3, <1>4, <1>5, <1>6 DEF ConsoleTypeOK
-------------------------------------------------------------------------------
(* Task graph: the gate orders the tasks by Kahn's algorithm, and what is left *)
(* over is rejected.  The invariant is the usual one (KahnInv), with the closed *)
(* sets, those each of whose tasks waits for another of them, kept apart from  *)
(* what was ordered.  What is left over when the queue is done is closed itself, *)
(* so it is the largest such set (KahnEnds).  A run needs the converse: the    *)
(* tasks an accepted graph leaves unstarted would be closed (NothingWaits).    *)

\* The graph of the plan is a list of tasks with ids and lists of dependencies.
Listed(tasks) ==
    /\ Len(tasks) \in Nat /\ DOMAIN tasks = 1..Len(tasks)
    /\ \A i \in DOMAIN tasks : tasks[i].dependsOn \in Seq(STRING)

\* The dependencies of a task that are not ordered yet.
StillWaiting(tasks, id, ordered) == {k \in Resolvable(tasks, id) : DepsOf(tasks, id)[k] \notin ordered}

\* Each task of the set waits for another one of it.
IsClosed(tasks, S) == \A id \in S : \E k \in Resolvable(tasks, id) : DepsOf(tasks, id)[k] \in S

\* Kahn's algorithm while it runs.
KahnShape ==
    kahn = [queue |-> kahn.queue, at |-> kahn.at, indegree |-> kahn.indegree, ordered |-> kahn.ordered]
\* The algorithm while it runs: the in-degree of a task counts what it still waits for,
\* what waits for nothing is queued, and tasks that wait for each other are never ordered.
KahnInv(tasks) ==
    /\ KahnShape
    /\ kahn.ordered \subseteq KnownIds(tasks)
    /\ kahn.indegree = [id \in KnownIds(tasks) |-> Cardinality(StillWaiting(tasks, id, kahn.ordered))]
    /\ kahn.queue \in Seq(KnownIds(tasks)) /\ kahn.at \in 1..(Len(kahn.queue) + 1)
    /\ \A j \in 1..(kahn.at - 1) : kahn.queue[j] \in kahn.ordered
    /\ \A j \in DOMAIN kahn.queue : kahn.indegree[kahn.queue[j]] = 0
    /\ \A id \in KnownIds(tasks) : kahn.indegree[id] = 0 => \E j \in DOMAIN kahn.queue : kahn.queue[j] = id
    /\ \A S \in SUBSET KnownIds(tasks) : IsClosed(tasks, S) => S \cap kahn.ordered = {}

\* What an accepted graph is.
Accepted(tasks) ==
    /\ \A i, j \in DOMAIN tasks : tasks[i].id = tasks[j].id => i = j
    /\ \A i \in DOMAIN tasks : \A k \in DOMAIN tasks[i].dependsOn :
          tasks[i].dependsOn[k] # tasks[i].id /\ tasks[i].dependsOn[k] \in KnownIds(tasks)
    /\ plan.contract.criteria \subseteq Cited(tasks)

\* No task of the graph waits for ever.
Acyclic(tasks) == \A S \in SUBSET KnownIds(tasks) : IsClosed(tasks, S) => S = {}

\* The four fields of the plan.
PlanShape == plan = [pc |-> plan.pc, contract |-> plan.contract, graph |-> plan.graph, reasons |-> plan.reasons]

\* The gate while it orders.
OrderingInv ==
    /\ plan.graph.tasks \in Seq(ParsedTask) /\ "tasks" \in DOMAIN plan.graph
    /\ KahnInv(plan.graph.tasks)
    /\ plan.reasons = {} => Accepted(plan.graph.tasks)

\* What every step keeps.
PlanInv ==
    /\ PlanShape /\ plan.pc \in {"contract", "graph", "ordering", "rejected", "running", "ended"}
    /\ plan.pc \in {"contract", "graph"} => plan.graph \in ParsedGraphs
    /\ plan.pc = "ordering" => OrderingInv
    /\ plan.pc \in {"running", "ended"} =>
          Listed(plan.graph.tasks) /\ Accepted(plan.graph.tasks) /\ Acyclic(plan.graph.tasks)
    /\ plan.pc = "ended" => Eligible(plan.graph.tasks) = {}

\* Where the items of two sequences stand in their concatenation.
LEMMA JoinedSeqs ==
    ASSUME NEW S, NEW s \in Seq(S), NEW t \in Seq(S)
    PROVE  /\ t \in Seq(S) /\ s \o t \in Seq(S)
           /\ Len(s \o t) = Len(s) + Len(t)
           /\ DOMAIN (s \o t) = 1..(Len(s) + Len(t))
           /\ \A j \in DOMAIN s : j \in DOMAIN (s \o t) /\ (s \o t)[j] = s[j]
           /\ \A k \in DOMAIN t : Len(s) + k \in DOMAIN (s \o t) /\ (s \o t)[Len(s) + k] = t[k]
  <1>1. /\ Len(s) \in Nat /\ DOMAIN s = 1..Len(s)
        /\ Len(t) \in Nat /\ DOMAIN t = 1..Len(t)
    OBVIOUS
  <1>2. /\ s \o t \in Seq(S) /\ Len(s \o t) = Len(s) + Len(t)
        /\ \A i \in 1..(Len(s) + Len(t)) : (s \o t)[i] = IF i <= Len(s) THEN s[i] ELSE t[i - Len(s)]
    BY ConcatProperties
  <1>3. DOMAIN (s \o t) = 1..(Len(s) + Len(t))
    BY <1>2
  <1>4. \A j \in DOMAIN s : j \in DOMAIN (s \o t) /\ (s \o t)[j] = s[j]
    BY <1>1, <1>2, <1>3
  <1>5. ASSUME NEW k \in DOMAIN t
        PROVE  Len(s) + k \in DOMAIN (s \o t) /\ (s \o t)[Len(s) + k] = t[k]
    <2>1. k \in 1..Len(t) /\ Len(s) + k \in 1..(Len(s) + Len(t)) /\ ~(Len(s) + k <= Len(s))
          /\ (Len(s) + k) - Len(s) = k
      BY <1>1
    <2>2. QED
      BY <1>2, <1>3, <2>1
  <1>6. QED
    BY <1>2, <1>3, <1>4, <1>5

\* A finite set as a sequence has every element somewhere.
LEMMA SetAsSeq ==
    ASSUME NEW S, IsFiniteSet(S)
    PROVE  /\ SetToSeq(S) \in Seq(S)
           /\ \A x \in S : \E j \in DOMAIN SetToSeq(S) : SetToSeq(S)[j] = x
  <1> DEFINE n == Cardinality(S)
             s == SetToSeq(S)
  <1>1. n \in Nat /\ ExistsBijection(1..n, S)
    BY FS_CardinalityType
  <1>2. \E f \in [1..n -> S] : IsInjective(f)
    BY <1>1 DEF ExistsBijection, Bijection, Injection
  <1>3. s \in [1..n -> S] /\ IsInjective(s)
    BY <1>2 DEF SetToSeq
  <1>4. IsFiniteSet(1..n) /\ Cardinality(1..n) = n
    BY <1>1, FS_Interval
  <1> HIDE DEF n, s
  <1>5. s \in Surjection(1..n, S)
    <2>1. s \in Injection(1..n, S)
      BY <1>3 DEF Injection
    <2>2. Cardinality(1..n) = Cardinality(S)
      BY <1>4 DEF n
    <2>3. QED
      BY <2>1, <2>2, FS_Injection
  <1>6. \A x \in S : \E j \in 1..n : s[j] = x
    BY <1>5 DEF Surjection
  <1>7. DOMAIN s = 1..n /\ s \in Seq(S)
    BY <1>1, <1>3
  <1>8. QED
    BY <1>6, <1>7 DEF s

\* What a list of tasks has.
LEMMA ListFacts ==
    ASSUME NEW CONSTANT tasks, Listed(tasks)
    PROVE  /\ IsFiniteSet(DOMAIN tasks) /\ IsFiniteSet(KnownIds(tasks))
           /\ \A id \in KnownIds(tasks) : \E i \in DOMAIN tasks : tasks[i].id = id /\ DeclaredLast(tasks, id) = tasks[i]
           /\ \A id \in KnownIds(tasks) : /\ Resolvable(tasks, id) \subseteq Nat
                                          /\ IsFiniteSet(Resolvable(tasks, id))
  <1>1. Len(tasks) \in Nat /\ DOMAIN tasks = 1..Len(tasks)
    BY DEF Listed
  <1>2. IsFiniteSet(DOMAIN tasks)
    BY <1>1, FS_Interval
  <1>3. IsFiniteSet(KnownIds(tasks))
    <2> DEFINE ids == [i \in DOMAIN tasks |-> tasks[i].id]
    <2>1. ids \in Surjection(DOMAIN tasks, KnownIds(tasks))
      BY DEF Surjection, KnownIds
    <2>2. QED
      BY <1>2, <2>1, FS_Surjection
  <1>4. ASSUME NEW id \in KnownIds(tasks)
        PROVE  \E i \in DOMAIN tasks : tasks[i].id = id /\ DeclaredLast(tasks, id) = tasks[i]
    <2> DEFINE S == {i \in DOMAIN tasks : tasks[i].id = id}
    <2>1. S # {} /\ S \in SUBSET (1..Len(tasks))
      BY <1>1 DEF KnownIds
    <2>2. \E x \in S : \A y \in S : y <= x
      BY <1>1, <2>1, HasLast
    <2>3. \E i \in DOMAIN tasks : tasks[i].id = id /\ \A j \in DOMAIN tasks : tasks[j].id = id => j <= i
      BY <2>2
    <2>4. QED
      BY <2>3 DEF DeclaredLast
  <1>5. ASSUME NEW id \in KnownIds(tasks)
        PROVE  Resolvable(tasks, id) \subseteq Nat /\ IsFiniteSet(Resolvable(tasks, id))
    <2>1. DepsOf(tasks, id) \in Seq(STRING)
      BY <1>4 DEF DepsOf, Listed
    <2>2. DOMAIN DepsOf(tasks, id) = 1..Len(DepsOf(tasks, id)) /\ Len(DepsOf(tasks, id)) \in Nat
      BY <2>1
    <2>3. IsFiniteSet(1..Len(DepsOf(tasks, id)))
      BY <2>2, FS_Interval
    <2>4. Resolvable(tasks, id) \in SUBSET (1..Len(DepsOf(tasks, id)))
      BY <2>2 DEF Resolvable
    <2>5. QED
      BY <2>2, <2>3, <2>4, FS_Subset
  <1>6. QED
    BY <1>2, <1>3, <1>4, <1>5

\* How many dependencies wait.
LEMMA StillWaitingCounts ==
    ASSUME NEW CONSTANT tasks, Listed(tasks), NEW CONSTANT id \in KnownIds(tasks), NEW CONSTANT ordered
    PROVE  /\ IsFiniteSet(StillWaiting(tasks, id, ordered)) /\ Cardinality(StillWaiting(tasks, id, ordered)) \in Nat
           /\ Cardinality(StillWaiting(tasks, id, ordered)) = 0 <=> StillWaiting(tasks, id, ordered) = {}
           /\ \A next : next \notin ordered =>
                 /\ Edges(tasks, id, next) \in Nat
                 /\ Cardinality(StillWaiting(tasks, id, ordered \cup {next})) =
                        Cardinality(StillWaiting(tasks, id, ordered)) - Edges(tasks, id, next)
  <1>1. IsFiniteSet(Resolvable(tasks, id))
    BY ListFacts
  <1>2. ASSUME NEW T \in SUBSET Resolvable(tasks, id)
        PROVE  IsFiniteSet(T) /\ Cardinality(T) \in Nat /\ (Cardinality(T) = 0 <=> T = {})
    BY <1>1, FS_Subset, FS_CardinalityType, FS_EmptySet
  <1>3. ASSUME NEW next, next \notin ordered
        PROVE  /\ Edges(tasks, id, next) \in Nat
               /\ Cardinality(StillWaiting(tasks, id, ordered \cup {next})) =
                      Cardinality(StillWaiting(tasks, id, ordered)) - Edges(tasks, id, next)
    <2> DEFINE E == {k \in Resolvable(tasks, id) : DepsOf(tasks, id)[k] = next}
               W == StillWaiting(tasks, id, ordered)
    <2>1. StillWaiting(tasks, id, ordered \cup {next}) = W \ E
      BY DEF StillWaiting
    <2>2. W \cap E = E
      BY <1>3 DEF StillWaiting
    <2>3. W \in SUBSET Resolvable(tasks, id) /\ E \in SUBSET Resolvable(tasks, id)
      BY DEF StillWaiting
    <2>4. IsFiniteSet(W) /\ Cardinality(E) \in Nat
      BY <1>2, <2>3
    <2> HIDE DEF E, W
    <2>5. Cardinality(W \ E) = Cardinality(W) - Cardinality(W \cap E)
      BY <2>4, FS_Difference
    <2>6. Edges(tasks, id, next) = Cardinality(E)
      BY DEF Edges, E
    <2>7. QED
      BY <2>1, <2>2, <2>4, <2>5, <2>6 DEF W
  <1>4. StillWaiting(tasks, id, ordered) \in SUBSET Resolvable(tasks, id)
    BY DEF StillWaiting
  <1>5. QED
    BY <1>2, <1>3, <1>4

\* The algorithm starts with what waits for nothing.
LEMMA KahnStarts ==
    ASSUME NEW CONSTANT tasks, Listed(tasks), kahn' = Unstarted(tasks)
    PROVE  KahnInv(tasks)'
  <1> DEFINE Ids == KnownIds(tasks)
             degree == [id \in Ids |-> Cardinality(Resolvable(tasks, id))]
             places == {i \in DOMAIN tasks : degree[tasks[i].id] = 0}
             free == SetToSeq(places)
             queue == [j \in DOMAIN free |-> tasks[free[j]].id]
  <1>1. kahn' = [queue |-> queue, at |-> 1, indegree |-> degree, ordered |-> {}]
    BY DEF Unstarted
  <1>2. /\ \A id \in Ids : StillWaiting(tasks, id, {}) = Resolvable(tasks, id)
        /\ \A i \in DOMAIN tasks : tasks[i].id \in Ids
        /\ \A id \in Ids : \E i \in DOMAIN tasks : tasks[i].id = id
    BY DEF StillWaiting, KnownIds
  <1>3. degree = [id \in Ids |-> Cardinality(StillWaiting(tasks, id, {}))]
    BY <1>2
  <1> HIDE DEF degree
  <1>4. IsFiniteSet(places)
    BY ListFacts, FS_Subset
  <1>5. /\ free \in Seq(places)
        /\ \A x \in places : \E j \in DOMAIN free : free[j] = x
    BY <1>4, SetAsSeq
  <1>6. places \subseteq DOMAIN tasks /\ \A i \in places : degree[tasks[i].id] = 0
    OBVIOUS
  <1>7. \A id \in Ids : degree[id] = 0 => \E i \in places : tasks[i].id = id
    BY <1>2
  <1> HIDE DEF free, places, Ids
  <1>8. /\ DOMAIN free = 1..Len(free) /\ Len(free) \in Nat /\ \A j \in DOMAIN free : free[j] \in places
    BY <1>5
  <1>9. /\ DOMAIN queue = DOMAIN free /\ queue \in Seq(Ids) /\ Len(queue) = Len(free)
        /\ \A j \in DOMAIN free : queue[j] = tasks[free[j]].id
    BY <1>2, <1>6, <1>8
  <1> HIDE DEF queue
  <1>10. /\ \A j \in DOMAIN queue : degree[queue[j]] = 0
         /\ \A id \in Ids : degree[id] = 0 => \E j \in DOMAIN queue : queue[j] = id
    BY <1>5, <1>6, <1>7, <1>8, <1>9
  <1>11. kahn'.queue = queue /\ kahn'.at = 1 /\ kahn'.indegree = degree /\ kahn'.ordered = {}
    BY <1>1
  <1>12. kahn'.at \in 1..(Len(kahn'.queue) + 1) /\ kahn'.queue \in Seq(KnownIds(tasks)) /\ 1..(kahn'.at - 1) = {}
    BY <1>8, <1>9, <1>11 DEF Ids
  <1>13. KahnShape'
    BY <1>1 DEF KahnShape
  <1>14. QED
    BY <1>3, <1>10, <1>11, <1>12, <1>13 DEF KahnInv, Ids

\* A turn of the loop orders a task all of whose dependencies are ordered.
LEMMA KahnTurns ==
    ASSUME NEW CONSTANT tasks, Listed(tasks), KahnInv(tasks), plan.graph.tasks = tasks, OrderNext
    PROVE  KahnInv(tasks)'
  <1> DEFINE Ids == KnownIds(tasks)
             id == kahn.queue[kahn.at]
             left == [n \in DOMAIN kahn.indegree |-> kahn.indegree[n] - Edges(tasks, n, id)]
             ready == {n \in DOMAIN left : left[n] = 0 /\ kahn.indegree[n] > 0}
             news == SetToSeq(ready)
  <1>1. /\ kahn.at <= Len(kahn.queue)
        /\ kahn' = IF id \in kahn.ordered THEN [kahn EXCEPT !.at = @ + 1]
                   ELSE [queue |-> kahn.queue \o news, at |-> kahn.at + 1, indegree |-> left,
                         ordered |-> kahn.ordered \cup {id}]
    BY DEF OrderNext
  <1>2. /\ kahn.queue \in Seq(Ids) /\ kahn.at \in 1..(Len(kahn.queue) + 1) /\ kahn.ordered \subseteq Ids
        /\ Len(kahn.queue) \in Nat /\ DOMAIN kahn.queue = 1..Len(kahn.queue)
        /\ DOMAIN kahn.indegree = Ids
        /\ \A n \in Ids : kahn.indegree[n] = Cardinality(StillWaiting(tasks, n, kahn.ordered))
        /\ \A j \in 1..(kahn.at - 1) : kahn.queue[j] \in kahn.ordered
        /\ \A j \in DOMAIN kahn.queue : kahn.indegree[kahn.queue[j]] = 0
        /\ \A n \in Ids : kahn.indegree[n] = 0 => \E j \in DOMAIN kahn.queue : kahn.queue[j] = n
        /\ \A S \in SUBSET Ids : IsClosed(tasks, S) => S \cap kahn.ordered = {}
    BY DEF KahnInv
  <1>3. kahn.at \in DOMAIN kahn.queue /\ id \in Ids /\ kahn.indegree[id] = 0
    BY <1>1, <1>2
  <1>a. \A j \in 1..kahn.at : j \in 1..(kahn.at - 1) \/ j = kahn.at
    BY <1>2
  <1>4. CASE id \in kahn.ordered
    <2>1. kahn' = [kahn EXCEPT !.at = @ + 1]
      BY <1>1, <1>4
    <2> HIDE DEF id
    <2>2. kahn = [queue |-> kahn.queue, at |-> kahn.at, indegree |-> kahn.indegree, ordered |-> kahn.ordered]
      BY DEF KahnInv, KahnShape
    <2>3. QED
      <3>1. /\ kahn'.queue = kahn.queue /\ kahn'.at = kahn.at + 1
            /\ kahn'.indegree = kahn.indegree /\ kahn'.ordered = kahn.ordered
        BY <2>1, <2>2
      <3>2. kahn'.at \in 1..(Len(kahn.queue) + 1) /\ kahn'.at - 1 = kahn.at
        BY <1>1, <1>2, <3>1
      <3>3. \A j \in 1..kahn.at : kahn.queue[j] \in kahn.ordered
        BY <1>2, <1>4, <1>a DEF id
      <3>4. KahnShape'
        BY <2>1, <2>2 DEF KahnShape
      <3>5. QED
        BY <3>1, <3>2, <3>3, <3>4 DEF KahnInv
  <1>5. CASE id \notin kahn.ordered
    <2>1. /\ kahn'.queue = kahn.queue \o news /\ kahn'.at = kahn.at + 1 /\ kahn'.indegree = left
          /\ kahn'.ordered = kahn.ordered \cup {id}
      BY <1>1, <1>5
    <2>2. \A n \in Ids : /\ left[n] = Cardinality(StillWaiting(tasks, n, kahn.ordered \cup {id}))
                         /\ left[n] = kahn.indegree[n] - Edges(tasks, n, id)
                         /\ left[n] \in Nat /\ kahn.indegree[n] \in Nat /\ Edges(tasks, n, id) \in Nat
      <3> TAKE n \in Ids
      <3>1. /\ Edges(tasks, n, id) \in Nat
            /\ Cardinality(StillWaiting(tasks, n, kahn.ordered \cup {id})) =
                   Cardinality(StillWaiting(tasks, n, kahn.ordered)) - Edges(tasks, n, id)
            /\ Cardinality(StillWaiting(tasks, n, kahn.ordered)) \in Nat
            /\ Cardinality(StillWaiting(tasks, n, kahn.ordered \cup {id})) \in Nat
        BY <1>5, StillWaitingCounts
      <3>2. left[n] = kahn.indegree[n] - Edges(tasks, n, id)
        BY <1>2
      <3>3. QED
        BY <1>2, <3>1, <3>2
    <2>3. IsFiniteSet(Ids) /\ ready \in SUBSET Ids
      BY <1>2, ListFacts
    <2>4. /\ news \in Seq(ready) /\ \A x \in ready : \E j \in DOMAIN news : news[j] = x
      BY <2>3, FS_Subset, SetAsSeq
    <2>5. \A n \in ready : left[n] = 0
      OBVIOUS
    <2>6. \A n \in Ids : left[n] = 0 /\ kahn.indegree[n] # 0 => n \in ready
      BY <1>2, <2>2
    <2>7. DOMAIN left = Ids /\ left = [n \in Ids |-> Cardinality(StillWaiting(tasks, n, kahn.ordered \cup {id}))]
      BY <1>2, <2>2
    <2>8. kahn.indegree[id] = 0 => StillWaiting(tasks, id, kahn.ordered) = {}
      BY <1>2, <1>3, StillWaitingCounts
    <2>9. \A k \in Resolvable(tasks, id) : DepsOf(tasks, id)[k] \in kahn.ordered
      BY <1>3, <2>8 DEF StillWaiting
    <2> HIDE DEF left, ready, news, Ids
    <2>10. ASSUME NEW S \in SUBSET Ids, IsClosed(tasks, S) PROVE S \cap (kahn.ordered \cup {id}) = {}
      <3>1. S \cap kahn.ordered = {}
        BY <1>2, <2>10
      <3>2. id \notin S
        BY <2>9, <2>10, <3>1 DEF IsClosed
      <3>3. QED
        BY <3>1, <3>2
    <2> HIDE DEF id
    <2>11. /\ DOMAIN news = 1..Len(news) /\ Len(news) \in Nat /\ \A j \in DOMAIN news : news[j] \in ready
      BY <2>4
    <2>12. /\ news \in Seq(Ids) /\ kahn'.queue \in Seq(Ids)
           /\ Len(kahn'.queue) = Len(kahn.queue) + Len(news)
           /\ DOMAIN kahn'.queue = 1..(Len(kahn.queue) + Len(news))
           /\ \A j \in DOMAIN kahn.queue : j \in DOMAIN kahn'.queue /\ kahn'.queue[j] = kahn.queue[j]
           /\ \A k \in DOMAIN news : Len(kahn.queue) + k \in DOMAIN kahn'.queue
                                     /\ kahn'.queue[Len(kahn.queue) + k] = news[k]
      <3>1. news \in Seq(Ids)
        BY <2>3, <2>4
      <3>2. kahn.queue \in Seq(Ids) /\ kahn'.queue = kahn.queue \o news
        BY <1>2, <2>1
      <3>3. QED
        BY <3>1, <3>2, JoinedSeqs
    <2>13. \A j \in DOMAIN kahn'.queue : \/ j \in DOMAIN kahn.queue
                                         \/ \E k \in DOMAIN news : kahn'.queue[j] = news[k]
      <3> TAKE j \in DOMAIN kahn'.queue
      <3>1. CASE j > Len(kahn.queue)
        <4>1. j - Len(kahn.queue) \in DOMAIN news /\ Len(kahn.queue) + (j - Len(kahn.queue)) = j
          BY <1>2, <2>11, <2>12, <3>1
        <4>2. QED
          BY <2>12, <4>1
      <3>2. QED
        BY <1>2, <2>11, <2>12, <3>1
    <2>14. kahn'.at \in 1..(Len(kahn'.queue) + 1) /\ kahn'.at - 1 = kahn.at
      BY <1>1, <1>2, <2>1, <2>11, <2>12
    <2>15. \A j \in 1..kahn.at : kahn'.queue[j] \in kahn.ordered \cup {id}
      <3> TAKE j \in 1..kahn.at
      <3>1. j \in DOMAIN kahn.queue /\ kahn'.queue[j] = kahn.queue[j]
        BY <1>1, <1>2, <2>12
      <3>2. kahn.queue[j] \in kahn.ordered \/ kahn.queue[j] = id
        BY <1>2, <1>a DEF id
      <3>3. QED
        BY <3>1, <3>2
    <2>16. \A n \in Ids : kahn.indegree[n] = 0 => left[n] = 0
      BY <2>2
    <2>17. \A j \in DOMAIN kahn'.queue : left[kahn'.queue[j]] = 0
      <3> TAKE j \in DOMAIN kahn'.queue
      <3>1. CASE j \in DOMAIN kahn.queue
        BY <1>2, <2>12, <2>16, <3>1
      <3>2. CASE \E k \in DOMAIN news : kahn'.queue[j] = news[k]
        BY <2>5, <2>11, <3>2
      <3>3. QED
        BY <2>13, <3>1, <3>2
    <2>18. \A n \in Ids : left[n] = 0 => \E j \in DOMAIN kahn'.queue : kahn'.queue[j] = n
      <3> TAKE n \in Ids
      <3>1. CASE kahn.indegree[n] = 0
        BY <1>2, <2>12, <3>1
      <3>2. CASE n \in ready
        BY <2>4, <2>12, <3>2
      <3>3. QED
        BY <2>6, <3>1, <3>2
    <2>19. kahn.ordered \cup {id} \subseteq Ids
      BY <1>2, <1>3 DEF Ids
    <2>20. KahnShape'
      BY <1>1, <1>5 DEF KahnShape
    <2>21. kahn'.indegree = [n \in Ids |-> Cardinality(StillWaiting(tasks, n, kahn'.ordered))]
      BY <2>1, <2>7
    <2>22. \A S \in SUBSET Ids : IsClosed(tasks, S) => S \cap kahn'.ordered = {}
      BY <2>1, <2>10
    <2>23. /\ \A j \in 1..(kahn'.at - 1) : kahn'.queue[j] \in kahn'.ordered
           /\ \A j \in DOMAIN kahn'.queue : kahn'.indegree[kahn'.queue[j]] = 0
           /\ \A n \in Ids : kahn'.indegree[n] = 0 => \E j \in DOMAIN kahn'.queue : kahn'.queue[j] = n
           /\ kahn'.ordered \subseteq Ids
      BY <2>1, <2>14, <2>15, <2>17, <2>18, <2>19
    <2>24. QED
      BY <2>12, <2>14, <2>20, <2>21, <2>22, <2>23 DEF KahnInv, Ids
  <1>6. QED
    BY <1>4, <1>5

\* What is left over when the queue is done is the largest set of tasks that wait for each other.
LEMMA KahnEnds ==
    ASSUME NEW CONSTANT tasks, Listed(tasks), KahnInv(tasks), kahn.at > Len(kahn.queue)
    PROVE  /\ KnownIds(tasks) \ kahn.ordered = CycleBound(tasks)
           /\ KnownIds(tasks) \ kahn.ordered = {} => Acyclic(tasks)
  <1> DEFINE Ids == KnownIds(tasks)
             rest == Ids \ kahn.ordered
  <1>1. /\ kahn.queue \in Seq(Ids) /\ kahn.at \in 1..(Len(kahn.queue) + 1) /\ kahn.ordered \subseteq Ids
        /\ Len(kahn.queue) \in Nat /\ DOMAIN kahn.queue = 1..Len(kahn.queue)
        /\ \A n \in Ids : kahn.indegree[n] = Cardinality(StillWaiting(tasks, n, kahn.ordered))
        /\ \A j \in 1..(kahn.at - 1) : kahn.queue[j] \in kahn.ordered
        /\ \A n \in Ids : kahn.indegree[n] = 0 => \E j \in DOMAIN kahn.queue : kahn.queue[j] = n
        /\ \A S \in SUBSET Ids : IsClosed(tasks, S) => S \cap kahn.ordered = {}
    BY DEF KahnInv
  <1>2. \A j \in DOMAIN kahn.queue : kahn.queue[j] \in kahn.ordered
    BY <1>1
  <1>3. IsClosed(tasks, rest)
    <2> SUFFICES ASSUME NEW n \in rest PROVE \E k \in Resolvable(tasks, n) : DepsOf(tasks, n)[k] \in rest
      BY DEF IsClosed
    <2>1. kahn.indegree[n] # 0
      BY <1>1, <1>2
    <2>2. StillWaiting(tasks, n, kahn.ordered) # {}
      BY <1>1, <2>1, StillWaitingCounts
    <2>3. QED
      BY <2>2 DEF StillWaiting, Resolvable
  <1>4. \A S \in SUBSET Ids : IsClosed(tasks, S) => S \subseteq rest
    BY <1>1
  <1>5. CycleBound(tasks) = UNION {S \in SUBSET Ids : IsClosed(tasks, S)}
    BY DEF CycleBound, IsClosed
  <1>6. QED
    BY <1>3, <1>4, <1>5 DEF Acyclic

\* A gate without reasons has checked what a run relies on.
LEMMA GateAccepts ==
    ASSUME NEW tasks, NEW g, GateReasons(tasks, g, plan.contract) = {}
    PROVE  Accepted(tasks)
  <1>1. \A i, j \in DOMAIN tasks : tasks[i].id = tasks[j].id => i = j
    BY DEF GateReasons, ReasonIf, NamesItself, NamesNone
  <1>2. plan.contract.criteria \subseteq Cited(tasks)
    BY DEF GateReasons, ReasonIf, NamesItself, NamesNone
  <1>3. \A i \in DOMAIN tasks : \A k \in DOMAIN tasks[i].dependsOn : tasks[i].dependsOn[k] # tasks[i].id
    BY DEF GateReasons, ReasonIf, NamesItself, NamesNone
  <1>4. \A i \in DOMAIN tasks : \A k \in DOMAIN tasks[i].dependsOn : tasks[i].dependsOn[k] \in KnownIds(tasks)
    BY DEF GateReasons, ReasonIf, NamesItself, NamesNone
  <1>5. QED
    BY <1>1, <1>2, <1>3, <1>4 DEF Accepted

\* An accepted graph has one task of each id.
LEMMA TaskOfItsId ==
    ASSUME NEW CONSTANT tasks, Listed(tasks), \A i, j \in DOMAIN tasks : tasks[i].id = tasks[j].id => i = j
    PROVE  \A i \in DOMAIN tasks : tasks[i].id \in KnownIds(tasks) /\ DepsOf(tasks, tasks[i].id) = tasks[i].dependsOn
  <1> TAKE i \in DOMAIN tasks
  <1>1. tasks[i].id \in KnownIds(tasks)
    BY DEF KnownIds
  <1>2. PICK j \in DOMAIN tasks : tasks[j].id = tasks[i].id /\ DeclaredLast(tasks, tasks[i].id) = tasks[j]
    BY <1>1, ListFacts
  <1>3. QED
    BY <1>1, <1>2 DEF DepsOf

\* Freezing changes no edge.
LEMMA FreezingKeepsEdges ==
    ASSUME NEW CONSTANT tasks, NEW CONSTANT frozen, Listed(tasks), Accepted(tasks), Acyclic(tasks),
           DOMAIN frozen = DOMAIN tasks, Len(frozen) = Len(tasks),
           \A i \in DOMAIN tasks : /\ frozen[i].id = tasks[i].id /\ frozen[i].dependsOn = tasks[i].dependsOn
                                   /\ frozen[i].satisfies = tasks[i].satisfies
    PROVE  Listed(frozen) /\ Accepted(frozen) /\ Acyclic(frozen)
  <1>1. Listed(frozen)
    BY DEF Listed
  <1>2. KnownIds(frozen) = KnownIds(tasks) /\ Cited(frozen) = Cited(tasks)
    BY DEF KnownIds, Cited
  <1>3. Accepted(frozen)
    BY <1>2 DEF Accepted
  <1>4. \A id \in KnownIds(tasks) : DepsOf(frozen, id) = DepsOf(tasks, id)
    <2>1. \A i \in DOMAIN tasks : DepsOf(frozen, tasks[i].id) = DepsOf(tasks, tasks[i].id)
      BY <1>1, <1>3, TaskOfItsId DEF Accepted
    <2>2. QED
      BY <2>1 DEF KnownIds
  <1>5. \A id \in KnownIds(tasks) : Resolvable(frozen, id) = Resolvable(tasks, id)
    BY <1>2, <1>4 DEF Resolvable
  <1>6. \A S \in SUBSET KnownIds(tasks) : IsClosed(frozen, S) => IsClosed(tasks, S)
    BY <1>4, <1>5 DEF IsClosed
  <1>7. QED
    BY <1>1, <1>2, <1>3, <1>6 DEF Acyclic

\* A list of parsed tasks is a list.
LEMMA ParsedIsListed ==
    ASSUME NEW tasks \in Seq(ParsedTask)
    PROVE  Listed(tasks) /\ \A i \in DOMAIN tasks : tasks[i] \in ParsedTask
  <1>1. /\ Len(tasks) \in Nat /\ DOMAIN tasks = 1..Len(tasks)
        /\ \A i \in DOMAIN tasks : tasks[i] \in ParsedTask
    OBVIOUS
  <1>2. \A t \in ParsedTask : t.dependsOn \in Seq(STRING)
    BY DEF ParsedTask
  <1>3. QED
    BY <1>1, <1>2 DEF Listed

\* The algorithm's invariant is about the graph only.
LEMMA SameGraph ==
    ASSUME NEW CONSTANT tasks, KahnInv(tasks)', plan'.graph.tasks = tasks
    PROVE  KahnInv(plan.graph.tasks)'
  BY DEF KahnInv

\* Before the gate nothing is known.
LEMMA StartsEmpty == PlanInit => PlanInv
  BY DEF PlanInit, PlanInv, PlanShape

\* The contract and the checks of the gate: no reasons, an acceptable graph.
LEMMA FreezingKeepsInv ==
    ASSUME PlanInv, freezeContract \/ freezeTaskGraph
    PROVE  PlanInv'
  <1>1. CASE freezeContract
    <2>1. plan' = [plan EXCEPT !.pc = plan'.pc, !.contract = plan'.contract] /\ plan'.pc \in {"graph", "rejected"}
          /\ plan.pc = "contract"
      BY <1>1 DEF freezeContract, PlanInv, PlanShape
    <2>2. PlanShape' /\ plan'.graph = plan.graph
      BY <2>1 DEF PlanInv, PlanShape
    <2>3. QED
      BY <2>1, <2>2 DEF PlanInv
  <1>2. CASE freezeTaskGraph
    <2>1. PICK tasks : tasks = plan.graph.tasks
      OBVIOUS
    <2>2. plan.pc = "graph" /\ plan.graph \in ParsedGraphs
      BY <1>2 DEF freezeTaskGraph, PlanInv
    <2>3. CASE ~declaredGraph(plan.graph)
      <3>1. plan' = [plan EXCEPT !.pc = "rejected"]
        BY <1>2, <2>3 DEF freezeTaskGraph
      <3>2. PlanShape' /\ plan'.pc = "rejected"
        BY <3>1 DEF PlanInv, PlanShape
      <3>3. QED
        BY <3>2 DEF PlanInv
    <2>4. CASE declaredGraph(plan.graph)
      <3>1. /\ plan' = [plan EXCEPT !.pc = "ordering", !.reasons = GateReasons(tasks, plan.graph, plan.contract)]
            /\ kahn' = Unstarted(tasks)
        BY <1>2, <2>1, <2>4 DEF freezeTaskGraph
      <3>2. /\ PlanShape' /\ plan'.pc = "ordering" /\ plan'.graph = plan.graph /\ plan'.contract = plan.contract
            /\ plan'.reasons = GateReasons(tasks, plan.graph, plan.contract)
        BY <3>1 DEF PlanInv, PlanShape
      <3>3. tasks \in Seq(ParsedTask) /\ "tasks" \in DOMAIN plan.graph
        BY <2>1, <2>2, <2>4, TaskGraphAssumption DEF declaredGraph
      <3>4. KahnInv(tasks)'
        BY <3>1, <3>3, KahnStarts, ParsedIsListed
      <3>5. KahnInv(plan.graph.tasks)'
        BY <2>1, <3>2, <3>4, SameGraph
      <3>6. GateReasons(tasks, plan.graph, plan.contract) = {} => Accepted(tasks)
        BY GateAccepts
      <3>7. (plan.reasons = {} => Accepted(plan.graph.tasks))'
        BY <2>1, <3>2, <3>6 DEF Accepted
      <3>8. OrderingInv'
        BY <2>1, <3>2, <3>3, <3>5, <3>7 DEF OrderingInv
      <3>9. QED
        BY <3>2, <3>8 DEF PlanInv
    <2>5. QED
      BY <2>3, <2>4
  <1>3. QED
    BY <1>1, <1>2

\* A turn of the loop changes neither graph nor reasons.
LEMMA OrderingKeepsInv ==
    ASSUME PlanInv, OrderNext
    PROVE  PlanInv'
  <1>1. PICK tasks : tasks = plan.graph.tasks
    OBVIOUS
  <1>2. plan.pc = "ordering" /\ plan' = plan /\ OrderingInv
    BY DEF OrderNext, PlanInv
  <1>3. KahnInv(tasks) /\ Listed(tasks)
    BY <1>1, <1>2, ParsedIsListed DEF OrderingInv
  <1>4. KahnInv(tasks)'
    BY <1>1, <1>3, KahnTurns
  <1>5. KahnInv(plan.graph.tasks)'
    BY <1>1, <1>2, <1>4, SameGraph
  <1>6. OrderingInv'
    BY <1>2, <1>5 DEF OrderingInv, Accepted
  <1>7. QED
    BY <1>2, <1>6 DEF PlanInv, PlanShape

\* A graph that is frozen leaves nothing over, and freezing changes no edge.
LEMMA ClosingKeepsInv ==
    ASSUME PlanInv, CloseGate
    PROVE  PlanInv'
  <1>1. PICK tasks : tasks = plan.graph.tasks
    OBVIOUS
  <1>2. plan.pc = "ordering" /\ OrderingInv /\ kahn.at > Len(kahn.queue)
    BY DEF CloseGate, PlanInv
  <1>3. KahnInv(tasks) /\ Listed(tasks) /\ \A i \in DOMAIN tasks : tasks[i] \in ParsedTask
    BY <1>1, <1>2, ParsedIsListed DEF OrderingInv
  <1>4. CASE plan'.pc = "rejected"
    <2>1. PlanShape'
      BY <1>4 DEF CloseGate, PlanInv, PlanShape
    <2>2. QED
      BY <1>4, <2>1 DEF PlanInv
  <1>5. CASE plan'.pc # "rejected"
    <2> DEFINE reasons == plan.reasons \cup (IF unorderableTaskIds = {} THEN {} ELSE {"cycle"})
               frozen == [i \in DOMAIN tasks |-> FrozenTask(tasks[i], plan.graph, plan.contract)]
    <2>1. plan' = IF reasons # {} THEN [plan EXCEPT !.pc = "rejected", !.reasons = reasons]
                  ELSE [plan EXCEPT !.pc = "running", !.graph.tasks = frozen]
      BY <1>1 DEF CloseGate
    <2>2. PlanShape
      BY DEF PlanInv
    <2> HIDE DEF reasons, frozen
    <2>3. reasons = {} /\ plan' = [plan EXCEPT !.pc = "running", !.graph.tasks = frozen]
      BY <1>5, <2>1, <2>2 DEF PlanShape
    <2>4. PlanShape' /\ plan'.pc = "running" /\ plan'.contract = plan.contract /\ plan'.graph.tasks = frozen
      BY <1>2, <2>2, <2>3 DEF PlanShape, OrderingInv
    <2>5. plan.reasons = {} /\ unorderableTaskIds = {}
      BY <2>3 DEF reasons
    <2>6. Accepted(tasks) /\ KnownIds(tasks) \ kahn.ordered = {}
      BY <1>1, <1>2, <2>5 DEF OrderingInv, unorderableTaskIds
    <2>7. Acyclic(tasks)
      BY <1>2, <1>3, <2>6, KahnEnds
    <2>8. /\ DOMAIN frozen = DOMAIN tasks /\ Len(frozen) = Len(tasks)
          /\ \A i \in DOMAIN tasks : /\ frozen[i].id = tasks[i].id /\ frozen[i].dependsOn = tasks[i].dependsOn
                                     /\ frozen[i].satisfies = tasks[i].satisfies
      <3>1. \A x \in ParsedTask : \A g, c :
               /\ FrozenTask(x, g, c).id = x.id
               /\ FrozenTask(x, g, c).dependsOn = x.dependsOn
               /\ FrozenTask(x, g, c).satisfies = x.satisfies
        BY DEF FrozenTask, ParsedTask
      <3>2. DOMAIN tasks = 1..Len(tasks) /\ Len(tasks) \in Nat
        BY <1>3 DEF Listed
      <3>3. QED
        BY <1>3, <3>1, <3>2 DEF frozen
    <2>9. Listed(frozen) /\ Accepted(frozen) /\ Acyclic(frozen)
      BY <1>3, <2>6, <2>7, <2>8, FreezingKeepsEdges
    <2>10. Listed(plan'.graph.tasks) /\ Accepted(plan.graph.tasks)' /\ Acyclic(plan'.graph.tasks)
      BY <2>4, <2>9 DEF Accepted
    <2>11. QED
      BY <2>4, <2>10 DEF PlanInv
  <1>6. QED
    BY <1>4, <1>5

\* A run starts what is ready, and is over when nothing is.
LEMMA RunKeepsInv ==
    ASSUME PlanInv, RunTask \/ NoTaskLeft
    PROVE  PlanInv'
  <1>1. CASE RunTask
    BY <1>1 DEF RunTask, PlanInv, PlanShape, Accepted
  <1>2. CASE NoTaskLeft
    <2>1. /\ plan.pc = "running" /\ plan' = [plan EXCEPT !.pc = "ended"] /\ outcomes' = outcomes
          /\ Eligible(plan.graph.tasks) = {} /\ PlanShape
      BY <1>2 DEF NoTaskLeft, PlanInv
    <2>2. PlanShape' /\ plan'.pc = "ended" /\ plan'.graph = plan.graph /\ plan'.contract = plan.contract
      BY <2>1 DEF PlanShape
    <2>3. Eligible(plan.graph.tasks)' = {}
      BY <2>1, <2>2 DEF Eligible, Started, Satisfied
    <2>4. Accepted(plan.graph.tasks)' /\ Listed(plan.graph.tasks)' /\ Acyclic(plan.graph.tasks)'
      BY <2>1, <2>2 DEF PlanInv, Accepted
    <2>5. QED
      BY <2>2, <2>3, <2>4 DEF PlanInv
  <1>3. QED
    BY <1>1, <1>2

\* Every step of the gate and of the run keeps the invariant.
LEMMA PlanStep == PlanInv /\ [PlanNext]_planVars => PlanInv'
  <1>1. ASSUME PlanInv, UNCHANGED planVars PROVE PlanInv'
    BY <1>1 DEF planVars, PlanInv, PlanShape, OrderingInv, KahnInv, KahnShape, Accepted, Eligible, Started, Satisfied
  <1>2. QED
    BY <1>1, FreezingKeepsInv, OrderingKeepsInv, ClosingKeepsInv, RunKeepsInv DEF PlanNext

\* Where nothing is left over and nothing failed, every task was started.
LEMMA NothingWaits ==
    ASSUME PlanInv, plan.pc = "ended",
           \A id \in DOMAIN outcomes : outcomes[id] \in DEP_SATISFIED_STATES
    PROVE  \A i \in DOMAIN plan.graph.tasks : Started(plan.graph.tasks[i].id)
  <1>1. PICK tasks : tasks = plan.graph.tasks
    OBVIOUS
  <1>2. Listed(tasks) /\ Accepted(tasks) /\ Acyclic(tasks) /\ Eligible(tasks) = {}
    BY <1>1 DEF PlanInv
  <1> DEFINE rest == {id \in KnownIds(tasks) : ~Started(id)}
  <1>3. ASSUME NEW i \in DOMAIN tasks, ~Started(tasks[i].id)
        PROVE  \E k \in Resolvable(tasks, tasks[i].id) : DepsOf(tasks, tasks[i].id)[k] \in rest
    <2>1. PICK k \in DOMAIN tasks[i].dependsOn : ~Started(tasks[i].dependsOn[k])
      BY <1>2, <1>3 DEF Eligible, Satisfied, Started
    <2>2. tasks[i].dependsOn[k] # tasks[i].id /\ tasks[i].dependsOn[k] \in KnownIds(tasks)
      BY <1>2 DEF Accepted
    <2>3. DepsOf(tasks, tasks[i].id) = tasks[i].dependsOn
      BY <1>2, TaskOfItsId DEF Accepted
    <2>4. QED
      BY <2>1, <2>2, <2>3 DEF Resolvable
  <1>4. IsClosed(tasks, rest)
    <2>1. \A id \in KnownIds(tasks) : \E i \in DOMAIN tasks : tasks[i].id = id
      BY DEF KnownIds
    <2>2. QED
      BY <1>3, <2>1 DEF IsClosed
  <1>5. rest = {}
    BY <1>2, <1>4 DEF Acyclic
  <1>6. \A i \in DOMAIN tasks : tasks[i].id \in KnownIds(tasks)
    BY DEF KnownIds
  <1>7. QED
    BY <1>1, <1>5, <1>6

(* PlanIsRunnable: the gate rejects exactly the graphs in which tasks wait for *)
(* each other, and a run over an accepted one strands no task unless another   *)
(* one ended badly, for any graphs and contracts.                              *)
\* (freezeTaskGraph, unorderableTaskIds, selectNextTask, runTaskGraph.)
THEOREM PlansAreRunnable == PlanSpec => []PlanIsRunnable
  <1>1. ASSUME PlanInv PROVE OrderingIsExact
    <2> SUFFICES ASSUME plan.pc = "ordering", kahn.at > Len(kahn.queue)
                 PROVE  unorderableTaskIds = CycleBound(plan.graph.tasks)
      BY DEF OrderingIsExact
    <2>1. PICK tasks : tasks = plan.graph.tasks
      OBVIOUS
    <2>2. KahnInv(tasks) /\ Listed(tasks)
      BY <1>1, <2>1, ParsedIsListed DEF OrderingInv, PlanInv
    <2>3. QED
      BY <2>1, <2>2, KahnEnds DEF unorderableTaskIds
  <1>2. ASSUME PlanInv PROVE NoTaskIsStranded
    <2> SUFFICES ASSUME plan.pc = "ended", \A id \in DOMAIN outcomes : outcomes[id] \in DEP_SATISFIED_STATES
                 PROVE  /\ \A i \in DOMAIN plan.graph.tasks : Started(plan.graph.tasks[i].id)
                        /\ plan.contract.criteria \subseteq
                              UNION {plan.graph.tasks[i].satisfies : i \in DOMAIN plan.graph.tasks}
      BY DEF NoTaskIsStranded
    <2>1. plan.contract.criteria \subseteq Cited(plan.graph.tasks)
      BY <1>2 DEF PlanInv, Accepted
    <2>2. QED
      BY <1>2, <2>1, NothingWaits DEF Cited
  <1>3. PlanInv => PlanIsRunnable
    BY <1>1, <1>2 DEF PlanIsRunnable
  <1>4. QED
    BY <1>3, StartsEmpty, PlanStep, PTL DEF PlanSpec

\* What is left of the loop and of the run when the gate is closed: the place in the
\* queue, counts that do not go below zero, and states a task can end in.
PlanLeftovers ==
    /\ kahn.at \in 1..(Len(kahn.queue) + 1)
    /\ \A id \in DOMAIN kahn.indegree : kahn.indegree[id] >= 0
    /\ \A id \in DOMAIN outcomes : outcomes[id] \in DEP_SATISFIED_STATES \cup OtherEndStates \cup {HeldOut}

\* Nothing is queued or started at first.
LEMMA LeftoversStart == PlanInit => PlanLeftovers
  <1> SUFFICES ASSUME PlanInit PROVE PlanLeftovers
    OBVIOUS
  <1>1. kahn.queue = <<>> /\ kahn.at = 1 /\ DOMAIN kahn.indegree = {} /\ DOMAIN outcomes = {}
    BY DEF PlanInit
  <1>2. QED
    BY <1>1 DEF PlanLeftovers

\* While the gate orders the counts are KahnInv's; afterwards they stay as they are.
LEMMA LeftoversStep == PlanInv /\ PlanLeftovers /\ [PlanNext]_planVars => PlanLeftovers'
  <1> SUFFICES ASSUME PlanInv, PlanLeftovers, [PlanNext]_planVars PROVE PlanLeftovers'
    OBVIOUS
  <1>1. PlanInv'
    BY PlanStep
  <1>2. ASSUME plan'.pc = "ordering"
        PROVE  /\ kahn'.at \in 1..(Len(kahn'.queue) + 1)
               /\ \A id \in DOMAIN kahn'.indegree : kahn'.indegree[id] >= 0
    <2>1. PICK tasks, queue, at, indegree, ordered :
             tasks = plan'.graph.tasks /\ queue = kahn'.queue /\ at = kahn'.at /\ indegree = kahn'.indegree
             /\ ordered = kahn'.ordered
      OBVIOUS
    <2>2. tasks \in Seq(ParsedTask) /\ (KahnInv(plan.graph.tasks))'
      BY <1>1, <1>2, <2>1 DEF PlanInv, OrderingInv
    <2>3. /\ at \in 1..(Len(queue) + 1)
          /\ indegree = [id \in KnownIds(tasks) |-> Cardinality(StillWaiting(tasks, id, ordered))]
      BY <2>1, <2>2 DEF KahnInv
    <2>4. Listed(tasks)
      BY <2>2, ParsedIsListed
    <2>5. \A id \in KnownIds(tasks) : Cardinality(StillWaiting(tasks, id, ordered)) \in Nat
      BY <2>4, StillWaitingCounts
    <2>6. QED
      BY <2>1, <2>3, <2>5
  <1>3. CASE UNCHANGED planVars
    BY <1>3 DEF planVars, PlanLeftovers
  <1>4. CASE freezeContract
    BY <1>4 DEF freezeContract, PlanLeftovers
  <1>5. CASE freezeTaskGraph
    <2>1. outcomes' = outcomes /\ (plan'.pc = "ordering" \/ kahn' = kahn)
      BY <1>5 DEF freezeTaskGraph, PlanInv, PlanShape
    <2>2. QED
      BY <1>2, <2>1 DEF PlanLeftovers
  <1>6. CASE OrderNext
    <2>1. outcomes' = outcomes /\ plan'.pc = "ordering"
      BY <1>6 DEF OrderNext
    <2>2. QED
      BY <1>2, <2>1 DEF PlanLeftovers
  <1>7. CASE CloseGate \/ NoTaskLeft
    BY <1>7 DEF CloseGate, NoTaskLeft, PlanLeftovers
  <1>8. CASE RunTask
    <2>1. PICK state \in {"COMPLETED", "REVIEWING", HeldOut} \cup OtherEndStates :
             outcomes' = [id \in DOMAIN outcomes \cup {plan.graph.tasks[selectNextTask(plan.graph.tasks)].id} |->
                             IF Started(id) THEN outcomes[id] ELSE state]
      BY <1>8 DEF RunTask
    <2>2. \A id \in DOMAIN outcomes' : outcomes'[id] \in DEP_SATISFIED_STATES \cup OtherEndStates \cup {HeldOut}
      BY <2>1 DEF PlanLeftovers, Started, DEP_SATISFIED_STATES
    <2>3. kahn' = kahn
      BY <1>8 DEF RunTask
    <2>4. QED
      BY <2>2, <2>3 DEF PlanLeftovers
  <1>9. QED
    BY <1>3, <1>4, <1>5, <1>6, <1>7, <1>8 DEF PlanNext

\* PlanTypeOK (TaskGraph): the shape of the plan, of the loop and of the run.
LEMMA PlanTypes == PlanInv /\ PlanLeftovers => PlanTypeOK
  BY DEF PlanInv, PlanLeftovers, PlanTypeOK
-------------------------------------------------------------------------------
(* Gate runner: that a report was earned is known only when it is published, so *)
(* the invariant follows the tier while it runs (RunIsComplete): what it asked *)
(* for is still to come or has been run on its tree.                           *)

\* What a report, its checks and their evidence may be.
CheckNames == Key0 \cup Key1 \cup Key2
\* What a check ran on and how it came out.
EvidenceRecords == [check : CheckNames \cup {"config"}, version : Nat, outcome : TestOutcomes]
\* One check of a report.
CheckRecords == [name : CheckNames \cup {"config"}, pass : BOOLEAN, flakySuspect : BOOLEAN, ref : EvidenceRecords]
\* A report as the runner publishes it.
ReportRecords == [tier : Tiers, pass : {"true", "false", "not_enabled"}, config : Ladders, version : Nat,
                  checks : SUBSET CheckRecords, task : {"this task"}]
\* A record of a red observation: the tree and the report it names.
RedRecords == [version : Nat, report : Nat]
\* A tier under way.
GateType ==
    [at : {"idle", "frozen"}, tier : Tiers, config : Ladders, version : Nat, golden : BOOLEAN,
     convention : BOOLEAN, todo : SUBSET CheckNames, checks : SUBSET CheckRecords]
\* The task tree.
TreeType == [version : Nat, red : [RedPaths -> Nat], golden : Golden, lines : SUBSET Line]
\* The variables of a gate and of the red artifact store.
GateTypes ==
    /\ tree \in TreeType
    /\ gate \in GateType
    /\ blobs = [put |-> blobs.put, damaged |-> blobs.damaged] /\ blobs.damaged \subseteq blobs.put
    /\ reports \in Seq(ReportRecords)
    /\ frozenLog \in Seq([path : RedPaths, version : Nat, report : Nat])
    /\ store \in [state : {"up", "down", "refused"}, records : [RedPaths -> RedRecords]]
    /\ seen \in [path : RedPaths \cup {"none"}, version : Nat, report : Nat]

\* The checks every report of a tier must have.
Asked(tier) == IF tier = "T0" THEN Key0 ELSE Key1
\* A check that passes ran on this tree and exited 0.
Clean(c, version) == c.pass => c.ref = EvidenceOf(c.name, version, "exit 0")

\* While a tier runs, what it asked for is still to come or has been run on its tree.
RunIsComplete ==
    gate.at = "frozen" =>
        /\ \A c \in gate.checks : Clean(c, gate.version)
        /\ gate.tier \in {"T0", "T1"} /\ ~phase0ConfigError(gate.config, gate.tier) =>
              Asked(gate.tier) \subseteq gate.todo \cup {c.name : c \in gate.checks}

\* Every frozen artifact names a report that failed.
FrozenWereRed ==
    /\ \A n \in DOMAIN frozenLog : frozenLog[n].report \in DOMAIN reports /\ IsRed(frozenLog[n].report)
    /\ seen # NoObservation => seen.report \in DOMAIN reports

\* What every step keeps.
GateInv == GateTypes /\ RunIsComplete /\ GatePassIsEarned /\ FrozenWereRed /\ RedRecordsAreLogged

\* A log after one append.
LEMMA LogGrows ==
    ASSUME NEW S, NEW s \in Seq(S), NEW e \in S, NEW t, t = Append(s, e)
    PROVE  /\ t \in Seq(S) /\ Len(s) \in Nat /\ Len(t) = Len(s) + 1
           /\ DOMAIN s = 1..Len(s) /\ DOMAIN t = 1..(Len(s) + 1)
           /\ t[Len(s) + 1] = e
           /\ DOMAIN s \subseteq DOMAIN t
           /\ \A i \in DOMAIN s : t[i] = s[i]
           /\ \A i \in DOMAIN t : i \in DOMAIN s \/ t[i] = e
  <1>1. Len(s) \in Nat /\ DOMAIN s = 1..Len(s)
    OBVIOUS
  <1>2. t \in Seq(S) /\ Len(t) = Len(s) + 1 /\ (\A i \in 1..Len(s) : t[i] = s[i]) /\ t[Len(s) + 1] = e
    BY AppendProperties
  <1>3. DOMAIN t = 1..Len(t)
    BY <1>2
  <1>4. \A n \in Nat : 1..n \subseteq 1..(n + 1) /\ \A i \in 1..(n + 1) : i \in 1..n \/ i = n + 1
    OBVIOUS
  <1>5. QED
    BY <1>1, <1>2, <1>3, <1>4

\* The check that runs next is one that was asked for.
LEMMA NextCheckIsPlanned ==
    ASSUME NEW todo \in SUBSET CheckNames, todo # {}
    PROVE  NextCheck(todo) \in todo
  <1> DEFINE S == {i \in 1..10 : InOrder[i] \in todo}
  <1>1. \A n \in CheckNames : \E i \in 1..10 : InOrder[i] = n
    BY DEF CheckNames, Key0, Key1, Key2, InOrder
  <1>2. S \in SUBSET Nat /\ S # {}
    BY <1>1
  <1>3. \A i \in 1..10 : i \in S <=> InOrder[i] \in todo
    OBVIOUS
  <1>4. S \subseteq 1..10
    OBVIOUS
  <1> HIDE DEF S
  <1>5. PICK x \in S : \A y \in S : x <= y
    BY <1>2, HasLeast
  <1>6. ASSUME NEW j \in 1..(x - 1) PROVE j \in 1..10 /\ j \notin S
    <2>1. x \in 1..10 /\ j \in Nat /\ j < x
      BY <1>4, <1>5
    <2>2. QED
      BY <1>5, <2>1
  <1>7. x \in 1..10 /\ InOrder[x] \in todo /\ \A j \in 1..(x - 1) : InOrder[j] \notin todo
    BY <1>3, <1>4, <1>5, <1>6
  <1>8. QED
    BY <1>7 DEF NextCheck

\* The events of an artifact, and the last of them.
EventsOf(p) == {m \in DOMAIN frozenLog : frozenLog[m].path = p}
\* The last position of a set.
LastOf(S) == CHOOSE k \in S : \A m \in S : m <= k

\* The last event about an artifact is one of those there are.
LEMMA LatestIsLogged ==
    ASSUME GateTypes, NEW p \in RedPaths, NEW n \in DOMAIN frozenLog, frozenLog[n].path = p
    PROVE  /\ LastOf(EventsOf(p)) \in DOMAIN frozenLog
           /\ Latest(p) = [version |-> frozenLog[LastOf(EventsOf(p))].version,
                           report |-> frozenLog[LastOf(EventsOf(p))].report]
  <1>1. EventsOf(p) \in SUBSET (1..Len(frozenLog)) /\ Len(frozenLog) \in Nat /\ n \in EventsOf(p)
    BY DEF GateTypes, EventsOf
  <1>2. LastOf(EventsOf(p)) \in EventsOf(p)
    BY <1>1, HasLast DEF LastOf
  <1>3. Latest(p) = [version |-> frozenLog[LastOf(EventsOf(p))].version,
                     report |-> frozenLog[LastOf(EventsOf(p))].report]
    BY <1>1 DEF Latest, EventsOf, LastOf
  <1>4. QED
    BY <1>2, <1>3 DEF EventsOf

\* The entries of a log are of its type.
LEMMA EntriesAreTyped ==
    ASSUME NEW S, NEW s \in Seq(S)
    PROVE  \A n \in DOMAIN s : s[n] \in S
  OBVIOUS

\* What the log says last of an artifact is a record.
LEMMA LatestIsRecord ==
    ASSUME GateTypes, NEW p \in RedPaths
    PROVE  Latest(p) \in RedRecords
  <1>1. \A n \in DOMAIN frozenLog : frozenLog[n] \in [path : RedPaths, version : Nat, report : Nat]
    <2>1. frozenLog \in Seq([path : RedPaths, version : Nat, report : Nat])
      BY DEF GateTypes
    <2>2. QED
      BY <2>1, EntriesAreTyped
  <1>2. CASE \E n \in DOMAIN frozenLog : frozenLog[n].path = p
    <2> DEFINE e == frozenLog[LastOf(EventsOf(p))]
    <2>1. /\ LastOf(EventsOf(p)) \in DOMAIN frozenLog
          /\ Latest(p) = [version |-> e.version, report |-> e.report]
      BY <1>2, LatestIsLogged
    <2>2. e \in [path : RedPaths, version : Nat, report : Nat]
      BY <1>1, <2>1
    <2> HIDE DEF e
    <2>3. QED
      BY <2>1, <2>2 DEF RedRecords
  <1>3. CASE ~(\E n \in DOMAIN frozenLog : frozenLog[n].path = p)
    BY <1>3 DEF Latest, NoRecord, RedRecords
  <1>4. QED
    BY <1>2, <1>3

\* A freeze is the last event of its artifact, and changes no other's.
LEMMA AppendIsLatest ==
    ASSUME GateTypes, NEW p \in RedPaths, NEW v \in Nat, NEW r \in Nat,
           frozenLog' = Append(frozenLog, [path |-> p, version |-> v, report |-> r])
    PROVE  /\ frozenLog' \in Seq([path : RedPaths, version : Nat, report : Nat])
           /\ Latest(p)' = [version |-> v, report |-> r]
           /\ \A q \in RedPaths \ {p} : Latest(q)' = Latest(q)
  <1> DEFINE e == [path |-> p, version |-> v, report |-> r]
             N == Len(frozenLog)
  <1>0. e \in [path : RedPaths, version : Nat, report : Nat] /\ e.path = p /\ e.version = v /\ e.report = r
    OBVIOUS
  <1> HIDE DEF e
  <1>1. /\ N \in Nat /\ DOMAIN frozenLog = 1..N /\ DOMAIN frozenLog' = 1..(N + 1)
        /\ frozenLog'[N + 1] = e /\ \A m \in 1..N : frozenLog'[m] = frozenLog[m]
        /\ frozenLog' \in Seq([path : RedPaths, version : Nat, report : Nat])
    BY <1>0, LogGrows DEF GateTypes, e
  <1> HIDE DEF N
  <1>a. /\ \A q : Latest(q)' = IF EventsOf(q)' = {} THEN NoRecord
                              ELSE [version |-> frozenLog'[LastOf(EventsOf(q)')].version,
                                    report |-> frozenLog'[LastOf(EventsOf(q)')].report]
        /\ \A q : Latest(q) = IF EventsOf(q) = {} THEN NoRecord
                             ELSE [version |-> frozenLog[LastOf(EventsOf(q))].version,
                                   report |-> frozenLog[LastOf(EventsOf(q))].report]
    BY DEF Latest, NoRecord, EventsOf, LastOf
  <1>2. Latest(p)' = [version |-> v, report |-> r]
    <2>1. N + 1 \in EventsOf(p)' /\ \A m \in EventsOf(p)' : m \in Nat /\ m <= N + 1
      BY <1>0, <1>1 DEF EventsOf
    <2>2. LastOf(EventsOf(p)') = N + 1
      <3> DEFINE k0 == LastOf(EventsOf(p)')
      <3>1. k0 \in EventsOf(p)' /\ \A m \in EventsOf(p)' : m <= k0
        BY <2>1 DEF LastOf
      <3> HIDE DEF k0
      <3>2. k0 \in Nat /\ k0 <= N + 1
        BY <2>1, <3>1
      <3>3. N + 1 <= k0
        BY <2>1, <3>1
      <3>4. k0 = N + 1
        BY <1>1, <3>2, <3>3
      <3>5. QED
        BY <3>4 DEF k0
    <2>3. EventsOf(p)' # {}
      BY <2>1
    <2>4. QED
      BY <1>0, <1>1, <1>a, <2>2, <2>3
  <1>3. ASSUME NEW q \in RedPaths \ {p} PROVE Latest(q)' = Latest(q)
    <2>1. EventsOf(q)' = EventsOf(q)
      BY <1>0, <1>1 DEF EventsOf
    <2>2. CASE EventsOf(q) = {}
      BY <1>a, <2>1, <2>2
    <2>3. CASE EventsOf(q) # {}
      <3>1. LastOf(EventsOf(q)) \in DOMAIN frozenLog
        BY <2>3, LatestIsLogged DEF EventsOf
      <3>2. frozenLog'[LastOf(EventsOf(q))] = frozenLog[LastOf(EventsOf(q))]
        BY <1>1, <3>1
      <3>3. QED
        BY <1>a, <2>1, <2>3, <3>2
    <2>4. QED
      BY <2>2, <2>3
  <1>4. QED
    BY <1>1, <1>2, <1>3

\* Without a new freeze the last events stay.
LEMMA SameLatest ==
    ASSUME frozenLog' = frozenLog
    PROVE  \A p : Latest(p)' = Latest(p)
  BY DEF Latest, NoRecord

\* The report the last event about an artifact names was published.
LEMMA LatestNamesReport ==
    ASSUME GateInv, NEW p \in RedPaths, Latest(p) # NoRecord
    PROVE  Latest(p).report \in DOMAIN reports
  <1>1. PICK n \in DOMAIN frozenLog : frozenLog[n].path = p
    BY DEF Latest
  <1>2. GateTypes /\ \A m \in DOMAIN frozenLog : frozenLog[m].report \in DOMAIN reports
    BY DEF GateInv, FrozenWereRed
  <1>3. /\ LastOf(EventsOf(p)) \in DOMAIN frozenLog
        /\ Latest(p) = [version |-> frozenLog[LastOf(EventsOf(p))].version,
                        report |-> frozenLog[LastOf(EventsOf(p))].report]
    BY <1>1, <1>2, LatestIsLogged
  <1>4. QED
    BY <1>2, <1>3

\* Reports are only added.
LEMMA ReportsGrow ==
    ASSUME reports \in Seq(ReportRecords), NEW r \in ReportRecords,
           reports' = reports \/ reports' = Append(reports, r)
    PROVE  /\ reports' \in Seq(ReportRecords) /\ DOMAIN reports \subseteq DOMAIN reports'
           /\ \A i \in DOMAIN reports : reports'[i] = reports[i]
           /\ \A i \in DOMAIN reports' : i \in DOMAIN reports \/ reports'[i] = r
  <1>1. CASE reports' = reports
    BY <1>1
  <1>2. CASE reports' = Append(reports, r)
    BY <1>2, LogGrows
  <1>3. QED
    BY <1>1, <1>2

\* A report that is signed keeps what the earlier ones say.
LEMMA PublishKeepsInv ==
    ASSUME GateInv, NEW pass \in {"true", "false", "not_enabled"}, NEW version \in Nat,
           NEW checks \in SUBSET CheckRecords, publish(pass, version, checks),
           UNCHANGED <<tree, frozenLog, store, seen>>,
           pass = "true" /\ gate.tier \in {"T0", "T1"} =>
              /\ gate.config.parses
              /\ \A n \in Asked(gate.tier) : EvidenceOf(n, version, "exit 0") \in {c.ref : c \in checks}
    PROVE  GateInv'
  <1> DEFINE r == Report(gate.tier, pass, version, checks, "this task")
  <1>0. gate \in GateType /\ reports \in Seq(ReportRecords)
    BY DEF GateInv, GateTypes
  <1>1. r \in ReportRecords /\ r.pass = pass /\ r.tier = gate.tier /\ r.config = gate.config
        /\ r.version = version /\ r.checks = checks
    BY <1>0 DEF Report, ReportRecords, GateType
  <1> HIDE DEF r
  <1>2. gate' \in GateType /\ gate'.at = "idle"
    <2>1. \A c \in Ladders : [NoRun EXCEPT !.config = c] \in GateType /\ [NoRun EXCEPT !.config = c].at = "idle"
      BY DEF NoRun, GateType, Tiers
    <2>2. QED
      BY <1>0, <2>1 DEF publish, GateType
  <1>3. blobs' = [put |-> blobs'.put, damaged |-> blobs'.damaged] /\ blobs'.damaged \subseteq blobs'.put
    BY DEF GateInv, GateTypes, publish
  <1>4. reports' = reports \/ reports' = Append(reports, r)
    BY DEF publish, r
  <1>5. /\ reports' \in Seq(ReportRecords) /\ DOMAIN reports \subseteq DOMAIN reports'
        /\ \A i \in DOMAIN reports : reports'[i] = reports[i]
        /\ \A i \in DOMAIN reports' : i \in DOMAIN reports \/ reports'[i] = r
    <2>1. reports \in Seq(ReportRecords) /\ r \in ReportRecords
      BY <1>0, <1>1
    <2>2. QED
      BY <1>4, <2>1, ReportsGrow
  <1>6. \A i \in DOMAIN reports' : i \in DOMAIN reports \/ reports'[i] = r
    BY <1>5
  <1>7. GateTypes'
    BY <1>2, <1>3, <1>5 DEF GateInv, GateTypes
  <1>8. GatePassIsEarned'
    <2>1. ASSUME NEW i \in DOMAIN reports', reports'[i].pass = "true", reports'[i].tier \in {"T0", "T1"}
          PROVE  /\ reports'[i].config.parses
                 /\ \A n \in IF reports'[i].tier = "T0" THEN Key0 ELSE Key1 :
                       EvidenceOf(n, reports'[i].version, "exit 0") \in {c.ref : c \in reports'[i].checks}
      <3>1. CASE i \in DOMAIN reports
        <4>1. reports'[i] = reports[i]
          BY <1>5, <3>1
        <4>2. QED
          BY <2>1, <3>1, <4>1 DEF GateInv, GatePassIsEarned
      <3>2. CASE reports'[i] = r
        BY <1>1, <2>1, <3>2 DEF Asked
      <3>3. QED
        BY <1>6, <3>1, <3>2
    <2>2. QED
      BY <2>1 DEF GatePassIsEarned
  <1>9. \A i \in DOMAIN reports : IsRed(i)' <=> IsRed(i)
    BY <1>5 DEF IsRed
  <1>10. FrozenWereRed'
    BY <1>5, <1>9 DEF GateInv, FrozenWereRed, NoObservation
  <1>11. RedRecordsAreLogged'
    <2>1. \A p \in RedPaths : Latest(p) # NoRecord => Latest(p).report \in DOMAIN reports
      BY LatestNamesReport
    <2>2. QED
      BY <1>9, <2>1, SameLatest DEF GateInv, RedRecordsAreLogged, NoRecord
  <1>12. QED
    BY <1>2, <1>7, <1>8, <1>10, <1>11 DEF GateInv, RunIsComplete

\* What was signed and frozen is judged by the logs alone.
LEMMA LogsStay ==
    ASSUME GateInv, reports' = reports, frozenLog' = frozenLog, store' = store,
           seen' = seen \/ seen' = NoObservation \/ FrozenWereRed'
    PROVE  GatePassIsEarned' /\ FrozenWereRed' /\ RedRecordsAreLogged'
  <1>1. \A i : IsRed(i)' <=> IsRed(i)
    BY DEF IsRed
  <1>2. \A p : Latest(p)' = Latest(p)
    BY SameLatest
  <1>3. FrozenWereRed'
    BY <1>1 DEF GateInv, FrozenWereRed, NoObservation
  <1>4. QED
    BY <1>1, <1>2, <1>3 DEF GateInv, GatePassIsEarned, RedRecordsAreLogged, NoRecord

\* The entries of a log that grew are the old ones and the new one.
LEMMA LastIsNew ==
    ASSUME GateTypes, NEW p \in RedPaths, NEW v \in Nat, NEW r \in Nat,
           frozenLog' = Append(frozenLog, [path |-> p, version |-> v, report |-> r])
    PROVE  \A n \in DOMAIN frozenLog' : (n \in DOMAIN frozenLog /\ frozenLog'[n] = frozenLog[n]) \/ frozenLog'[n].report = r
  <1> DEFINE e == [path |-> p, version |-> v, report |-> r]
  <1>1. e \in [path : RedPaths, version : Nat, report : Nat] /\ e.report = r
    OBVIOUS
  <1> HIDE DEF e
  <1>2. \A n \in DOMAIN frozenLog' : (n \in DOMAIN frozenLog /\ frozenLog'[n] = frozenLog[n]) \/ frozenLog'[n] = e
    BY <1>1, LogGrows DEF GateTypes, e
  <1>3. QED
    BY <1>1, <1>2

\* A check that runs leaves the list of what is to come and enters the report.
LEMMA RunCheckKeepsInv ==
    ASSUME GateInv, NEW outcome \in TestOutcomes, RunCheck(outcome)
    PROVE  GateInv'
  <1> DEFINE name == NextCheck(gate.todo)
             builtin == name \in {"convention", "golden", "fullGolden"}
             ok == IF name = "convention" THEN gate.convention ELSE gate.golden
             c == IF builtin THEN runBuiltinCheck(name, gate.version, ok)
                  ELSE runCommandCheck(name, gate.version, outcome)
  <1>1. gate \in GateType /\ gate.at = "frozen" /\ gate.todo # {} /\ UNCHANGED <<tree, blobs, reports, frozenLog, store, seen>>
    BY DEF GateInv, GateTypes, RunCheck, Checking
  <1>2. name \in gate.todo /\ name \in CheckNames
    BY <1>1, NextCheckIsPlanned DEF GateType
  <1>3. ok \in BOOLEAN /\ gate.version \in Nat
    BY <1>1 DEF GateType
  <1>4. gate' = [gate EXCEPT !.todo = gate.todo \ {name}, !.checks = gate.checks \cup {c}]
    BY <1>1 DEF RunCheck, GateType
  <1> HIDE DEF name, ok
  <1>5. c \in CheckRecords /\ c.name = name /\ Clean(c, gate.version)
    <2>1. CASE builtin
      BY <1>2, <1>3, <2>1 DEF CheckRecords, EvidenceRecords, EvidenceOf, CheckResult, runBuiltinCheck, Clean, TestOutcomes
    <2>2. CASE ~builtin
      BY <1>2, <1>3, <2>2 DEF CheckRecords, EvidenceRecords, EvidenceOf, CheckResult, runCommandCheck, Clean, TestOutcomes
    <2>3. QED
      BY <2>1, <2>2
  <1> HIDE DEF c
  <1>6. /\ gate' \in GateType /\ gate'.at = gate.at /\ gate'.tier = gate.tier /\ gate'.config = gate.config
        /\ gate'.version = gate.version /\ gate'.todo = gate.todo \ {name} /\ gate'.checks = gate.checks \cup {c}
    BY <1>1, <1>4, <1>5 DEF GateType
  <1>7. RunIsComplete'
    <2>1. \A d \in gate'.checks : Clean(d, gate'.version)
      BY <1>1, <1>5, <1>6 DEF GateInv, RunIsComplete
    <2>2. gate.todo \cup {d.name : d \in gate.checks} \subseteq gate'.todo \cup {d.name : d \in gate'.checks}
      BY <1>5, <1>6
    <2>3. phase0ConfigError(gate.config, gate.tier)' = phase0ConfigError(gate.config, gate.tier)
      BY <1>6
    <2>4. QED
      BY <1>1, <1>6, <2>1, <2>2, <2>3 DEF GateInv, RunIsComplete
  <1>8. QED
    BY <1>1, <1>6, <1>7, LogsStay DEF GateInv, GateTypes

\* A tier that starts has everything it asks for still to come.
LEMMA runTierKeepsInv ==
    ASSUME GateInv, NEW tier \in Tiers, runTier(tier)
    PROVE  GateInv'
  <1>1. gate \in GateType /\ tree.version \in Nat /\ UNCHANGED <<tree, blobs, reports, frozenLog, store, seen>>
    BY DEF GateInv, GateTypes, TreeType, runTier
  <1> DEFINE golden == verifyGoldenRoot(tree.golden) = "ok"
             convention == gate.config.convention /\ checkConvention(tree.lines)
             todo == Planned(gate.config, tier)
  <1>2. golden \in BOOLEAN /\ convention \in BOOLEAN
    OBVIOUS
  <1>3. todo \in SUBSET CheckNames
    BY DEF Planned, resolveTargetedTests, CheckNames, Key0, Key1, Key2
  <1>4. tier \in {"T0", "T1"} /\ ~phase0ConfigError(gate.config, tier) => Asked(tier) \subseteq todo
    BY DEF phase0ConfigError, Required, Asked, Planned, resolveTargetedTests, Key0, Key1
  <1>5. gate' = [gate EXCEPT !.at = "frozen", !.tier = tier, !.version = tree.version, !.golden = golden,
                             !.convention = convention, !.todo = todo, !.checks = {}]
    BY DEF runTier
  <1> HIDE DEF golden, convention, todo
  <1>6. /\ gate' \in GateType /\ gate'.at = "frozen" /\ gate'.tier = tier /\ gate'.config = gate.config
        /\ gate'.todo = todo /\ gate'.checks = {}
    BY <1>1, <1>2, <1>3, <1>5 DEF GateType
  <1>7. RunIsComplete'
    BY <1>4, <1>6 DEF RunIsComplete
  <1>8. QED
    BY <1>1, <1>6, <1>7, LogsStay DEF GateInv, GateTypes

\* A report is published only when nothing is left to run, or does not pass.
LEMMA PublishedKeepsInv ==
    ASSUME GateInv, FreezeFails \/ PublishStub \/ PublishConfigError \/ PublishChecks
    PROVE  GateInv'
  <1>1. gate \in GateType /\ gate.checks \in SUBSET CheckRecords /\ gate.version \in Nat
    BY DEF GateInv, GateTypes, GateType
  <1>2. configFailureCheck \in SUBSET CheckRecords
    BY DEF configFailureCheck, CheckRecords, EvidenceRecords, EvidenceOf, CheckResult, TestOutcomes
  <1>3. CASE FreezeFails
    <2>1. publish("false", 0, configFailureCheck) /\ UNCHANGED <<tree, frozenLog, store, seen>>
      BY <1>3 DEF FreezeFails
    <2>2. 0 \in Nat /\ "false" \in {"true", "false", "not_enabled"} /\ "false" # "true"
      OBVIOUS
    <2>3. QED
      BY <1>2, <2>1, <2>2, PublishKeepsInv
  <1>4. CASE PublishStub
    <2>1. publish("not_enabled", gate.version, {}) /\ UNCHANGED <<tree, frozenLog, store, seen>>
      BY <1>4 DEF PublishStub
    <2>2. {} \in SUBSET CheckRecords /\ "not_enabled" \in {"true", "false", "not_enabled"} /\ "not_enabled" # "true"
      OBVIOUS
    <2>3. QED
      BY <1>1, <2>1, <2>2, PublishKeepsInv
  <1>5. CASE PublishConfigError
    <2>1. publish("false", gate.version, configFailureCheck) /\ UNCHANGED <<tree, frozenLog, store, seen>>
      BY <1>5 DEF PublishConfigError
    <2>2. "false" \in {"true", "false", "not_enabled"} /\ "false" # "true"
      OBVIOUS
    <2>3. QED
      BY <1>1, <1>2, <2>1, <2>2, PublishKeepsInv
  <1>6. CASE PublishChecks
    <2> DEFINE pass == IF \A c \in gate.checks : c.pass THEN "true" ELSE "false"
    <2>1. publish(pass, gate.version, gate.checks) /\ UNCHANGED <<tree, frozenLog, store, seen>>
      BY <1>6 DEF PublishChecks
    <2>2. ASSUME pass = "true", gate.tier \in {"T0", "T1"}
          PROVE  /\ gate.config.parses
                 /\ \A n \in Asked(gate.tier) : EvidenceOf(n, gate.version, "exit 0") \in {c.ref : c \in gate.checks}
      <3>1. gate.at = "frozen" /\ gate.todo = {} /\ ~phase0ConfigError(gate.config, gate.tier)
        BY <1>6, <2>2 DEF PublishChecks, Checking
      <3>2. gate.config.parses
        BY <3>1 DEF phase0ConfigError
      <3>3. ASSUME NEW n \in Asked(gate.tier) PROVE EvidenceOf(n, gate.version, "exit 0") \in {c.ref : c \in gate.checks}
        <4>1. PICK c \in gate.checks : c.name = n
          BY <2>2, <3>1 DEF GateInv, RunIsComplete
        <4>2. c.pass /\ Clean(c, gate.version)
          BY <2>2, <3>1 DEF GateInv, RunIsComplete
        <4>3. QED
          BY <4>1, <4>2 DEF Clean
      <3>4. QED
        BY <3>2, <3>3
    <2>3. pass \in {"true", "false", "not_enabled"}
      OBVIOUS
    <2> HIDE DEF pass
    <2>4. QED
      BY <1>1, <2>1, <2>2, <2>3, PublishKeepsInv
  <1>7. QED
    BY <1>3, <1>4, <1>5, <1>6

\* An observation is presented to the store, which keeps nothing of it.
LEMMA MintKeepsInv ==
    ASSUME GateInv, NEW p \in RedPaths, NEW i \in DOMAIN reports, NEW presented \in Presentations,
           createCoreRedObservation(p, i, presented)
    PROVE  GateInv'
  <1>1. UNCHANGED <<tree, gate, reports, frozenLog, store>> /\ tree.red[p] \in Nat /\ i \in Nat
        /\ blobs = [put |-> blobs.put, damaged |-> blobs.damaged] /\ blobs.damaged \subseteq blobs.put
    BY DEF GateInv, GateTypes, TreeType, createCoreRedObservation
  <1>2. seen' \in [path : RedPaths \cup {"none"}, version : Nat, report : Nat] /\ seen'.report = i
    BY <1>1 DEF createCoreRedObservation
  <1>3. blobs' = [put |-> blobs'.put, damaged |-> blobs'.damaged] /\ blobs'.damaged \subseteq blobs'.put
    BY <1>1 DEF createCoreRedObservation
  <1>4. GateTypes' /\ FrozenWereRed'
    BY <1>1, <1>2, <1>3 DEF GateInv, GateTypes, FrozenWereRed, IsRed
  <1>5. QED
    BY <1>1, <1>4, LogsStay DEF GateInv, RunIsComplete

\* What is frozen is the tree of the report that was red, and the log says so.
LEMMA FreezeKeepsInv ==
    ASSUME GateInv, NEW p \in RedPaths, freeze(p) \/ replaceAfterObservedRed(p)
    PROVE  GateInv'
  <1>1. materialize(p) /\ store.state = "up" /\ seen # NoObservation
    BY DEF freeze, replaceAfterObservedRed
  <1>2. UNCHANGED <<tree, gate, blobs, reports>> /\ seen' = NoObservation
        /\ ((frozenLog' = frozenLog /\ store' = store) \/ (ObservationHolds(p, seen) /\ Persist(p, seen)))
    <2>1. CASE ObservationHolds(p, seen)
      BY <1>1, <2>1 DEF materialize
    <2>2. CASE ~ObservationHolds(p, seen)
      BY <1>1, <2>2 DEF materialize
    <2>3. QED
      BY <2>1, <2>2
  <1>3. seen' \in [path : RedPaths \cup {"none"}, version : Nat, report : Nat]
    BY <1>2 DEF NoObservation
  <1>4. CASE frozenLog' = frozenLog /\ store' = store
    <2>1. GateTypes' /\ FrozenWereRed'
      BY <1>2, <1>3, <1>4 DEF GateInv, GateTypes, FrozenWereRed, IsRed
    <2>2. QED
      BY <1>2, <1>4, <2>1, LogsStay DEF GateInv, RunIsComplete
  <1>5. CASE ObservationHolds(p, seen) /\ ~(frozenLog' = frozenLog /\ store' = store)
    <2> DEFINE v == seen.version
               r == seen.report
    <2>1. v \in Nat /\ r \in Nat /\ r \in DOMAIN reports /\ IsRed(r) /\ GateTypes
      BY <1>1, <1>5 DEF GateInv, GateTypes, FrozenWereRed, ObservationHolds
    <2>2. /\ frozenLog' = Append(frozenLog, [path |-> p, version |-> v, report |-> r])
          /\ store' = [store EXCEPT !.records[p] = [version |-> v, report |-> r]]
      BY <1>2, <1>5 DEF Persist
    <2> HIDE DEF v, r
    <2>3. /\ frozenLog' \in Seq([path : RedPaths, version : Nat, report : Nat])
          /\ Latest(p)' = [version |-> v, report |-> r]
          /\ \A q \in RedPaths \ {p} : Latest(q)' = Latest(q)
      BY <2>1, <2>2, AppendIsLatest
    <2>4. /\ store' \in [state : {"up", "down", "refused"}, records : [RedPaths -> RedRecords]]
          /\ store'.state = "up" /\ store'.records[p] = [version |-> v, report |-> r]
          /\ \A q \in RedPaths \ {p} : store'.records[q] = store.records[q]
      <3>1. [version |-> v, report |-> r] \in RedRecords
        BY <2>1 DEF RedRecords
      <3>2. QED
        BY <1>1, <2>1, <2>2, <3>1 DEF GateTypes
    <2>5. GateTypes'
      BY <1>2, <1>3, <2>1, <2>3, <2>4 DEF GateTypes
    <2>6. \A i : IsRed(i)' <=> IsRed(i)
      BY <1>2 DEF IsRed
    <2>7. FrozenWereRed'
      <3>1. \A n \in DOMAIN frozenLog' : (n \in DOMAIN frozenLog /\ frozenLog'[n] = frozenLog[n]) \/ frozenLog'[n].report = r
        BY <2>1, <2>2, LastIsNew
      <3>2. QED
        BY <1>2, <2>1, <2>6, <3>1 DEF GateInv, FrozenWereRed
    <2>8. RedRecordsAreLogged'
      <3>1. ASSUME NEW q \in RedPaths PROVE store'.records[q] = Latest(q)' /\ (Latest(q)' # NoRecord => IsRed(Latest(q)'.report))
        <4>1. CASE q = p
          BY <2>1, <2>3, <2>4, <4>1
        <4>2. CASE q # p
          BY <1>1, <2>3, <2>4, <4>2 DEF GateInv, RedRecordsAreLogged
        <4>3. QED
          BY <4>1, <4>2
      <3>2. QED
        BY <2>6, <3>1 DEF RedRecordsAreLogged, NoRecord
    <2>9. QED
      BY <1>2, <2>5, <2>7, <2>8 DEF GateInv, RunIsComplete, GatePassIsEarned
  <1>6. QED
    BY <1>2, <1>4, <1>5

\* A store that starts again has what the log says, or refuses.
LEMMA RestartKeepsInv ==
    ASSUME GateInv, createRedArtifactStore
    PROVE  GateInv'
  <1>1. UNCHANGED <<tree, gate, blobs, reports, frozenLog, seen>> /\ GateTypes
    BY DEF GateInv, createRedArtifactStore
  <1>2. \A p \in RedPaths : Latest(p) \in RedRecords
    BY <1>1, LatestIsRecord
  <1>3. CASE store' = [store EXCEPT !.state = "refused"]
    <2>1. GateTypes' /\ FrozenWereRed' /\ store'.state = "refused"
      BY <1>1, <1>3 DEF GateInv, GateTypes, FrozenWereRed, IsRed
    <2>2. QED
      BY <1>1, <2>1 DEF GateInv, RunIsComplete, GatePassIsEarned, RedRecordsAreLogged
  <1>4. CASE /\ store' = [state |-> "up", records |-> [p \in RedPaths |-> Latest(p)]]
             /\ \A p \in RedPaths : Latest(p) = NoRecord \/ verifyPersistedRecord(p, Latest(p))
    <2>1. /\ store' \in [state : {"up", "down", "refused"}, records : [RedPaths -> RedRecords]]
          /\ \A p \in RedPaths : store'.records[p] = Latest(p)
      BY <1>2, <1>4
    <2>2. GateTypes' /\ FrozenWereRed'
      BY <1>1, <2>1 DEF GateInv, GateTypes, FrozenWereRed, IsRed
    <2>3. \A p \in RedPaths : Latest(p)' = Latest(p)
      BY <1>1, SameLatest
    <2>4. RedRecordsAreLogged'
      <3>1. \A i : IsRed(i)' <=> IsRed(i)
        BY <1>1 DEF IsRed
      <3>2. \A p \in RedPaths : Latest(p) # NoRecord => IsRed(Latest(p).report)
        BY <1>4 DEF verifyPersistedRecord
      <3>3. QED
        BY <2>1, <2>3, <3>1, <3>2 DEF RedRecordsAreLogged, NoRecord
    <2>5. QED
      BY <1>1, <2>2, <2>4 DEF GateInv, RunIsComplete, GatePassIsEarned
  <1>5. QED
    BY <1>3, <1>4 DEF createRedArtifactStore

\* An edit, a damaged blob and a crash leave reports, log and records alone.
LEMMA WorldKeepsInv ==
    ASSUME GateInv, Edit \/ (\E b \in blobs.put \ blobs.damaged : Damage(b)) \/ GateCrash
    PROVE  GateInv'
  <1>1. CASE Edit
    <2>1. UNCHANGED <<gate, blobs, reports, frozenLog, store, seen>>
      BY <1>1 DEF Edit
    <2>2. tree \in TreeType
      BY DEF GateInv, GateTypes
    <2>3. ASSUME NEW p \in RedPaths, tree' = [tree EXCEPT !.version = @ + 1, !.red[p] = tree.version + 1] PROVE tree' \in TreeType
      <3> DEFINE v == tree.version + 1
                 R == [tree.red EXCEPT ![p] = v]
      <3>1. tree' = [tree EXCEPT !.version = v, !.red = R]
        BY <2>2, <2>3 DEF TreeType
      <3>2. v \in Nat /\ R \in [RedPaths -> Nat]
        BY <2>2 DEF TreeType
      <3> HIDE DEF v, R
      <3>3. QED
        BY <2>2, <3>1, <3>2 DEF TreeType
    <2>4. ASSUME NEW g \in Golden, tree' = [tree EXCEPT !.version = @ + 1, !.golden = g] PROVE tree' \in TreeType
      <3> DEFINE v == tree.version + 1
      <3>1. tree' = [tree EXCEPT !.version = v, !.golden = g] /\ v \in Nat
        BY <2>2, <2>4 DEF TreeType
      <3> HIDE DEF v
      <3>2. QED
        BY <2>2, <3>1 DEF TreeType
    <2>5. ASSUME NEW l \in Line, tree' = [tree EXCEPT !.version = @ + 1, !.lines = @ \cup {l}] PROVE tree' \in TreeType
      <3> DEFINE v == tree.version + 1
                 L == tree.lines \cup {l}
      <3>1. tree' = [tree EXCEPT !.version = v, !.lines = L] /\ v \in Nat /\ L \in SUBSET Line
        BY <2>2, <2>5 DEF TreeType
      <3> HIDE DEF v, L
      <3>2. QED
        BY <2>2, <3>1 DEF TreeType
    <2>6. tree' \in TreeType
      <3>1. Intact \in Golden
        BY DEF Intact, Golden
      <3>2. /\ [Intact EXCEPT !.manifest = "missing"] \in Golden /\ [Intact EXCEPT !.odd = TRUE] \in Golden
            /\ [Intact EXCEPT !.actual = {}] \in Golden
            /\ \A f \in GoldenFiles : [Intact EXCEPT !.recorded = @ \ {f}] \in Golden
        BY <3>1 DEF Golden
      <3>3. \A r \in Rules, c \in SUBSET Rules : [matches |-> {r}, comment |-> c] \in Line
        BY DEF Line
      <3>4. QED
        BY <1>1, <2>3, <2>4, <2>5, <3>2, <3>3 DEF Edit
    <2>7. GateTypes' /\ FrozenWereRed'
      BY <2>1, <2>6 DEF GateInv, GateTypes, FrozenWereRed, IsRed
    <2>8. QED
      BY <2>1, <2>7, LogsStay DEF GateInv, RunIsComplete
  <1>2. ASSUME NEW b \in blobs.put \ blobs.damaged, Damage(b) PROVE GateInv'
    <2>1. UNCHANGED <<tree, gate, reports, frozenLog, store, seen>>
      BY <1>2 DEF Damage
    <2>2. blobs' = [put |-> blobs'.put, damaged |-> blobs'.damaged] /\ blobs'.damaged \subseteq blobs'.put
      BY <1>2 DEF Damage, GateInv, GateTypes
    <2>3. GateTypes' /\ FrozenWereRed'
      BY <2>1, <2>2 DEF GateInv, GateTypes, FrozenWereRed, IsRed
    <2>4. QED
      BY <2>1, <2>3, LogsStay DEF GateInv, RunIsComplete
  <1>3. CASE GateCrash
    <2>1. UNCHANGED <<tree, blobs, reports, frozenLog>> /\ seen' = NoObservation
          /\ store' = [state |-> "down", records |-> [p \in RedPaths |-> NoRecord]]
      BY <1>3 DEF GateCrash
    <2>2. gate' \in GateType /\ gate'.at = "idle"
      <3>1. \A c \in Ladders : [NoRun EXCEPT !.config = c] \in GateType /\ [NoRun EXCEPT !.config = c].at = "idle"
        BY DEF NoRun, GateType, Tiers
      <3>2. QED
        BY <1>3, <3>1 DEF GateCrash, GateInv, GateTypes, GateType
    <2>3. /\ seen' \in [path : RedPaths \cup {"none"}, version : Nat, report : Nat] /\ NoRecord \in RedRecords
          /\ store' \in [state : {"up", "down", "refused"}, records : [RedPaths -> RedRecords]] /\ store'.state = "down"
      BY <2>1 DEF NoObservation, NoRecord, RedRecords
    <2>4. GateTypes' /\ FrozenWereRed'
      BY <2>1, <2>2, <2>3 DEF GateInv, GateTypes, FrozenWereRed, IsRed
    <2>5. QED
      BY <2>1, <2>2, <2>3, <2>4 DEF GateInv, RunIsComplete, GatePassIsEarned, RedRecordsAreLogged
  <1>4. QED
    BY <1>1, <1>2, <1>3

\* The gate starts in its invariant (a ladder, an empty report list, no red record).
LEMMA GateStarts == GateInit => GateInv
  <1> SUFFICES ASSUME GateInit PROVE GateInv
    OBVIOUS
  <1>1. gate \in GateType /\ gate.at = "idle"
    <2>1. \A c \in Ladders : [NoRun EXCEPT !.config = c] \in GateType /\ [NoRun EXCEPT !.config = c].at = "idle"
      BY DEF NoRun, GateType, Tiers
    <2>2. QED
      BY <2>1 DEF GateInit
  <1>2. NoRecord \in RedRecords /\ NoObservation \in [path : RedPaths \cup {"none"}, version : Nat, report : Nat]
    BY DEF NoRecord, RedRecords, NoObservation
  <1>3. tree \in TreeType
    BY DEF GateInit, TreeType, Intact, Golden
  <1>4. store \in [state : {"up", "down", "refused"}, records : [RedPaths -> RedRecords]] /\ \A p \in RedPaths : store.records[p] = NoRecord
    BY <1>2 DEF GateInit
  <1>5. GateTypes
    BY <1>1, <1>2, <1>3, <1>4 DEF GateInit, GateTypes
  <1>6. \A p \in RedPaths : Latest(p) = NoRecord
    BY DEF GateInit, Latest
  <1>7. QED
    BY <1>1, <1>4, <1>5, <1>6 DEF GateInit, GateInv, RunIsComplete, GatePassIsEarned, FrozenWereRed, RedRecordsAreLogged

\* Every step of a gate run, of minting and freezing, and of the world around keeps it.
THEOREM GateStepInv == GateInv /\ [GateNext]_gateVars => GateInv'
  <1> SUFFICES ASSUME GateInv, [GateNext]_gateVars PROVE GateInv'
    OBVIOUS
  <1>1. CASE UNCHANGED gateVars
    <2>1. GateTypes' /\ FrozenWereRed' /\ RunIsComplete'
      BY <1>1 DEF gateVars, GateInv, GateTypes, FrozenWereRed, IsRed, RunIsComplete
    <2>2. QED
      BY <1>1, <2>1, LogsStay DEF gateVars, GateInv
  <1>2. CASE GateNext
    BY <1>2, runTierKeepsInv, PublishedKeepsInv, RunCheckKeepsInv, MintKeepsInv, FreezeKeepsInv, RestartKeepsInv,
       WorldKeepsInv DEF GateNext
  <1>3. QED
    BY <1>1, <1>2

\* The gate's invariant has its types.
LEMMA GateTyped == GateInv => GateTypeOK
  <1> SUFFICES ASSUME GateInv PROVE GateTypeOK
    OBVIOUS
  <1>1. gate.at \in {"idle", "frozen"} /\ store.state \in {"up", "down", "refused"}
    BY DEF GateInv, GateTypes, GateType
  <1>2. \A i \in DOMAIN reports : reports[i].pass \in {"true", "false", "not_enabled"}
    <2>1. \A i \in DOMAIN reports : reports[i] \in ReportRecords
      BY DEF GateInv, GateTypes
    <2>2. \A r \in ReportRecords : r.pass \in {"true", "false", "not_enabled"}
      BY DEF ReportRecords
    <2>3. QED
      BY <2>1, <2>2
  <1>3. blobs.damaged \subseteq blobs.put
    BY DEF GateInv, GateTypes
  <1>4. QED
    BY <1>1, <1>2, <1>3 DEF GateTypeOK

(* EvidenceIsTrue: a report that passes was earned on the tree it names, and   *)
(* what is frozen as red was red, for any ladder, any trees and any mishaps.   *)
\* (runTier, publish, createCoreRedObservation, freeze, replaceAfterObservedRed.)
THEOREM GateEvidence == GateSpec => []EvidenceIsTrue
  <1>1. GateInv => EvidenceIsTrue
    BY DEF GateInv, EvidenceIsTrue
  <1>2. QED
    BY <1>1, GateStarts, GateStepInv, PTL DEF GateSpec
-------------------------------------------------------------------------------
(* Out-of-band audit: two auditors at once write T1 results for one task into  *)
(* one log.  The invariant says what an auditor at each place has logged since *)
(* it read the log (RerunsAreLogged), and that what it read is what the merge  *)
(* was authorised on (TargetsAreDue).                                          *)

\* Every report that can be in the log.
AuditReports == Reruns \cup {MergeReport, NoReport}
\* Every record that can be in the log.
AuditRecords ==
    [type : {"GATE_RESULT", "EVIDENCE_AUTHORIZED", "AUDIT_RESULT", "COMPLETED", "ESCALATED", "ERROR",
             "OOB_AUDIT_RESULT"},
     task : Merged, by : Auditors \cup {"run"}, report : AuditReports, sampled : BOOLEAN,
     verdict : Verdicts \cup {"none"}, since : Nat]
\* An auditor.
AuditorType ==
    [pc : {"down", "next", "clone", "reclone", "rerun1", "judge1", "rerun2", "judge2", "escalate"},
     since : Nat, originals : [Merged -> AuditReports], targets : SUBSET Nat, rerun : AuditReports]
\* The variables of the audit.
OobTypes ==
    /\ auditLog \in Seq(AuditRecords)
    /\ merging \in [Merged -> {"gating", "gated", "authorised", "audited", "reverted", "completed"}]
    /\ auditor \in [Auditors -> AuditorType]

\* What the log says of the merges.
MergesAreLogged ==
    /\ \A i \in DOMAIN auditLog : auditLog[i].type = "EVIDENCE_AUTHORIZED" => auditLog[i].report = MergeReport
    /\ \A i \in DOMAIN auditLog : auditLog[i].type = "COMPLETED" => merging[auditLog[i].task] = "completed"
    /\ \A t \in Merged : merging[t] \in {"authorised", "audited", "reverted", "completed"} =>
          \E i \in DOMAIN auditLog : auditLog[i].type = "EVIDENCE_AUTHORIZED" /\ auditLog[i].task = t

\* The T1 results of an auditor for a task since it read the log.
OwnResults(a, t) ==
    {j \in DOMAIN auditLog : /\ j > auditor[a].since /\ auditLog[j].type = "GATE_RESULT"
                             /\ auditLog[j].by = a /\ auditLog[j].task = t}

\* A target is a completed task of its own, compared with the report of its merge and not audited before.
TargetIsDue(a, i) ==
    /\ i \in 1..auditor[a].since /\ auditLog[i].type = "COMPLETED"
    /\ auditor[a].originals[auditLog[i].task] = MergeReport
    /\ \A j \in DOMAIN auditLog : auditLog[j].task = auditLog[i].task =>
          /\ ~(auditLog[j].type = "AUDIT_RESULT" /\ auditLog[j].sampled)
          /\ auditLog[j].type = "OOB_AUDIT_RESULT" => auditor[a].since < j
    /\ \A k \in auditor[a].targets : auditLog[k].task = auditLog[i].task => k = i

\* The targets an auditor has left are due, and it has one in hand while it works on it.
TargetsAreDue(a) ==
    /\ auditor[a].since <= Len(auditLog)
    /\ \A i \in auditor[a].targets : TargetIsDue(a, i)
    /\ auditor[a].pc \notin {"down", "next"} => auditor[a].targets # {}

\* The auditor has not yet rerun this target.
Untouched(a, i) ==
    \/ auditor[a].pc \in {"down", "next", "clone", "reclone", "rerun1"}
    \/ i # Foremost(auditor[a].targets)

\* A rerun that does not reproduce the merged report.
Differs(j) == ~reproduces(MergeReport, auditLog[j].report)

\* Its own results are those of the reruns of the target in hand.
RerunsAreLogged(a) ==
    /\ \A i \in auditor[a].targets : Untouched(a, i) => OwnResults(a, auditLog[i].task) = {}
    /\ auditor[a].pc = "judge1" =>
          \E n \in DOMAIN auditLog : OwnResults(a, Target(a)) = {n} /\ auditLog[n].report = auditor[a].rerun
    /\ auditor[a].pc = "rerun2" =>
          \E n \in DOMAIN auditLog : OwnResults(a, Target(a)) = {n} /\ Differs(n)
    /\ auditor[a].pc = "judge2" =>
          \E m, n \in DOMAIN auditLog :
             /\ OwnResults(a, Target(a)) = {m, n} /\ m # n /\ Differs(m)
             /\ auditLog[n].report = auditor[a].rerun

\* What every step keeps of an auditor.
AuditorInv(a) == TargetsAreDue(a) /\ RerunsAreLogged(a)

\* What a verdict in a log rests on.
ResultsBefore(log, i) ==
    {j \in 1..(i - 1) : /\ j > log[i].since /\ log[j].type = "GATE_RESULT"
                        /\ log[j].by = log[i].by /\ log[j].task = log[i].task}
\* A verdict compares the merge with reruns of its own.
Compares(log, i) ==
    LET differ == {j \in ResultsBefore(log, i) : ~reproduces(MergeReport, log[j].report)}
    IN  /\ log[i].verdict = "reproduced" => ResultsBefore(log, i) # {} /\ differ = {}
        /\ log[i].verdict = "non_repro" => Cardinality(differ) = 2 /\ differ = ResultsBefore(log, i)
\* A verdict is on a completed task that no earlier audit it could see covered.
IsFirstVerdict(log, i) ==
    /\ \E j \in 1..(i - 1) : log[j].type = "COMPLETED" /\ log[j].task = log[i].task
    /\ \A j \in 1..(i - 1) : log[j].task = log[i].task =>
          /\ ~(log[j].type = "AUDIT_RESULT" /\ log[j].sampled)
          /\ log[j].type = "OOB_AUDIT_RESULT" => log[i].since < j
\* Both hold of every verdict in the log.
VerdictHolds(log, i) == log[i].type = "OOB_AUDIT_RESULT" => Compares(log, i) /\ IsFirstVerdict(log, i)

\* What every step keeps.
OobInv ==
    /\ OobTypes /\ MergesAreLogged
    /\ \A a \in Auditors : AuditorInv(a)
    /\ \A i \in DOMAIN auditLog : VerdictHolds(auditLog, i)

\* AuditsAreTrue says the last part of the invariant.
LEMMA VerdictsAreTrue ==
    ASSUME \A i \in DOMAIN auditLog : VerdictHolds(auditLog, i)
    PROVE  AuditsAreTrue
  BY DEF AuditsAreTrue, AuditComparesTheMerge, AuditedOnce, VerdictHolds, Compares, IsFirstVerdict, ResultsBefore

\* What a verdict says depends on the log before it only.
LEMMA VerdictKept ==
    ASSUME NEW log, NEW more, NEW i \in Nat, \A j \in 1..i : more[j] = log[j], VerdictHolds(log, i), i > 0
    PROVE  VerdictHolds(more, i)
  <1>1. i \in 1..i /\ \A j \in 1..(i - 1) : j \in 1..i
    OBVIOUS
  <1>2. more[i] = log[i] /\ \A j \in 1..(i - 1) : more[j] = log[j]
    BY <1>1
  <1>3. ResultsBefore(more, i) = ResultsBefore(log, i)
    BY <1>2 DEF ResultsBefore
  <1>4. \A j \in ResultsBefore(log, i) : more[j] = log[j]
    BY <1>2 DEF ResultsBefore
  <1>5. {j \in ResultsBefore(more, i) : ~reproduces(MergeReport, more[j].report)}
        = {j \in ResultsBefore(log, i) : ~reproduces(MergeReport, log[j].report)}
    BY <1>3, <1>4
  <1>6. Compares(log, i) => Compares(more, i)
    BY <1>2, <1>3, <1>5 DEF Compares
  <1>7. IsFirstVerdict(log, i) => IsFirstVerdict(more, i)
    BY <1>2 DEF IsFirstVerdict
  <1>8. QED
    BY <1>2, <1>6, <1>7 DEF VerdictHolds

\* A log after appending several records.
LEMMA LogExtends ==
    ASSUME NEW S, NEW s \in Seq(S), NEW r \in Seq(S), NEW u, u = s \o r
    PROVE  /\ u \in Seq(S) /\ Len(s) \in Nat /\ Len(r) \in Nat /\ Len(u) = Len(s) + Len(r)
           /\ DOMAIN s = 1..Len(s) /\ DOMAIN u = 1..(Len(s) + Len(r)) /\ DOMAIN r = 1..Len(r)
           /\ DOMAIN s \subseteq DOMAIN u
           /\ Len(u) \in Nat /\ Len(s) <= Len(u)
           /\ \A j \in DOMAIN s : u[j] = s[j]
           /\ \A k \in DOMAIN r : Len(s) + k \in DOMAIN u /\ u[Len(s) + k] = r[k]
           /\ \A j \in DOMAIN u :
                 j \in DOMAIN s \/ (j \in Nat /\ j > Len(s) /\ \E k \in DOMAIN r : u[j] = r[k])
  <1>1. Len(s) \in Nat /\ Len(r) \in Nat /\ DOMAIN s = 1..Len(s) /\ DOMAIN r = 1..Len(r)
    OBVIOUS
  <1>2. /\ u \in Seq(S) /\ Len(u) = Len(s) + Len(r)
        /\ \A j \in 1..(Len(s) + Len(r)) : u[j] = IF j <= Len(s) THEN s[j] ELSE r[j - Len(s)]
    BY ConcatProperties
  <1>3. DOMAIN u = 1..(Len(s) + Len(r))
    BY <1>2
  <1>4. ASSUME NEW j \in DOMAIN u, j \notin DOMAIN s
        PROVE  j \in Nat /\ j > Len(s) /\ j - Len(s) \in DOMAIN r /\ u[j] = r[j - Len(s)]
    BY <1>1, <1>2, <1>3, <1>4
  <1>5. ASSUME NEW k \in DOMAIN r PROVE Len(s) + k \in DOMAIN u /\ u[Len(s) + k] = r[k]
    <2>1. /\ Len(s) + k \in 1..(Len(s) + Len(r)) /\ ~(Len(s) + k <= Len(s)) /\ (Len(s) + k) - Len(s) = k
      BY <1>1
    <2>2. QED
      BY <1>2, <1>3, <2>1
  <1>6. ASSUME NEW j \in DOMAIN s PROVE j \in DOMAIN u /\ u[j] = s[j]
    BY <1>1, <1>2, <1>3
  <1>7. QED
    BY <1>1, <1>2, <1>3, <1>4, <1>5, <1>6

\* The same for what the log of the audits is extended by.
LEMMA AuditLogExtends ==
    ASSUME OobTypes, NEW records \in Seq(AuditRecords), auditLog' = auditLog \o records
    PROVE  /\ auditLog' \in Seq(AuditRecords) /\ Len(auditLog) \in Nat /\ Len(auditLog') \in Nat
           /\ Len(auditLog) <= Len(auditLog')
           /\ DOMAIN auditLog = 1..Len(auditLog) /\ DOMAIN auditLog \subseteq DOMAIN auditLog'
           /\ \A j \in DOMAIN auditLog : auditLog'[j] = auditLog[j]
           /\ \A j \in DOMAIN auditLog' :
                 \/ j \in DOMAIN auditLog
                 \/ (j \in Nat /\ j > Len(auditLog) /\ \E k \in DOMAIN records : auditLog'[j] = records[k])
           /\ \A k \in DOMAIN records : \E j \in DOMAIN auditLog' : auditLog'[j] = records[k]
  <1>1. auditLog \in Seq(AuditRecords)
    BY DEF OobTypes
  <1> HIDE DEF OobTypes
  <1>2. /\ auditLog' \in Seq(AuditRecords) /\ Len(auditLog) \in Nat /\ Len(auditLog') \in Nat
        /\ Len(auditLog) <= Len(auditLog')
        /\ DOMAIN auditLog = 1..Len(auditLog) /\ DOMAIN auditLog \subseteq DOMAIN auditLog'
    BY <1>1, LogExtends
  <1>3. \A j \in DOMAIN auditLog : auditLog'[j] = auditLog[j]
    BY <1>1, LogExtends
  <1>4. \A k \in DOMAIN records : \E j \in DOMAIN auditLog' : auditLog'[j] = records[k]
    <2>1. \A k \in DOMAIN records : Len(auditLog) + k \in DOMAIN auditLog' /\ auditLog'[Len(auditLog) + k] = records[k]
      BY <1>1, LogExtends
    <2>2. QED
      BY <2>1
  <1>5. \A j \in DOMAIN auditLog' :
           \/ j \in DOMAIN auditLog
           \/ (j \in Nat /\ j > Len(auditLog) /\ \E k \in DOMAIN records : auditLog'[j] = records[k])
    BY <1>1, LogExtends
  <1>6. QED
    BY <1>2, <1>3, <1>4, <1>5

\* One that gets a single record.
LEMMA AuditLogGrows ==
    ASSUME OobTypes, NEW e \in AuditRecords, auditLog' = auditLog \o <<e>>
    PROVE  /\ Len(auditLog) + 1 \in DOMAIN auditLog' /\ auditLog'[Len(auditLog) + 1] = e
           /\ \A j \in DOMAIN auditLog' : j \in DOMAIN auditLog \/ j = Len(auditLog) + 1
           /\ Len(auditLog') = Len(auditLog) + 1
  <1>1. auditLog \in Seq(AuditRecords) /\ <<e>> \in Seq(AuditRecords) /\ Len(<<e>>) = 1 /\ <<e>>[1] = e
        /\ 1 \in DOMAIN <<e>>
    BY DEF OobTypes
  <1> DEFINE r == <<e>>
  <1>2. r \in Seq(AuditRecords) /\ Len(r) = 1 /\ r[1] = e /\ 1 \in DOMAIN r /\ auditLog' = auditLog \o r
    BY <1>1
  <1> HIDE DEF r
  <1>3. /\ Len(auditLog) \in Nat /\ DOMAIN auditLog = 1..Len(auditLog)
        /\ DOMAIN auditLog' = 1..(Len(auditLog) + 1) /\ Len(auditLog') = Len(auditLog) + 1
        /\ Len(auditLog) + 1 \in DOMAIN auditLog' /\ auditLog'[Len(auditLog) + 1] = e
    BY <1>1, <1>2, LogExtends
  <1>4. QED
    BY <1>3

\* The target in hand is one of the targets.
LEMMA ForemostIsOne ==
    ASSUME NEW S \in SUBSET Nat, S # {}
    PROVE  Foremost(S) \in S
  BY HasLeast DEF Foremost

\* What the records the steps append are made of.
LEMMA RecordFields ==
    ASSUME NEW t \in Merged, NEW by \in Auditors \cup {"run"}
    PROVE  /\ \A type \in {"COMPLETED", "ESCALATED", "ERROR"} :
                 /\ Record(type, t, by) \in AuditRecords /\ Record(type, t, by).type = type
                 /\ Record(type, t, by).task = t /\ Record(type, t, by).by = by
           /\ \A r \in AuditReports :
                 /\ GateResult(t, r, by) \in AuditRecords /\ GateResult(t, r, by).type = "GATE_RESULT"
                 /\ GateResult(t, r, by).task = t /\ GateResult(t, r, by).by = by
                 /\ GateResult(t, r, by).report = r
           /\ \A r \in AuditReports :
                 /\ EvidenceAuthorized(t, r) \in AuditRecords /\ EvidenceAuthorized(t, r).type = "EVIDENCE_AUTHORIZED"
                 /\ EvidenceAuthorized(t, r).task = t /\ EvidenceAuthorized(t, r).report = r
           /\ \A b \in BOOLEAN :
                 /\ AuditResult(t, b) \in AuditRecords /\ AuditResult(t, b).type = "AUDIT_RESULT"
                 /\ AuditResult(t, b).task = t
           /\ \A v \in Verdicts, n \in Nat :
                 /\ OobAuditResult(t, by, v, n) \in AuditRecords
                 /\ OobAuditResult(t, by, v, n).type = "OOB_AUDIT_RESULT"
                 /\ OobAuditResult(t, by, v, n).task = t /\ OobAuditResult(t, by, v, n).by = by
                 /\ OobAuditResult(t, by, v, n).verdict = v /\ OobAuditResult(t, by, v, n).since = n
  BY DEF Record, GateResult, EvidenceAuthorized, AuditResult, OobAuditResult, AuditRecords, AuditReports

\* A verdict, once in the log, is judged as it was.
LEMMA VerdictsStay ==
    ASSUME OobInv, NEW records \in Seq(AuditRecords), auditLog' = auditLog \o records
    PROVE  \A i \in DOMAIN auditLog : VerdictHolds(auditLog', i)
  <1> SUFFICES ASSUME NEW i \in DOMAIN auditLog PROVE VerdictHolds(auditLog', i)
    OBVIOUS
  <1>1. /\ DOMAIN auditLog = 1..Len(auditLog) /\ Len(auditLog) \in Nat
        /\ \A j \in DOMAIN auditLog : auditLog'[j] = auditLog[j]
    BY AuditLogExtends DEF OobInv
  <1>2. i \in Nat /\ i > 0 /\ \A j \in 1..i : j \in DOMAIN auditLog
    BY <1>1
  <1>3. \A j \in 1..i : auditLog'[j] = auditLog[j]
    BY <1>1, <1>2
  <1>4. VerdictHolds(auditLog, i)
    BY DEF OobInv
  <1>5. QED
    BY <1>2, <1>3, <1>4, VerdictKept

\* Targets stay due: what is logged later neither completes nor samples them.
LEMMA TargetsKept ==
    ASSUME OobInv, NEW a \in Auditors, NEW records \in Seq(AuditRecords), auditLog' = auditLog \o records,
           \A k \in DOMAIN records : \A i \in auditor[a].targets :
              records[k].task = auditLog[i].task => records[k].type # "AUDIT_RESULT",
           auditor'[a].since = auditor[a].since, auditor'[a].originals = auditor[a].originals,
           auditor'[a].targets \subseteq auditor[a].targets,
           auditor'[a].pc \notin {"down", "next"} => auditor'[a].targets # {}
    PROVE  TargetsAreDue(a)'
  <1>1. TargetsAreDue(a) /\ auditor[a].since \in Nat
    BY DEF OobInv, AuditorInv, OobTypes, AuditorType
  <1>2. /\ Len(auditLog) \in Nat /\ Len(auditLog') \in Nat /\ Len(auditLog) <= Len(auditLog')
        /\ DOMAIN auditLog = 1..Len(auditLog)
        /\ \A j \in DOMAIN auditLog : auditLog'[j] = auditLog[j]
        /\ \A j \in DOMAIN auditLog' :
                 \/ j \in DOMAIN auditLog
                 \/ (j \in Nat /\ j > Len(auditLog) /\ \E k \in DOMAIN records : auditLog'[j] = records[k])
    BY AuditLogExtends DEF OobInv
  <1>3. auditor[a].since <= Len(auditLog)
    BY <1>1 DEF TargetsAreDue
  <1>4. \A i \in auditor[a].targets : i \in DOMAIN auditLog /\ auditLog'[i] = auditLog[i]
    BY <1>1, <1>2, <1>3 DEF TargetsAreDue, TargetIsDue
  <1>5. ASSUME NEW i \in auditor'[a].targets PROVE TargetIsDue(a, i)'
    <2>1. i \in auditor[a].targets /\ TargetIsDue(a, i) /\ auditLog'[i] = auditLog[i]
      BY <1>1, <1>4, <1>5 DEF TargetsAreDue
    <2>2. ASSUME NEW j \in DOMAIN auditLog', auditLog'[j].task = auditLog'[i].task
          PROVE  /\ ~(auditLog'[j].type = "AUDIT_RESULT" /\ auditLog'[j].sampled)
                 /\ auditLog'[j].type = "OOB_AUDIT_RESULT" => auditor'[a].since < j
      <3>1. CASE j \in DOMAIN auditLog
        <4>1. auditLog'[j] = auditLog[j]
          BY <1>2, <3>1
        <4>2. QED
          BY <2>1, <2>2, <3>1, <4>1 DEF TargetIsDue
      <3>2. CASE j \notin DOMAIN auditLog
        <4>1. j \in Nat /\ j > Len(auditLog) /\ \E k \in DOMAIN records : auditLog'[j] = records[k]
          BY <1>2, <3>2
        <4>2. auditLog'[j].type # "AUDIT_RESULT"
          BY <2>1, <2>2, <4>1
        <4>3. auditor'[a].since < j
          BY <1>1, <1>2, <1>3, <4>1
        <4>4. QED
          BY <4>2, <4>3
      <3>3. QED
        BY <3>1, <3>2
    <2>3. \A k \in auditor'[a].targets : auditLog'[k].task = auditLog'[i].task => k = i
      BY <1>4, <2>1 DEF TargetIsDue
    <2>4. i \in 1..auditor'[a].since /\ auditLog'[i].type = "COMPLETED"
          /\ auditor'[a].originals[auditLog'[i].task] = MergeReport
      BY <2>1 DEF TargetIsDue
    <2>5. QED
      BY <2>2, <2>3, <2>4 DEF TargetIsDue
  <1>6. auditor'[a].since <= Len(auditLog')
    BY <1>1, <1>2, <1>3
  <1>7. QED
    BY <1>5, <1>6 DEF TargetsAreDue

\* An auditor's results for a task are its own to add.
LEMMA OwnStay ==
    ASSUME OobInv, NEW a \in Auditors, NEW t, NEW records \in Seq(AuditRecords),
           auditLog' = auditLog \o records, auditor'[a].since = auditor[a].since,
           \A k \in DOMAIN records : records[k].type = "GATE_RESULT" => records[k].by # a \/ records[k].task # t
    PROVE  OwnResults(a, t)' = OwnResults(a, t)
  <1>1. /\ DOMAIN auditLog \subseteq DOMAIN auditLog' /\ \A j \in DOMAIN auditLog : auditLog'[j] = auditLog[j]
        /\ \A j \in DOMAIN auditLog' : j \in DOMAIN auditLog \/ \E k \in DOMAIN records : auditLog'[j] = records[k]
    BY AuditLogExtends DEF OobInv
  <1>2. \A j \in DOMAIN auditLog' :
           auditLog'[j].type = "GATE_RESULT" /\ auditLog'[j].by = a /\ auditLog'[j].task = t => j \in DOMAIN auditLog
    BY <1>1
  <1>3. OwnResults(a, t)' \subseteq OwnResults(a, t)
    BY <1>1, <1>2 DEF OwnResults
  <1>4. OwnResults(a, t) \subseteq OwnResults(a, t)'
    BY <1>1 DEF OwnResults
  <1>5. QED
    BY <1>3, <1>4

\* A rerun adds its own place to the results of the auditor.
LEMMA OwnGrow ==
    ASSUME OobInv, NEW a \in Auditors, NEW t \in Merged, NEW e \in AuditRecords, auditLog' = auditLog \o <<e>>,
           auditor'[a].since = auditor[a].since, auditor[a].since <= Len(auditLog),
           e.type = "GATE_RESULT", e.by = a, e.task = t
    PROVE  OwnResults(a, t)' = OwnResults(a, t) \cup {Len(auditLog) + 1}
  <1> DEFINE r == <<e>>
             n == Len(auditLog) + 1
  <1>1. /\ n \in DOMAIN auditLog' /\ auditLog'[n] = e
        /\ \A j \in DOMAIN auditLog' : j \in DOMAIN auditLog \/ j = n
    BY AuditLogGrows DEF OobInv
  <1>2. r \in Seq(AuditRecords) /\ auditLog' = auditLog \o r
    OBVIOUS
  <1> HIDE DEF r
  <1>3. /\ DOMAIN auditLog \subseteq DOMAIN auditLog' /\ \A j \in DOMAIN auditLog : auditLog'[j] = auditLog[j]
        /\ Len(auditLog) \in Nat
    BY <1>2, AuditLogExtends DEF OobInv
  <1>4. auditor[a].since \in Nat /\ n > auditor'[a].since
    BY <1>3 DEF OobInv, OobTypes, AuditorType
  <1> HIDE DEF n
  <1>5. OwnResults(a, t)' \subseteq OwnResults(a, t) \cup {n}
    BY <1>1, <1>3 DEF OwnResults
  <1>6. OwnResults(a, t) \subseteq OwnResults(a, t)' /\ n \in OwnResults(a, t)'
    BY <1>1, <1>3, <1>4 DEF OwnResults
  <1>7. QED
    BY <1>5, <1>6 DEF n

\* Targets are positions of the log, and name a task.
LEMMA TargetsAreLogged ==
    ASSUME OobInv, NEW a \in Auditors
    PROVE  /\ \A i \in auditor[a].targets : i \in DOMAIN auditLog /\ auditLog[i].task \in Merged
           /\ auditor[a].targets # {} =>
                 /\ Foremost(auditor[a].targets) \in auditor[a].targets /\ Target(a) \in Merged
                 /\ Target(a) = auditLog[Foremost(auditor[a].targets)].task
  <1>1. TargetsAreDue(a) /\ auditor[a].since \in Nat /\ auditor[a].targets \in SUBSET Nat /\ Len(auditLog) \in Nat
        /\ DOMAIN auditLog = 1..Len(auditLog)
    BY DEF OobInv, AuditorInv, OobTypes, AuditorType
  <1>2. ASSUME NEW i \in auditor[a].targets PROVE i \in DOMAIN auditLog
    BY <1>1 DEF TargetsAreDue, TargetIsDue
  <1>3. \A i \in DOMAIN auditLog : auditLog[i].task \in Merged
    <2>1. auditLog \in Seq(AuditRecords)
      BY DEF OobInv, OobTypes
    <2>2. \A i \in DOMAIN auditLog : auditLog[i] \in AuditRecords
      BY <2>1
    <2>3. QED
      BY <2>2 DEF AuditRecords
  <1>4. auditor[a].targets # {} => Foremost(auditor[a].targets) \in auditor[a].targets
    BY <1>1, ForemostIsOne
  <1>5. QED
    BY <1>2, <1>3, <1>4 DEF Target

\* What others log does not concern an auditor.
LEMMA AuditorKept ==
    ASSUME OobInv, NEW a \in Auditors, NEW records \in Seq(AuditRecords), auditLog' = auditLog \o records,
           auditor'[a] = auditor[a],
           \A k \in DOMAIN records : \A i \in auditor[a].targets :
              records[k].task = auditLog[i].task => records[k].type # "AUDIT_RESULT" /\ records[k].by # a
    PROVE  AuditorInv(a)'
  <1>0. TargetsAreDue(a) /\ RerunsAreLogged(a) /\ auditor[a].targets \subseteq auditor[a].targets
    BY DEF OobInv, AuditorInv
  <1>1. TargetsAreDue(a)'
    BY <1>0, TargetsKept DEF TargetsAreDue
  <1>3. \A i \in DOMAIN auditLog : i \in DOMAIN auditLog' /\ auditLog'[i] = auditLog[i]
    BY AuditLogExtends DEF OobInv
  <1>4. /\ \A i \in auditor[a].targets : i \in DOMAIN auditLog /\ auditLog[i].task \in Merged
        /\ auditor[a].targets # {} =>
              /\ Foremost(auditor[a].targets) \in auditor[a].targets
              /\ Target(a) = auditLog[Foremost(auditor[a].targets)].task
    BY TargetsAreLogged
  <1>2. ASSUME NEW t, NEW i \in auditor[a].targets, t = auditLog[i].task PROVE OwnResults(a, t)' = OwnResults(a, t)
    <2>1. \A k \in DOMAIN records : records[k].type = "GATE_RESULT" => records[k].by # a \/ records[k].task # t
      BY <1>2
    <2>2. QED
      BY <2>1, OwnStay
  <1>5. auditor[a].targets # {} => Target(a)' = Target(a)
    BY <1>3, <1>4 DEF Target
  <1>6. \A t : auditor[a].targets # {} /\ t = Target(a) => OwnResults(a, t)' = OwnResults(a, t)
    BY <1>2, <1>4
  <1>7. \A i \in auditor'[a].targets : Untouched(a, i)' => OwnResults(a, auditLog[i].task)' = {}
    <2>1. SUFFICES ASSUME NEW i \in auditor[a].targets, NEW t, t = auditLog[i].task, Untouched(a, i)'
                   PROVE  OwnResults(a, t)' = {}
      BY <1>3, <1>4
    <2>2. Untouched(a, i)
      BY <2>1 DEF Untouched
    <2>3. OwnResults(a, t) = {}
      BY <1>0, <2>1, <2>2 DEF RerunsAreLogged
    <2>4. QED
      BY <1>2, <2>1, <2>3
  <1>8. \A n \in DOMAIN auditLog : n \in DOMAIN auditLog' /\ (Differs(n)' <=> Differs(n))
    BY <1>3 DEF Differs
  <1>9. auditor[a].pc \in {"judge1", "rerun2", "judge2"} => auditor[a].targets # {}
    BY <1>0 DEF TargetsAreDue
  <1>10. RerunsAreLogged(a)'
    <2>1. CASE auditor[a].pc \notin {"judge1", "rerun2", "judge2"}
      BY <1>7, <2>1 DEF RerunsAreLogged
    <2>2. CASE auditor[a].pc \in {"judge1", "rerun2", "judge2"}
      <3>1. PICK t : t = Target(a)
        OBVIOUS
      <3>2. t = Target(a)' /\ OwnResults(a, t)' = OwnResults(a, t)
        BY <1>5, <1>6, <1>9, <2>2, <3>1
      <3> DEFINE own == OwnResults(a, t)
      <3>3. /\ auditor[a].pc = "judge1" =>
                  \E n \in DOMAIN auditLog : own = {n} /\ auditLog[n].report = auditor[a].rerun
            /\ auditor[a].pc = "rerun2" => \E n \in DOMAIN auditLog : own = {n} /\ Differs(n)
            /\ auditor[a].pc = "judge2" =>
                  \E m, n \in DOMAIN auditLog :
                     /\ own = {m, n} /\ m # n /\ Differs(m)
                     /\ auditLog[n].report = auditor[a].rerun
        BY <1>0, <3>1 DEF RerunsAreLogged
      <3>4. OwnResults(a, Target(a))' = own
        BY <3>2
      <3> HIDE DEF own
      <3>5. /\ auditor[a].pc = "judge1" =>
                  \E n \in DOMAIN auditLog' : own = {n} /\ auditLog'[n].report = auditor'[a].rerun
            /\ auditor[a].pc = "rerun2" => \E n \in DOMAIN auditLog' : own = {n} /\ Differs(n)'
            /\ auditor[a].pc = "judge2" =>
                  \E m, n \in DOMAIN auditLog' :
                     /\ own = {m, n} /\ m # n /\ Differs(m)'
                     /\ auditLog'[n].report = auditor'[a].rerun
        BY <1>3, <1>8, <3>3
      <3>6. QED
        BY <1>7, <3>4, <3>5 DEF RerunsAreLogged
    <2>3. QED
      BY <2>1, <2>2
  <1>11. QED
    BY <1>1, <1>10 DEF AuditorInv

------------------------------------------------------------------------------
\* A step of a merge: of a task that no auditor has taken as a target yet.
LEMMA MergeStepKeepsInv ==
    ASSUME OobInv, NEW t \in Merged, NEW from, NEW to, NEW records \in Seq(AuditRecords),
           MergeStep(t, from, to, records), from # "completed",
           to \in {"gated", "authorised", "audited", "reverted", "completed"},
           from \in {"authorised", "audited"} \/ to = "gated" \/
              (\E k \in DOMAIN records : records[k].type = "EVIDENCE_AUTHORIZED"),
           \A k \in DOMAIN records :
              /\ records[k].task = t /\ records[k].type # "OOB_AUDIT_RESULT"
              /\ records[k].type = "EVIDENCE_AUTHORIZED" => records[k].report = MergeReport
              /\ records[k].type = "COMPLETED" => to = "completed"
    PROVE  OobInv'
  <1>1. /\ auditLog' = auditLog \o records /\ UNCHANGED auditor
        /\ merging[t] = from /\ merging' = [merging EXCEPT ![t] = to]
        /\ merging \in [Merged -> {"gating", "gated", "authorised", "audited", "reverted", "completed"}]
    BY DEF MergeStep, OobInv, OobTypes
  <1>2. /\ auditLog' \in Seq(AuditRecords)
        /\ DOMAIN auditLog \subseteq DOMAIN auditLog' /\ \A j \in DOMAIN auditLog : auditLog'[j] = auditLog[j]
        /\ \A j \in DOMAIN auditLog' : j \in DOMAIN auditLog \/ \E k \in DOMAIN records : auditLog'[j] = records[k]
        /\ \A k \in DOMAIN records : \E j \in DOMAIN auditLog' : auditLog'[j] = records[k]
    BY <1>1, AuditLogExtends DEF OobInv
  <1>3. OobTypes'
    BY <1>1, <1>2 DEF OobInv, OobTypes
  <1>4. merging'[t] = to /\ \A u \in Merged \ {t} : merging'[u] = merging[u]
    BY <1>1
  <1>5. \A i \in DOMAIN auditLog : auditLog[i].type = "COMPLETED" => auditLog[i].task \in Merged \ {t}
    <2>1. \A i \in DOMAIN auditLog : auditLog[i] \in AuditRecords
      <3>1. auditLog \in Seq(AuditRecords)
        BY DEF OobInv, OobTypes
      <3>2. QED
        BY <3>1
    <2>2. \A i \in DOMAIN auditLog : auditLog[i].task \in Merged
      BY <2>1 DEF AuditRecords
    <2>3. QED
      BY <1>1, <2>2 DEF OobInv, MergesAreLogged
  <1>6. MergesAreLogged'
    <2>1. \A i \in DOMAIN auditLog' : auditLog'[i].type = "EVIDENCE_AUTHORIZED" => auditLog'[i].report = MergeReport
      BY <1>2 DEF OobInv, MergesAreLogged
    <2>2. \A i \in DOMAIN auditLog' : auditLog'[i].type = "COMPLETED" => merging'[auditLog'[i].task] = "completed"
      <3>1. \A i \in DOMAIN auditLog : auditLog[i].type = "COMPLETED" => merging[auditLog[i].task] = "completed"
        BY DEF OobInv, MergesAreLogged
      <3>2. QED
        BY <1>2, <1>4, <1>5, <3>1
    <2>3. ASSUME NEW u \in Merged, merging'[u] \in {"authorised", "audited", "reverted", "completed"}
          PROVE  \E i \in DOMAIN auditLog' : auditLog'[i].type = "EVIDENCE_AUTHORIZED" /\ auditLog'[i].task = u
      <3>1. CASE \E i \in DOMAIN auditLog : auditLog[i].type = "EVIDENCE_AUTHORIZED" /\ auditLog[i].task = u
        BY <1>2, <3>1
      <3>2. CASE u = t /\ \E k \in DOMAIN records : records[k].type = "EVIDENCE_AUTHORIZED"
        BY <1>2, <3>2
      <3>3. CASE merging[u] \in {"authorised", "audited", "reverted", "completed"}
        BY <3>1, <3>3 DEF OobInv, MergesAreLogged
      <3>4. QED
        BY <1>1, <1>4, <2>3, <3>2, <3>3
    <2>4. QED
      BY <2>1, <2>2, <2>3 DEF MergesAreLogged
  <1>7. ASSUME NEW a \in Auditors PROVE AuditorInv(a)'
    <2>1. \A i \in auditor[a].targets : auditLog[i].type = "COMPLETED" /\ i \in DOMAIN auditLog
      BY TargetsAreLogged DEF OobInv, AuditorInv, TargetsAreDue, TargetIsDue
    <2>2. \A k \in DOMAIN records : \A i \in auditor[a].targets : records[k].task # auditLog[i].task
      BY <1>5, <2>1
    <2>3. QED
      BY <1>1, <2>2, AuditorKept
  <1>8. \A i \in DOMAIN auditLog' : VerdictHolds(auditLog', i)
    <2>1. \A i \in DOMAIN auditLog' : i \in DOMAIN auditLog \/ auditLog'[i].type # "OOB_AUDIT_RESULT"
      BY <1>2
    <2>2. QED
      BY <1>1, <2>1, VerdictsStay DEF VerdictHolds
  <1>9. QED
    BY <1>3, <1>6, <1>7, <1>8 DEF OobInv

\* A step of an auditor: of its own state, and of the log by its own hand.
LEMMA AuditStepKeepsInv ==
    ASSUME OobInv, NEW a \in Auditors, NEW new \in AuditorType, NEW records \in Seq(AuditRecords),
           AuditStep(a, new, records),
           \A k \in DOMAIN records :
              records[k].by = a /\ records[k].type \in {"GATE_RESULT", "ESCALATED", "ERROR", "OOB_AUDIT_RESULT"},
           AuditorInv(a)',
           \A i \in DOMAIN auditLog' \ DOMAIN auditLog : VerdictHolds(auditLog', i)
    PROVE  OobInv'
  <1>1. /\ auditLog' = auditLog \o records /\ UNCHANGED merging
        /\ auditor' = [auditor EXCEPT ![a] = new] /\ auditor \in [Auditors -> AuditorType]
    BY DEF AuditStep, OobInv, OobTypes
  <1>2. /\ auditLog' \in Seq(AuditRecords)
        /\ DOMAIN auditLog \subseteq DOMAIN auditLog' /\ \A j \in DOMAIN auditLog : auditLog'[j] = auditLog[j]
        /\ \A j \in DOMAIN auditLog' : j \in DOMAIN auditLog \/ \E k \in DOMAIN records : auditLog'[j] = records[k]
    BY <1>1, AuditLogExtends DEF OobInv
  <1>3. OobTypes'
    BY <1>1, <1>2 DEF OobInv, OobTypes
  <1>4. MergesAreLogged'
    <2>1. \A i \in DOMAIN auditLog' :
             i \in DOMAIN auditLog \/ auditLog'[i].type \notin {"EVIDENCE_AUTHORIZED", "COMPLETED"}
      BY <1>2
    <2>2. /\ \A i \in DOMAIN auditLog' : auditLog'[i].type = "EVIDENCE_AUTHORIZED" => auditLog'[i].report = MergeReport
          /\ \A i \in DOMAIN auditLog' : auditLog'[i].type = "COMPLETED" => merging'[auditLog'[i].task] = "completed"
      BY <1>1, <1>2, <2>1 DEF OobInv, MergesAreLogged
    <2>3. \A t \in Merged : merging'[t] \in {"authorised", "audited", "reverted", "completed"} =>
             \E i \in DOMAIN auditLog' : auditLog'[i].type = "EVIDENCE_AUTHORIZED" /\ auditLog'[i].task = t
      BY <1>1, <1>2 DEF OobInv, MergesAreLogged
    <2>4. QED
      BY <2>2, <2>3 DEF MergesAreLogged
  <1>5. ASSUME NEW b \in Auditors PROVE AuditorInv(b)'
    <2>1. CASE b = a
      BY <2>1
    <2>2. CASE b # a
      <3>1. auditor'[b] = auditor[b]
        BY <1>1, <2>2
      <3>2. QED
        BY <1>1, <2>2, <3>1, AuditorKept
    <2>3. QED
      BY <2>1, <2>2
  <1>6. \A i \in DOMAIN auditLog' : VerdictHolds(auditLog', i)
    BY <1>1, VerdictsStay
  <1>7. QED
    BY <1>3, <1>4, <1>5, <1>6 DEF OobInv

\* Appending nothing.
LEMMA NothingLogged ==
    ASSUME OobTypes, auditLog' = auditLog \o <<>>
    PROVE  auditLog' = auditLog /\ <<>> \in Seq(AuditRecords) /\ DOMAIN <<>> = {}
  BY ConcatEmptySeq DEF OobTypes

\* A step that logs nothing keeps the rest of the invariant.
LEMMA QuietStepKeepsInv ==
    ASSUME OobInv, NEW a \in Auditors, NEW new \in AuditorType, AuditStep(a, new, <<>>), AuditorInv(a)'
    PROVE  OobInv'
  <1> DEFINE r == <<>>
  <1>1. auditLog' = auditLog /\ r \in Seq(AuditRecords) /\ DOMAIN r = {} /\ AuditStep(a, new, r)
    BY NothingLogged DEF AuditStep, OobInv
  <1> HIDE DEF r
  <1>2. QED
    BY <1>1, AuditStepKeepsInv

\* A sequence of one record.
LEMMA SoleRecord ==
    ASSUME NEW e \in AuditRecords
    PROVE  <<e>> \in Seq(AuditRecords) /\ DOMAIN <<e>> = {1} /\ <<e>>[1] = e
  OBVIOUS

\* The target in hand is done with, and the log says so.
LEMMA SkipKeeps ==
    ASSUME OobInv, NEW a \in Auditors, auditor[a].targets # {}, auditor'[a] = Skip(a),
           NEW e \in AuditRecords, e.type \in {"ESCALATED", "ERROR", "OOB_AUDIT_RESULT"},
           auditLog' = auditLog \o <<e>>
    PROVE  AuditorInv(a)' /\ Skip(a) \in AuditorType
  <1> DEFINE r == <<e>>
             T == auditor[a].targets \ {Foremost(auditor[a].targets)}
  <1>1. r \in Seq(AuditRecords) /\ auditLog' = auditLog \o r /\ \A k \in DOMAIN r : r[k] = e
    BY SoleRecord
  <1> HIDE DEF r
  <1>2. auditor[a] \in AuditorType /\ T \in SUBSET Nat
    BY DEF OobInv, OobTypes, AuditorType
  <1>3. Skip(a) = [auditor[a] EXCEPT !.pc = "next", !.targets = T, !.rerun = NoReport]
    BY <1>2 DEF Skip, AuditorType
  <1>4. T \subseteq auditor[a].targets /\ \A i \in T : i # Foremost(auditor[a].targets)
    OBVIOUS
  <1> HIDE DEF T
  <1>5. /\ Skip(a) \in AuditorType /\ auditor'[a].pc = "next" /\ auditor'[a].targets = T
        /\ auditor'[a].since = auditor[a].since /\ auditor'[a].originals = auditor[a].originals
    BY <1>2, <1>3 DEF AuditorType, AuditReports
  <1>6. TargetsAreDue(a)'
    BY <1>1, <1>4, <1>5, TargetsKept
  <1>7. ASSUME NEW i \in auditor'[a].targets, NEW t, t = auditLog[i].task PROVE OwnResults(a, t)' = {}
    <2>1. OwnResults(a, t) = {}
      BY <1>4, <1>5, <1>7 DEF OobInv, AuditorInv, RerunsAreLogged, Untouched
    <2>2. OwnResults(a, t)' = OwnResults(a, t)
      BY <1>1, <1>5, OwnStay
    <2>3. QED
      BY <2>1, <2>2
  <1>8. \A i \in auditor'[a].targets : auditLog'[i] = auditLog[i]
    <2>1. \A i \in DOMAIN auditLog : auditLog'[i] = auditLog[i]
      BY <1>1, AuditLogExtends DEF OobInv
    <2>2. QED
      BY <1>4, <1>5, <2>1, TargetsAreLogged
  <1>9. RerunsAreLogged(a)'
    BY <1>5, <1>7, <1>8 DEF RerunsAreLogged
  <1>10. QED
    BY <1>5, <1>6, <1>9 DEF AuditorInv

\* The auditor goes on with its target; nothing is logged.
LEMMA AuditorMoveKeeps ==
    ASSUME OobInv, NEW a \in Auditors, auditor[a].targets # {},
           NEW pc \in {"clone", "reclone", "rerun1", "rerun2", "escalate"},
           auditor'[a] = AuditMoves(a, pc), NEW records \in Seq(AuditRecords), auditLog' = auditLog \o records,
           \A k \in DOMAIN records : records[k].type \in {"ESCALATED", "ERROR", "OOB_AUDIT_RESULT"},
           pc \in {"clone", "reclone", "rerun1"} => auditor[a].pc \in {"next", "clone", "reclone"},
           pc = "rerun2" => /\ auditor[a].pc = "judge1"
                            /\ ~reproduces(MergeReport, auditor[a].rerun)
    PROVE  AuditorInv(a)' /\ AuditMoves(a, pc) \in AuditorType
  <1>1. auditor[a] \in AuditorType
    BY DEF OobInv, OobTypes
  <1>2. /\ AuditMoves(a, pc) \in AuditorType /\ auditor'[a].pc = pc /\ auditor'[a].targets = auditor[a].targets
        /\ auditor'[a].since = auditor[a].since /\ auditor'[a].originals = auditor[a].originals
    BY <1>1 DEF AuditMoves, AuditorType
  <1>3. TargetsAreDue(a)'
    BY <1>2, TargetsKept
  <1>4. \A t : OwnResults(a, t)' = OwnResults(a, t)
    BY <1>2, OwnStay
  <1>5. \A i \in DOMAIN auditLog : i \in DOMAIN auditLog' /\ auditLog'[i] = auditLog[i]
    BY AuditLogExtends DEF OobInv
  <1>6. /\ \A i \in auditor[a].targets : i \in DOMAIN auditLog
        /\ Foremost(auditor[a].targets) \in auditor[a].targets
        /\ Target(a) = auditLog[Foremost(auditor[a].targets)].task
    BY TargetsAreLogged
  <1>7. ASSUME NEW i \in auditor'[a].targets, Untouched(a, i)' PROVE OwnResults(a, auditLog[i].task)' = {}
    <2>1. PICK t : t = auditLog[i].task
      OBVIOUS
    <2>2. OwnResults(a, t) = {}
      BY <1>2, <1>7, <2>1 DEF OobInv, AuditorInv, RerunsAreLogged, Untouched
    <2>3. auditLog'[i].task = t
      BY <1>2, <1>5, <1>6, <2>1
    <2>4. QED
      BY <1>4, <2>2, <2>3
  <1>8. pc = "rerun2" => \E n \in DOMAIN auditLog' : OwnResults(a, Target(a))' = {n} /\ Differs(n)'
    <2>1. SUFFICES ASSUME pc = "rerun2", NEW t, t = Target(a)
                   PROVE  \E n \in DOMAIN auditLog' : OwnResults(a, t)' = {n} /\ Differs(n)'
      BY <1>2, <1>5, <1>6 DEF Target
    <2>2. PICK n \in DOMAIN auditLog : OwnResults(a, t) = {n} /\ auditLog[n].report = auditor[a].rerun
      BY <2>1 DEF OobInv, AuditorInv, RerunsAreLogged
    <2>3. QED
      BY <1>4, <1>5, <2>1, <2>2 DEF Differs
  <1>9. RerunsAreLogged(a)'
    BY <1>2, <1>7, <1>8 DEF RerunsAreLogged
  <1>10. QED
    BY <1>2, <1>3, <1>9 DEF AuditorInv

\* A new verdict rests on the results its auditor got for the task.
LEMMA VerdictIsEarned ==
    ASSUME OobInv, NEW a \in Auditors, auditor[a].targets # {}, NEW v \in Verdicts,
           auditLog' = auditLog \o <<OobAuditResult(Target(a), a, v, auditor[a].since)>>,
           v = "reproduced" => /\ OwnResults(a, Target(a)) # {}
                               /\ \A j \in OwnResults(a, Target(a)) : ~Differs(j),
           v = "non_repro" => /\ Cardinality(OwnResults(a, Target(a))) = 2
                              /\ \A j \in OwnResults(a, Target(a)) : Differs(j)
    PROVE  \A i \in DOMAIN auditLog' \ DOMAIN auditLog : VerdictHolds(auditLog', i)
  <1> DEFINE t == Target(a)
             e == OobAuditResult(t, a, v, auditor[a].since)
             f == Foremost(auditor[a].targets)
             n == Len(auditLog) + 1
             own == OwnResults(a, t)
  <1>1. f \in auditor[a].targets /\ t \in Merged /\ t = auditLog[f].task /\ f \in DOMAIN auditLog
    BY TargetsAreLogged
  <1>2. auditor[a].since \in Nat /\ TargetsAreDue(a)
    BY DEF OobInv, OobTypes, AuditorType, AuditorInv
  <1>3. /\ e \in AuditRecords /\ e.type = "OOB_AUDIT_RESULT" /\ e.task = t /\ e.by = a /\ e.verdict = v
        /\ e.since = auditor[a].since
    BY <1>1, <1>2, RecordFields
  <1>4. auditLog' = auditLog \o <<e>>
    OBVIOUS
  <1>c. /\ v = "reproduced" => own # {} /\ \A j \in own : ~Differs(j)
        /\ v = "non_repro" => Cardinality(own) = 2 /\ \A j \in own : Differs(j)
    OBVIOUS
  <1>o. own = {j \in DOMAIN auditLog : /\ j > auditor[a].since /\ auditLog[j].type = "GATE_RESULT"
                                       /\ auditLog[j].by = a /\ auditLog[j].task = t}
    BY DEF OwnResults
  <1> HIDE DEF t, e, f, own
  <1>5. /\ n \in DOMAIN auditLog' /\ auditLog'[n] = e
        /\ \A j \in DOMAIN auditLog' : j \in DOMAIN auditLog \/ j = n
    BY <1>3, <1>4, AuditLogGrows DEF OobInv
  <1>6. /\ Len(auditLog) \in Nat /\ DOMAIN auditLog = 1..Len(auditLog)
        /\ \A j \in DOMAIN auditLog : auditLog'[j] = auditLog[j]
    <2>1. <<e>> \in Seq(AuditRecords)
      BY <1>3
    <2>2. QED
      BY <1>4, <2>1, AuditLogExtends DEF OobInv
  <1>7. 1..(n - 1) = DOMAIN auditLog
    BY <1>6
  <1> HIDE DEF n
  <1>8. ResultsBefore(auditLog', n) = own
    BY <1>3, <1>5, <1>6, <1>7, <1>o DEF ResultsBefore
  <1>9. \A j \in own : j \in DOMAIN auditLog /\ (Differs(j) <=> ~reproduces(MergeReport, auditLog'[j].report))
    BY <1>6, <1>o DEF Differs
  <1>10. Compares(auditLog', n)
    <2>1. v = "reproduced" => {j \in own : ~reproduces(MergeReport, auditLog'[j].report)} = {}
      BY <1>9, <1>c
    <2>2. v = "non_repro" => {j \in own : ~reproduces(MergeReport, auditLog'[j].report)} = own
      BY <1>9, <1>c
    <2>3. QED
      BY <1>3, <1>5, <1>8, <1>c, <2>1, <2>2 DEF Compares
  <1>11. IsFirstVerdict(auditLog', n)
    <2>1. TargetIsDue(a, f)
      BY <1>1, <1>2 DEF TargetsAreDue
    <2>2. f \in 1..(n - 1) /\ auditLog'[f].type = "COMPLETED" /\ auditLog'[f].task = t
      BY <1>1, <1>6, <1>7, <2>1 DEF TargetIsDue
    <2>3. \A j \in 1..(n - 1) : auditLog'[j] = auditLog[j]
      BY <1>6, <1>7
    <2>4. \A j \in 1..(n - 1) : auditLog[j].task = t =>
             /\ ~(auditLog[j].type = "AUDIT_RESULT" /\ auditLog[j].sampled)
             /\ auditLog[j].type = "OOB_AUDIT_RESULT" => auditor[a].since < j
      BY <1>1, <1>7, <2>1 DEF TargetIsDue
    <2>5. auditLog'[n].task = t /\ auditLog'[n].since = auditor[a].since
      BY <1>3, <1>5
    <2>6. \E j \in 1..(n - 1) : auditLog'[j].type = "COMPLETED" /\ auditLog'[j].task = auditLog'[n].task
      BY <2>2, <2>5
    <2>7. \A j \in 1..(n - 1) : auditLog'[j].task = auditLog'[n].task =>
             /\ ~(auditLog'[j].type = "AUDIT_RESULT" /\ auditLog'[j].sampled)
             /\ auditLog'[j].type = "OOB_AUDIT_RESULT" => auditLog'[n].since < j
      BY <2>3, <2>4, <2>5
    <2>8. QED
      BY <2>6, <2>7 DEF IsFirstVerdict
  <1>12. QED
    BY <1>5, <1>10, <1>11 DEF VerdictHolds

\* A verdict that agrees with the results of the auditor keeps the invariant, and the
\* target is done with.
LEMMA ConcludeKeepsInv ==
    ASSUME OobInv, NEW a \in Auditors, auditor[a].targets # {}, NEW v \in Verdicts, Conclude(a, v),
           v = "reproduced" => /\ OwnResults(a, Target(a)) # {}
                               /\ \A j \in OwnResults(a, Target(a)) : ~Differs(j),
           v = "non_repro" => /\ Cardinality(OwnResults(a, Target(a))) = 2
                              /\ \A j \in OwnResults(a, Target(a)) : Differs(j)
    PROVE  OobInv'
  <1> DEFINE e == OobAuditResult(Target(a), a, v, auditor[a].since)
             r == <<e>>
             new == IF v = "non_repro" THEN AuditMoves(a, "escalate") ELSE Skip(a)
  <1>1. Target(a) \in Merged /\ auditor[a].since \in Nat /\ auditor \in [Auditors -> AuditorType]
    BY TargetsAreLogged DEF OobInv, OobTypes, AuditorType
  <1>2. e \in AuditRecords /\ e.type = "OOB_AUDIT_RESULT" /\ e.by = a
    BY <1>1, RecordFields
  <1>3. AuditStep(a, new, r) /\ auditLog' = auditLog \o <<e>> /\ auditor' = [auditor EXCEPT ![a] = new]
    BY DEF Conclude, AuditStep
  <1>4. auditor'[a] = new
    BY <1>1, <1>3
  <1>5. \A i \in DOMAIN auditLog' \ DOMAIN auditLog : VerdictHolds(auditLog', i)
    BY <1>3, VerdictIsEarned
  <1> HIDE DEF e
  <1>6. r \in Seq(AuditRecords) /\ \A k \in DOMAIN r : r[k] = e
    BY <1>2, SoleRecord
  <1>7. AuditorInv(a)' /\ new \in AuditorType
    <2>1. CASE v = "non_repro"
      <3>1. new = AuditMoves(a, "escalate") /\ auditLog' = auditLog \o r
        BY <1>3, <2>1
      <3> HIDE DEF new, r
      <3>2. QED
        BY <1>2, <1>4, <1>6, <3>1, AuditorMoveKeeps
    <2>2. CASE v # "non_repro"
      <3>1. new = Skip(a)
        BY <2>2
      <3> HIDE DEF new, r
      <3>2. QED
        BY <1>2, <1>3, <1>4, <3>1, SkipKeeps
    <2>3. QED
      BY <2>1, <2>2
  <1> HIDE DEF new, r
  <1>8. QED
    BY <1>2, <1>3, <1>5, <1>6, <1>7, AuditStepKeepsInv

\* Two results are two.
LEMMA TwoResults ==
    ASSUME NEW m, NEW n, m # n
    PROVE  Cardinality({m, n}) = 2
  <1>1. IsFiniteSet({m}) /\ Cardinality({m}) = 1
    BY FS_Singleton
  <1>2. Cardinality({m} \cup {n}) = 2
    BY <1>1, FS_AddElement
  <1>3. {m, n} = {m} \cup {n}
    OBVIOUS
  <1>4. QED
    BY <1>2, <1>3

\* An auditor at work has a target and the report its merge was authorised on.
LEMMA InHand ==
    ASSUME OobInv, NEW a \in Auditors, auditor[a].pc \notin {"down", "next"} \/ auditor[a].targets # {}
    PROVE  /\ auditor[a].targets # {} /\ Target(a) \in Merged /\ Original(a) = MergeReport
           /\ auditor[a].since \in Nat /\ auditor[a].since <= Len(auditLog)
           /\ auditor \in [Auditors -> AuditorType]
  <1>1. TargetsAreDue(a) /\ auditor \in [Auditors -> AuditorType]
    BY DEF OobInv, AuditorInv, OobTypes
  <1>2. auditor[a].targets # {}
    BY <1>1 DEF TargetsAreDue
  <1>3. /\ Foremost(auditor[a].targets) \in auditor[a].targets /\ Target(a) \in Merged
        /\ Target(a) = auditLog[Foremost(auditor[a].targets)].task
    BY <1>2, TargetsAreLogged
  <1>4. Original(a) = MergeReport
    BY <1>1, <1>3 DEF Original, TargetsAreDue, TargetIsDue
  <1>5. QED
    BY <1>1, <1>2, <1>3, <1>4 DEF TargetsAreDue, AuditorType

\* The verdicts of the auditor agree with its results, whatever others have logged.
LEMMA AuditorJudgeKeepsInv ==
    ASSUME OobInv, NEW a \in Auditors, JudgeFirst(a) \/ JudgeSecond(a)
    PROVE  OobInv'
  <1>1. /\ auditor[a].targets # {} /\ Original(a) = MergeReport /\ auditor \in [Auditors -> AuditorType]
    BY InHand DEF JudgeFirst, JudgeSecond
  <1> DEFINE own == OwnResults(a, Target(a))
             repro == reproduces(MergeReport, auditor[a].rerun)
  <1>2. CASE auditor[a].pc = "judge1" /\ Conclude(a, "flaky_suspect")
    <2>1. QED
      BY <1>1, <1>2, ConcludeKeepsInv DEF Verdicts
  <1>3. CASE auditor[a].pc = "judge1" /\ Conclude(a, "reproduced") /\ repro
    <2>1. PICK n \in DOMAIN auditLog : own = {n} /\ auditLog[n].report = auditor[a].rerun
      BY <1>3 DEF OobInv, AuditorInv, RerunsAreLogged
    <2>2. own # {} /\ \A j \in own : ~Differs(j)
      BY <1>3, <2>1 DEF Differs
    <2>3. QED
      BY <1>1, <1>3, <2>2, ConcludeKeepsInv DEF Verdicts
  <1>4. CASE auditor[a].pc = "judge1" /\ AuditStep(a, AuditMoves(a, "rerun2"), <<>>) /\ ~repro
    <2> DEFINE r == <<>>
    <2>1. auditLog' = auditLog \o r /\ r \in Seq(AuditRecords) /\ DOMAIN r = {}
          /\ auditor'[a] = AuditMoves(a, "rerun2")
      BY <1>1, <1>4, NothingLogged DEF AuditStep, OobInv
    <2> HIDE DEF r
    <2>2. AuditorInv(a)' /\ AuditMoves(a, "rerun2") \in AuditorType
      BY <1>1, <1>4, <2>1, AuditorMoveKeeps
    <2>3. QED
      BY <1>4, <2>2, QuietStepKeepsInv
  <1>5. CASE auditor[a].pc = "judge2" /\ Conclude(a, "flaky_suspect")
    BY <1>1, <1>5, ConcludeKeepsInv DEF Verdicts
  <1>6. CASE auditor[a].pc = "judge2" /\ Conclude(a, "non_repro") /\ ~repro
    <2>1. PICK m \in DOMAIN auditLog, n \in DOMAIN auditLog :
             own = {m, n} /\ m # n /\ Differs(m) /\ auditLog[n].report = auditor[a].rerun
      BY <1>6 DEF OobInv, AuditorInv, RerunsAreLogged
    <2>2. Cardinality(own) = 2
      BY <2>1, TwoResults
    <2>3. \A j \in own : Differs(j)
      BY <1>6, <2>1 DEF Differs
    <2>4. QED
      BY <1>1, <1>6, <2>2, <2>3, ConcludeKeepsInv DEF Verdicts
  <1>7. QED
    BY <1>1, <1>2, <1>3, <1>4, <1>5, <1>6 DEF JudgeFirst, JudgeSecond

\* A rerun logs its report before the auditor goes on.
LEMMA RerunKeepsInv ==
    ASSUME OobInv, NEW a \in Auditors, Rerun(a)
    PROVE  OobInv'
  <1>1. PICK report \in Reruns :
           AuditStep(a, [auditor[a] EXCEPT !.pc = IF @ = "rerun1" THEN "judge1" ELSE "judge2", !.rerun = report],
                     <<GateResult(Target(a), report, a)>>)
    BY DEF Rerun
  <1> DEFINE e == GateResult(Target(a), report, a)
             r == <<e>>
             pc == IF auditor[a].pc = "rerun1" THEN "judge1" ELSE "judge2"
             new == [auditor[a] EXCEPT !.pc = pc, !.rerun = report]
             n == Len(auditLog) + 1
  <1>2. /\ auditor[a].targets # {} /\ Target(a) \in Merged /\ auditor[a].since <= Len(auditLog)
        /\ auditor \in [Auditors -> AuditorType] /\ auditor[a].pc \in {"rerun1", "rerun2"}
    BY InHand DEF Rerun
  <1>3. AuditStep(a, new, r) /\ auditLog' = auditLog \o <<e>> /\ auditor' = [auditor EXCEPT ![a] = new]
    BY <1>1, <1>2 DEF AuditStep, AuditorType
  <1>4. report \in AuditReports
    BY DEF AuditReports
  <1>5. /\ e \in AuditRecords /\ e.type = "GATE_RESULT" /\ e.task = Target(a) /\ e.by = a /\ e.report = report
    BY <1>2, <1>4, RecordFields
  <1>6. /\ new \in AuditorType /\ auditor'[a] = new /\ new.pc = pc /\ new.targets = auditor[a].targets
        /\ new.since = auditor[a].since /\ new.originals = auditor[a].originals /\ new.rerun = report
    BY <1>2, <1>3, <1>4 DEF AuditorType
  <1>p. pc \in {"judge1", "judge2"} /\ (pc = "judge1" <=> auditor[a].pc = "rerun1")
    BY <1>2
  <1> HIDE DEF e, new, pc
  <1>7. r \in Seq(AuditRecords) /\ \A k \in DOMAIN r : r[k] = e
    BY <1>5, SoleRecord
  <1>8. auditLog' = auditLog \o r
    BY <1>3
  <1>9. n \in DOMAIN auditLog' /\ auditLog'[n] = e /\ \A j \in DOMAIN auditLog' : j \in DOMAIN auditLog \/ j = n
    BY <1>3, <1>5, AuditLogGrows DEF OobInv
  <1> HIDE DEF r
  <1>10. /\ Len(auditLog) \in Nat /\ DOMAIN auditLog = 1..Len(auditLog)
         /\ \A j \in DOMAIN auditLog : j \in DOMAIN auditLog' /\ auditLog'[j] = auditLog[j]
    BY <1>7, <1>8, AuditLogExtends DEF OobInv
  <1>11. n \notin DOMAIN auditLog
    BY <1>10
  <1>12. TargetsAreDue(a)'
    BY <1>2, <1>5, <1>6, <1>7, <1>8, TargetsKept
  <1>13. PICK t : t = Target(a)
    OBVIOUS
  <1>14. OwnResults(a, t)' = OwnResults(a, t) \cup {n}
    BY <1>2, <1>3, <1>5, <1>6, <1>13, OwnGrow
  <1>15. \A u : u # t => OwnResults(a, u)' = OwnResults(a, u)
    BY <1>5, <1>6, <1>7, <1>8, <1>13, OwnStay
  <1>16. /\ \A i \in auditor[a].targets : i \in DOMAIN auditLog
         /\ Foremost(auditor[a].targets) \in auditor[a].targets
         /\ t = auditLog[Foremost(auditor[a].targets)].task
    BY <1>2, <1>13, TargetsAreLogged
  <1>17. t = Target(a)'
    BY <1>6, <1>10, <1>16 DEF Target
  <1> HIDE DEF n
  <1>18. ASSUME NEW i \in auditor'[a].targets, Untouched(a, i)' PROVE OwnResults(a, auditLog[i].task)' = {}
    <2>1. PICK u : u = auditLog[i].task
      OBVIOUS
    <2>2. i \in auditor[a].targets /\ i # Foremost(auditor[a].targets)
      BY <1>6, <1>p, <1>18 DEF Untouched
    <2>3. u # t
      BY <1>16, <2>1, <2>2 DEF OobInv, AuditorInv, TargetsAreDue, TargetIsDue
    <2>4. OwnResults(a, u) = {}
      BY <2>1, <2>2 DEF OobInv, AuditorInv, RerunsAreLogged, Untouched
    <2>5. auditLog'[i].task = u
      BY <1>10, <1>16, <2>1, <2>2
    <2>6. QED
      BY <1>15, <2>3, <2>4, <2>5
  <1>19. pc = "judge1" => \E j \in DOMAIN auditLog' : OwnResults(a, t)' = {j} /\ auditLog'[j].report = auditor'[a].rerun
    <2>1. ASSUME pc = "judge1" PROVE OwnResults(a, t) = {}
      BY <1>p, <1>16, <2>1 DEF OobInv, AuditorInv, RerunsAreLogged, Untouched
    <2>2. QED
      BY <1>5, <1>6, <1>9, <1>14, <2>1
  <1>20. pc = "judge2" =>
            \E m, j \in DOMAIN auditLog' :
               OwnResults(a, t)' = {m, j} /\ m # j /\ Differs(m)' /\ auditLog'[j].report = auditor'[a].rerun
    <2>1. SUFFICES ASSUME pc = "judge2"
                   PROVE  \E m, j \in DOMAIN auditLog' :
                             /\ OwnResults(a, t)' = {m, j} /\ m # j /\ Differs(m)'
                             /\ auditLog'[j].report = auditor'[a].rerun
      OBVIOUS
    <2>2. PICK m \in DOMAIN auditLog : OwnResults(a, t) = {m} /\ Differs(m)
      BY <1>2, <1>p, <1>13, <2>1 DEF OobInv, AuditorInv, RerunsAreLogged
    <2>3. m \in DOMAIN auditLog' /\ m # n /\ Differs(m)' /\ OwnResults(a, t)' = {m, n}
      BY <1>10, <1>11, <1>14, <2>2 DEF Differs
    <2>4. QED
      BY <1>5, <1>6, <1>9, <2>3
  <1>21. RerunsAreLogged(a)'
    BY <1>6, <1>p, <1>17, <1>18, <1>19, <1>20 DEF RerunsAreLogged
  <1>22. \A i \in DOMAIN auditLog' \ DOMAIN auditLog : VerdictHolds(auditLog', i)
    BY <1>5, <1>9 DEF VerdictHolds
  <1>23. QED
    BY <1>3, <1>5, <1>6, <1>7, <1>12, <1>21, <1>22, AuditStepKeepsInv DEF AuditorInv, r

\* What an auditor reads of a completed task is the report its merge was authorised on.
LEMMA OriginalIsTheMerge ==
    ASSUME OobInv, NEW i \in DOMAIN auditLog, auditLog[i].type = "COMPLETED", auditLog[i].task \in Merged
    PROVE  lastT1Report(auditLog, auditLog[i].task) = MergeReport
  <1> DEFINE t == auditLog[i].task
             S == RecordsOf(auditLog, "EVIDENCE_AUTHORIZED", t)
  <1>1. auditLog \in Seq(AuditRecords) /\ DOMAIN auditLog = 1..Len(auditLog) /\ Len(auditLog) \in Nat
    BY DEF OobInv, OobTypes
  <1>2. S \in SUBSET (1..Len(auditLog)) /\ \A j \in S : auditLog[j].report = MergeReport
    BY <1>1 DEF RecordsOf, OobInv, MergesAreLogged
  <1>3. S # {}
    BY DEF RecordsOf, OobInv, MergesAreLogged
  <1> HIDE DEF S
  <1>4. \E j \in S : \A k \in S : k <= j
    BY <1>1, <1>2, <1>3, HasLast
  <1>5. (CHOOSE j \in S : \A k \in S : k <= j) \in S
    BY <1>4
  <1>6. lastT1Report(auditLog, t) = auditLog[CHOOSE j \in S : \A k \in S : k <= j].report
    BY <1>3 DEF lastT1Report, S
  <1>7. QED
    BY <1>2, <1>5, <1>6

\* The report an auditor starts from is one of those in the log.
LEMMA lastT1ReportType ==
    ASSUME OobInv, NEW t \in Merged
    PROVE  lastT1Report(auditLog, t) \in AuditReports
  <1>1. auditLog \in Seq(AuditRecords) /\ DOMAIN auditLog = 1..Len(auditLog) /\ Len(auditLog) \in Nat
    BY DEF OobInv, OobTypes
  <1>2. \A i \in DOMAIN auditLog : auditLog[i].report \in AuditReports
    <2>1. \A i \in DOMAIN auditLog : auditLog[i] \in AuditRecords
      BY <1>1
    <2>2. QED
      BY <2>1 DEF AuditRecords
  <1>3. ASSUME NEW S \in SUBSET DOMAIN auditLog, S # {}
        PROVE  auditLog[CHOOSE j \in S : \A k \in S : k <= j].report \in AuditReports
    <2>1. \E j \in S : \A k \in S : k <= j
      BY <1>1, <1>3, HasLast
    <2>2. QED
      BY <1>2, <2>1
  <1>4. \A type : RecordsOf(auditLog, type, t) \in SUBSET DOMAIN auditLog
    BY DEF RecordsOf
  <1>5. NoReport \in AuditReports
    BY DEF AuditReports
  <1>6. QED
    BY <1>3, <1>4, <1>5 DEF lastT1Report

\* An auditor that starts has targets that are due, and no results yet.
LEMMA StartKeepsInv ==
    ASSUME OobInv, NEW a \in Auditors, runOobAudit(a)
    PROVE  OobInv'
  <1>1. PICK rate \in Rates :
           AuditStep(a, [pc |-> "next", since |-> Len(auditLog),
                         originals |-> [t \in Merged |-> lastT1Report(auditLog, t)],
                         targets |-> selectAuditTargets(auditLog, rate), rerun |-> NoReport], <<>>)
    BY DEF runOobAudit
  <1> DEFINE originals == [t \in Merged |-> lastT1Report(auditLog, t)]
             targets == selectAuditTargets(auditLog, rate)
             new == [pc |-> "next", since |-> Len(auditLog), originals |-> originals, targets |-> targets,
                     rerun |-> NoReport]
  <1>2. /\ auditLog \in Seq(AuditRecords) /\ DOMAIN auditLog = 1..Len(auditLog) /\ Len(auditLog) \in Nat
        /\ auditor \in [Auditors -> AuditorType]
    BY DEF OobInv, OobTypes
  <1>3. \A i \in DOMAIN auditLog : auditLog[i].task \in Merged
    <2>1. \A i \in DOMAIN auditLog : auditLog[i] \in AuditRecords
      BY <1>2
    <2>2. QED
      BY <2>1 DEF AuditRecords
  <1>4. auditLog' = auditLog /\ auditor' = [auditor EXCEPT ![a] = new] /\ AuditStep(a, new, <<>>)
    BY <1>1, NothingLogged DEF AuditStep, OobInv
  <1>5. originals \in [Merged -> AuditReports] /\ \A t \in Merged : originals[t] = lastT1Report(auditLog, t)
    BY lastT1ReportType
  <1>6. targets \in SUBSET Nat
    BY <1>2 DEF selectAuditTargets
  <1>7. ASSUME NEW i \in targets
        PROVE  /\ i \in DOMAIN auditLog /\ auditLog[i].type = "COMPLETED" /\ auditLog[i].task \in Merged
               /\ originals[auditLog[i].task] = MergeReport
               /\ \A j \in DOMAIN auditLog : auditLog[j].task = auditLog[i].task =>
                     /\ ~(auditLog[j].type = "AUDIT_RESULT" /\ auditLog[j].sampled)
                     /\ auditLog[j].type # "OOB_AUDIT_RESULT"
               /\ \A k \in targets : auditLog[k].task = auditLog[i].task => k = i
    <2>1. i \in DOMAIN auditLog /\ auditLog[i].type = "COMPLETED" /\ auditLog[i].task \in Merged
      BY <1>3, <1>7 DEF selectAuditTargets
    <2>2. originals[auditLog[i].task] = MergeReport
      BY <1>5, <2>1, OriginalIsTheMerge
    <2>3. auditLog[i].task \notin computeAlreadyAudited(auditLog)
      BY <1>7 DEF selectAuditTargets
    <2>4. \A j \in DOMAIN auditLog : auditLog[j].task = auditLog[i].task =>
             /\ ~(auditLog[j].type = "AUDIT_RESULT" /\ auditLog[j].sampled)
             /\ auditLog[j].type # "OOB_AUDIT_RESULT"
      BY <2>1, <2>3 DEF computeAlreadyAudited, RecordsOf
    <2>5. ASSUME NEW k \in targets, auditLog[k].task = auditLog[i].task PROVE k = i
      <3>1. k \in DOMAIN auditLog /\ i \in DOMAIN auditLog /\ i <= k /\ k <= i
        BY <1>7, <2>5 DEF selectAuditTargets, RecordsOf
      <3>2. QED
        BY <1>2, <3>1
    <2>6. QED
      BY <2>1, <2>2, <2>4, <2>5
  <1> HIDE DEF originals, targets
  <1>8. /\ new \in AuditorType /\ auditor'[a] = new /\ new.pc = "next" /\ new.since = Len(auditLog)
        /\ new.originals = originals /\ new.targets = targets
    BY <1>2, <1>4, <1>5, <1>6 DEF AuditorType, AuditReports
  <1> HIDE DEF new
  <1>9. TargetsAreDue(a)'
    BY <1>2, <1>4, <1>7, <1>8 DEF TargetsAreDue, TargetIsDue
  <1>10. \A t : OwnResults(a, t)' = {}
    BY <1>2, <1>4, <1>8 DEF OwnResults
  <1>11. RerunsAreLogged(a)'
    BY <1>8, <1>10 DEF RerunsAreLogged
  <1>12. QED
    BY <1>4, <1>8, <1>9, <1>11, QuietStepKeepsInv DEF AuditorInv

\* One that stops has none.
LEMMA StopKeepsInv ==
    ASSUME OobInv, NEW a \in Auditors, NoTargetLeft(a) \/ AuditorStops(a)
    PROVE  OobInv'
  <1>1. AuditStep(a, NoAudit, <<>>)
    BY DEF NoTargetLeft, AuditorStops
  <1>2. auditLog' = auditLog /\ auditor' = [auditor EXCEPT ![a] = NoAudit] /\ auditor \in [Auditors -> AuditorType]
    BY <1>1, NothingLogged DEF AuditStep, OobInv, OobTypes
  <1>3. NoAudit \in AuditorType /\ auditor'[a] = NoAudit /\ NoAudit.pc = "down" /\ NoAudit.targets = {} /\ NoAudit.since = 0
    BY <1>2 DEF NoAudit, AuditorType, AuditReports
  <1>4. TargetsAreDue(a)' /\ RerunsAreLogged(a)'
    <2>1. Len(auditLog) \in Nat
      BY DEF OobInv, OobTypes
    <2>2. QED
      BY <1>2, <1>3, <2>1 DEF TargetsAreDue, RerunsAreLogged
  <1>5. QED
    BY <1>1, <1>3, <1>4, QuietStepKeepsInv DEF AuditorInv

\* A target that is given up, or whose verdict has been escalated.
LEMMA GivenUpKeepsInv ==
    ASSUME OobInv, NEW a \in Auditors, auditor[a].targets # {}, NEW type \in {"ESCALATED", "ERROR"},
           AuditStep(a, Skip(a), <<Record(type, Target(a), a)>>)
    PROVE  OobInv'
  <1> DEFINE e == Record(type, Target(a), a)
             r == <<e>>
  <1>1. Target(a) \in Merged /\ auditor \in [Auditors -> AuditorType]
    BY TargetsAreLogged DEF OobInv, OobTypes
  <1>2. e \in AuditRecords /\ e.type = type /\ e.by = a
    BY <1>1, RecordFields
  <1> HIDE DEF e
  <1>3. auditLog' = auditLog \o <<e>> /\ auditor'[a] = Skip(a) /\ AuditStep(a, Skip(a), r)
    BY <1>1 DEF AuditStep, e
  <1>4. AuditorInv(a)' /\ Skip(a) \in AuditorType
    BY <1>2, <1>3, SkipKeeps
  <1>5. r \in Seq(AuditRecords) /\ \A k \in DOMAIN r : r[k] = e
    BY <1>2, SoleRecord
  <1>6. \A i \in DOMAIN auditLog' \ DOMAIN auditLog : VerdictHolds(auditLog', i)
    BY <1>2, <1>3, AuditLogGrows DEF OobInv, VerdictHolds
  <1> HIDE DEF r
  <1>7. QED
    BY <1>2, <1>3, <1>4, <1>5, <1>6, AuditStepKeepsInv

\* Verifying and cloning change nothing but the place.
LEMMA GoOnKeepsInv ==
    ASSUME OobInv, NEW a \in Auditors, NEW pc \in {"clone", "reclone", "rerun1"},
           auditor[a].pc \in {"next", "clone", "reclone"}, auditor[a].targets # {},
           AuditStep(a, AuditMoves(a, pc), <<>>)
    PROVE  OobInv'
  <1> DEFINE r == <<>>
  <1>1. auditLog' = auditLog \o r /\ r \in Seq(AuditRecords) /\ DOMAIN r = {} /\ auditor \in [Auditors -> AuditorType]
        /\ auditor' = [auditor EXCEPT ![a] = AuditMoves(a, pc)]
    BY NothingLogged DEF AuditStep, OobInv, OobTypes
  <1>2. auditor'[a] = AuditMoves(a, pc)
    BY <1>1
  <1> HIDE DEF r
  <1>3. AuditorInv(a)' /\ AuditMoves(a, pc) \in AuditorType
    BY <1>1, <1>2, AuditorMoveKeeps
  <1>4. QED
    BY <1>3, QuietStepKeepsInv

\* A target that is given up is logged as an escalation or an error, not as a verdict.
LEMMA AuditorKeepsInv ==
    ASSUME OobInv, NEW a \in Auditors,
           EvidenceFails(a) \/ verifyOriginal(a) \/ CloneFails(a) \/ cloneAtCommit(a) \/ EscalateMismatch(a)
    PROVE  OobInv'
  <1>1. CASE EvidenceFails(a)
    BY <1>1, GivenUpKeepsInv DEF EvidenceFails
  <1>2. CASE verifyOriginal(a)
    BY <1>2, GoOnKeepsInv DEF verifyOriginal
  <1>3. CASE CloneFails(a)
    <2>1. auditor[a].targets # {} /\ auditor[a].pc \in {"clone", "reclone"}
      BY <1>3, InHand DEF CloneFails
    <2>2. CASE auditor[a].pc = "clone"
      BY <1>3, <2>1, <2>2, GoOnKeepsInv DEF CloneFails
    <2>3. CASE auditor[a].pc # "clone"
      BY <1>3, <2>1, <2>3, GivenUpKeepsInv DEF CloneFails
    <2>4. QED
      BY <2>2, <2>3
  <1>4. CASE cloneAtCommit(a)
    <2>1. auditor[a].targets # {}
      BY <1>4, InHand DEF cloneAtCommit
    <2>2. QED
      BY <1>4, <2>1, GoOnKeepsInv DEF cloneAtCommit
  <1>5. CASE EscalateMismatch(a)
    <2>1. auditor[a].targets # {}
      BY <1>5, InHand DEF EscalateMismatch
    <2>2. QED
      BY <1>5, <2>1, GivenUpKeepsInv DEF EscalateMismatch
  <1>6. QED
    BY <1>1, <1>2, <1>3, <1>4, <1>5

\* What is not about the log, a merge or an auditor does not matter.
LEMMA SameAudits ==
    ASSUME OobInv, UNCHANGED <<auditLog, merging, auditor>>
    PROVE  OobInv'
  <1>1. \A a \in Auditors : TargetsAreDue(a)'
    BY DEF OobInv, AuditorInv, TargetsAreDue, TargetIsDue
  <1>2. \A a \in Auditors : RerunsAreLogged(a)'
    BY DEF OobInv, AuditorInv, RerunsAreLogged, OwnResults, Untouched, Differs, Target
  <1>3. QED
    BY <1>1, <1>2 DEF OobInv, OobTypes, MergesAreLogged, AuditorInv

\* What the run logs is no verdict, and it authorises one report only.
LEMMA MergesKeepInv ==
    ASSUME OobInv, NEW t \in Merged,
           \/ GatePasses(t) \/ MergeAuthorised(t) \/ NotSampled(t) \/ SampledInBand(t) \/ Completed(t) \/ BindingBreaks(t)
    PROVE  OobInv'
  <1>0. "run" \in Auditors \cup {"run"} /\ MergeReport \in AuditReports /\ Reruns \subseteq AuditReports
    BY DEF AuditReports
  <1>1. CASE GatePasses(t)
    <2> DEFINE e == GateResult(t, MergeReport, "run")
               r == <<e>>
    <2>1. e \in AuditRecords /\ e.type = "GATE_RESULT" /\ e.task = t
      BY <1>0, RecordFields
    <2>2. MergeStep(t, "gating", "gated", r)
      BY <1>1 DEF GatePasses
    <2> HIDE DEF e
    <2>3. r \in Seq(AuditRecords) /\ \A k \in DOMAIN r : r[k] = e
      BY <2>1, SoleRecord
    <2> HIDE DEF r
    <2>4. QED
      BY <2>1, <2>2, <2>3, MergeStepKeepsInv
  <1>2. CASE MergeAuthorised(t)
    <2> DEFINE e == EvidenceAuthorized(t, MergeReport)
               r == <<e>>
    <2>1. e \in AuditRecords /\ e.type = "EVIDENCE_AUTHORIZED" /\ e.task = t /\ e.report = MergeReport
      BY <1>0, RecordFields
    <2>2. MergeStep(t, "gated", "authorised", r)
      BY <1>2 DEF MergeAuthorised
    <2> HIDE DEF e
    <2>3. r \in Seq(AuditRecords) /\ DOMAIN r = {1} /\ \A k \in DOMAIN r : r[k] = e
      BY <2>1, SoleRecord
    <2> HIDE DEF r
    <2>4. QED
      BY <2>1, <2>2, <2>3, MergeStepKeepsInv
  <1>3. CASE NotSampled(t)
    <2> DEFINE e == AuditResult(t, FALSE)
               r == <<e>>
    <2>1. e \in AuditRecords /\ e.type = "AUDIT_RESULT" /\ e.task = t
      BY <1>0, RecordFields
    <2>2. MergeStep(t, "authorised", "audited", r)
      BY <1>3 DEF NotSampled
    <2> HIDE DEF e
    <2>3. r \in Seq(AuditRecords) /\ \A k \in DOMAIN r : r[k] = e
      BY <2>1, SoleRecord
    <2> HIDE DEF r
    <2>4. QED
      BY <2>1, <2>2, <2>3, MergeStepKeepsInv
  <1>4. CASE SampledInBand(t)
    <2>1. PICK report \in Reruns :
             MergeStep(t, "authorised", IF reproduces(MergeReport, report) THEN "audited" ELSE "reverted",
                       <<GateResult(t, report, "run"), AuditResult(t, TRUE)>>)
      BY <1>4 DEF SampledInBand
    <2> DEFINE e == GateResult(t, report, "run")
               f == AuditResult(t, TRUE)
               r == <<e, f>>
               to == IF reproduces(MergeReport, report) THEN "audited" ELSE "reverted"
    <2>2. /\ e \in AuditRecords /\ e.type = "GATE_RESULT" /\ e.task = t
          /\ f \in AuditRecords /\ f.type = "AUDIT_RESULT" /\ f.task = t
      <3>1. report \in AuditReports /\ TRUE \in BOOLEAN
        BY <1>0
      <3>2. e \in AuditRecords /\ e.type = "GATE_RESULT" /\ e.task = t
        BY <1>0, <3>1, RecordFields
      <3>3. f \in AuditRecords /\ f.type = "AUDIT_RESULT" /\ f.task = t
        BY <1>0, <3>1, RecordFields
      <3>4. QED
        BY <3>2, <3>3
    <2>3. MergeStep(t, "authorised", to, r) /\ to \in {"audited", "reverted"}
      BY <2>1
    <2> HIDE DEF e, f, to
    <2>4. r \in Seq(AuditRecords) /\ \A k \in DOMAIN r : r[k] = e \/ r[k] = f
      BY <2>2
    <2> HIDE DEF r
    <2>5. QED
      BY <2>2, <2>3, <2>4, MergeStepKeepsInv
  <1>5. CASE Completed(t)
    <2> DEFINE e == Record("COMPLETED", t, "run")
               r == <<e>>
    <2>1. e \in AuditRecords /\ e.type = "COMPLETED" /\ e.task = t
      BY <1>0, RecordFields
    <2>2. MergeStep(t, "audited", "completed", r)
      BY <1>5 DEF Completed
    <2> HIDE DEF e
    <2>3. r \in Seq(AuditRecords) /\ \A k \in DOMAIN r : r[k] = e
      BY <2>1, SoleRecord
    <2> HIDE DEF r
    <2>4. QED
      BY <2>1, <2>2, <2>3, MergeStepKeepsInv
  <1>6. CASE BindingBreaks(t)
    BY <1>6, SameAudits DEF BindingBreaks
  <1>7. QED
    BY <1>1, <1>2, <1>3, <1>4, <1>5, <1>6

\* Before the first merge nobody audits.
LEMMA AuditStarts == OobInit => OobInv
  <1> SUFFICES ASSUME OobInit PROVE OobInv
    OBVIOUS
  <1>1. /\ NoAudit \in AuditorType /\ NoAudit.pc = "down" /\ NoAudit.targets = {} /\ NoAudit.since = 0
    BY DEF NoAudit, AuditorType, AuditReports
  <1>2. auditLog = <<>> /\ Len(auditLog) = 0 /\ DOMAIN auditLog = {} /\ auditLog \in Seq(AuditRecords)
    BY DEF OobInit
  <1>3. \A a \in Auditors : auditor[a] = NoAudit
    BY DEF OobInit
  <1>4. OobTypes
    <2>1. merging \in [Merged -> {"gating", "gated", "authorised", "audited", "reverted", "completed"}]
      BY DEF OobInit
    <2>2. auditor \in [Auditors -> AuditorType]
      BY <1>1 DEF OobInit
    <2>3. QED
      BY <1>2, <2>1, <2>2 DEF OobTypes
  <1>5. MergesAreLogged
    BY <1>2 DEF OobInit, MergesAreLogged
  <1>6. \A a \in Auditors : AuditorInv(a)
    BY <1>1, <1>2, <1>3 DEF AuditorInv, TargetsAreDue, RerunsAreLogged
  <1>7. QED
    BY <1>2, <1>4, <1>5, <1>6 DEF OobInv

\* Each step of the merges and of the auditors keeps it.
THEOREM AuditStepInv == OobInv /\ [OobNext]_oobVars => OobInv'
  <1> SUFFICES ASSUME OobInv, [OobNext]_oobVars PROVE OobInv'
    OBVIOUS
  <1>1. CASE UNCHANGED oobVars
    BY <1>1, SameAudits DEF oobVars
  <1>2. CASE OobNext
    BY <1>2, MergesKeepInv, StartKeepsInv, StopKeepsInv, AuditorKeepsInv, RerunKeepsInv, AuditorJudgeKeepsInv DEF OobNext
  <1>3. QED
    BY <1>1, <1>2

(* AuditsAreTrue: a verdict says how the merge compares with its own report,   *)
(* and a task is audited once, for any tasks, reruns and number of auditors.   *)
\* (lastT1ReportByTask, computeAlreadyAudited, runOobAudit.)
THEOREM AuditsHold == OobSpec => []AuditsAreTrue
  <1>1. OobInv => AuditsAreTrue
    BY VerdictsAreTrue DEF OobInv
  <1>2. QED
    BY <1>1, AuditStarts, AuditStepInv, PTL DEF OobSpec

\* What the audit keeps besides: bindings are of merges, the bound on cycles, and a
\* rerun in hand is one of the clone's.
AuditLimits ==
    /\ bound \subseteq Merged /\ cycles \in 0..MaxCycles
    /\ \A a \in Auditors : auditor[a].rerun \in Reruns \cup {NoReport}

\* Nobody audits at first.
LEMMA LimitsStart == OobInit => AuditLimits
  BY OobAssumption DEF OobInit, AuditLimits, NoAudit

\* An auditor's record after a step of its own.
LEMMA AuditorRerun ==
    ASSUME OobTypes, AuditLimits, NEW a \in Auditors, NEW new, NEW records, AuditStep(a, new, records),
           new.rerun \in Reruns \cup {NoReport}
    PROVE  bound' = bound /\ \A b \in Auditors : auditor'[b].rerun \in Reruns \cup {NoReport}
  BY DEF OobTypes, AuditLimits, AuditStep

\* Moving on keeps the rerun, skipping drops it.
LEMMA MovedRerun ==
    ASSUME OobTypes, NEW a \in Auditors
    PROVE  /\ \A pc : AuditMoves(a, pc).rerun = auditor[a].rerun
           /\ Skip(a).rerun = NoReport /\ NoAudit.rerun = NoReport
  <1>1. auditor[a] \in AuditorType
    BY DEF OobTypes
  <1>2. QED
    BY <1>1 DEF AuditorType, AuditMoves, Skip, NoAudit

\* No step of a merge or of an auditor leaves the limits.
LEMMA LimitsStep == OobInv /\ AuditLimits /\ [OobNext]_oobVars => AuditLimits'
  <1> SUFFICES ASSUME OobInv, AuditLimits, [OobNext]_oobVars PROVE AuditLimits'
    OBVIOUS
  <1>0. OobTypes
    BY DEF OobInv
  <1>1. CASE UNCHANGED oobVars
    BY <1>1 DEF oobVars, AuditLimits
  <1>2. ASSUME NEW t \in Merged,
               \/ GatePasses(t) \/ MergeAuthorised(t) \/ NotSampled(t) \/ SampledInBand(t) \/ Completed(t)
               \/ BindingBreaks(t)
        PROVE  AuditLimits'
    <2>1. UNCHANGED <<auditor, cycles>> /\ bound' \subseteq bound
      BY <1>2 DEF GatePasses, MergeAuthorised, NotSampled, SampledInBand, Completed, BindingBreaks, MergeStep
    <2>2. QED
      BY <2>1 DEF AuditLimits
  <1>3. ASSUME NEW a \in Auditors, NEW new, NEW records, AuditStep(a, new, records),
               new.rerun \in Reruns \cup {NoReport}, cycles' \in 0..MaxCycles
        PROVE  AuditLimits'
    BY <1>0, <1>3, AuditorRerun DEF AuditLimits
  <1>4. ASSUME NEW a \in Auditors, runOobAudit(a) PROVE AuditLimits'
    <2>1. PICK rate \in Rates :
             AuditStep(a, [pc |-> "next", since |-> Len(auditLog),
                           originals |-> [t \in Merged |-> lastT1Report(auditLog, t)],
                           targets |-> selectAuditTargets(auditLog, rate), rerun |-> NoReport], <<>>)
      BY <1>4 DEF runOobAudit
    <2>2. cycles' \in 0..MaxCycles
      BY <1>4, OobAssumption DEF runOobAudit, AuditLimits
    <2>3. QED
      BY <1>3, <2>1, <2>2
  <1>5. ASSUME NEW a \in Auditors, Rerun(a) PROVE AuditLimits'
    <2>1. PICK r \in Reruns :
             AuditStep(a, [auditor[a] EXCEPT !.pc = IF @ = "rerun1" THEN "judge1" ELSE "judge2", !.rerun = r],
                       <<GateResult(Target(a), r, a)>>)
      BY <1>5 DEF Rerun
    <2>2. [auditor[a] EXCEPT !.pc = IF @ = "rerun1" THEN "judge1" ELSE "judge2", !.rerun = r].rerun = r
      BY <1>0 DEF OobTypes, AuditorType
    <2>3. cycles' \in 0..MaxCycles
      BY <1>5 DEF Rerun, AuditLimits
    <2>4. QED
      BY <1>3, <2>1, <2>2, <2>3
  <1>6. ASSUME NEW a \in Auditors,
               \/ NoTargetLeft(a) \/ EvidenceFails(a) \/ verifyOriginal(a) \/ CloneFails(a) \/ cloneAtCommit(a)
               \/ JudgeFirst(a) \/ JudgeSecond(a) \/ EscalateMismatch(a) \/ AuditorStops(a)
        PROVE  AuditLimits'
    <2>1. \E new, records :
             /\ AuditStep(a, new, records)
             /\ new \in {NoAudit, Skip(a)} \/ \E pc : new = AuditMoves(a, pc)
      BY <1>6 DEF NoTargetLeft, EvidenceFails, verifyOriginal, CloneFails, cloneAtCommit, JudgeFirst, JudgeSecond,
                  EscalateMismatch, AuditorStops, Conclude
    <2>2. cycles' \in 0..MaxCycles
      BY <1>6 DEF NoTargetLeft, EvidenceFails, verifyOriginal, CloneFails, cloneAtCommit, JudgeFirst, JudgeSecond,
                  EscalateMismatch, AuditorStops, AuditLimits
    <2>3. auditor[a].rerun \in Reruns \cup {NoReport}
      BY DEF AuditLimits
    <2>4. QED
      BY <1>0, <1>3, <2>1, <2>2, <2>3, MovedRerun
  <1>7. QED
    BY <1>1, <1>2, <1>4, <1>5, <1>6 DEF OobNext

\* OobTypeOK (OobAudit): log, merges and auditors, the due targets read from the log.
LEMMA AuditTypes == OobInv /\ AuditLimits => OobTypeOK
  <1> SUFFICES ASSUME OobInv, AuditLimits PROVE OobTypeOK
    OBVIOUS
  <1>1. \A i \in DOMAIN auditLog : auditLog[i].task \in Merged
    <2>1. \A i \in DOMAIN auditLog : auditLog[i] \in AuditRecords
      BY DEF OobInv, OobTypes
    <2>2. \A r \in AuditRecords : r.task \in Merged
      BY DEF AuditRecords
    <2>3. QED
      BY <2>1, <2>2
  <1>2. ASSUME NEW a \in Auditors
        PROVE  /\ auditor[a].pc \in {"down", "next", "clone", "reclone", "rerun1", "judge1", "rerun2",
                                     "judge2", "escalate"}
               /\ auditor[a].originals \in [Merged -> Reruns \cup {MergeReport, NoReport}]
               /\ auditor[a].rerun \in Reruns \cup {NoReport}
               /\ auditor[a].since \in 0..Len(auditLog) /\ auditor[a].targets \subseteq 1..auditor[a].since
    <2>1. auditor[a] \in AuditorType /\ Len(auditLog) \in Nat
      BY DEF OobInv, OobTypes
    <2>2. auditor[a].since <= Len(auditLog) /\ \A i \in auditor[a].targets : i \in 1..auditor[a].since
      BY DEF OobInv, AuditorInv, TargetsAreDue, TargetIsDue
    <2>3. QED
      BY <2>1, <2>2 DEF AuditorType, AuditReports, AuditLimits
  <1>3. QED
    BY <1>1, <1>2 DEF OobTypeOK, OobInv, OobTypes, AuditLimits
-------------------------------------------------------------------------------
(* RecordsAreTrue: what a run is judged by afterwards, the published reports   *)
(* and the verdicts of the audits, is true for any ladder, task and auditor.   *)
\* (runTier, createRedArtifactStore, runOobAudit.)
THEOREM RecordsHold == GateSpec /\ OobSpec => []RecordsAreTrue
  <1>1. EvidenceIsTrue /\ AuditsAreTrue => RecordsAreTrue
    BY DEF RecordsAreTrue
  <1>2. QED
    BY <1>1, GateEvidence, AuditsHold, PTL

===============================================================================
