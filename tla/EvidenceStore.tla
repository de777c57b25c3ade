---------------------------- MODULE EvidenceStore ----------------------------
(***************************************************************************)
(* The files a run's evidence rests on: the content-addressed blobs of     *)
(* core/src/evidence/store.ts and the signing material that                *)
(* openEvidenceAuthenticator of evidence/auth.ts makes once and reads back *)
(* on recovery.  Several processes use one run directory; a process may    *)
(* end between any two of its writes.  One blob address stands for all.    *)
(***************************************************************************)
EXTENDS Naturals, FiniteSets

CONSTANTS
    Openers,        \* processes; each generates a key pair of its own
    MaxMishaps      \* bound: crashes, and what people do to the files

ASSUME OpenersAssumption == "no key" \notin Openers
ASSUME MishapsAssumption == MaxMishaps \in Nat

VARIABLES
    blob,           \* the file at the address, and whether it is a regular file
    signing,        \* private key, metadata, their modes, the directory
    opener,         \* process -> where it stands, what its last call returned
    storeMishaps

storeVars == <<blob, signing, opener, storeMishaps>>

NoKey == "no key"
Key == Openers \cup {NoKey}
Results ==
    {"none", "stored", "existing_blob_mismatch", "missing_blob", "bytes", "hash_mismatch",
     "private_key_inside_worktree", "auth_already_initialized", "EEXIST", "opened",
     "signing_key_missing", "run_metadata_missing", "signing_key_permissions_mismatch",
     "run_metadata_permissions_mismatch", "signing_key_mismatch"}
Resting == [at |-> "idle", public |-> NoKey, private |-> NoKey, result |-> "none"]

StoreInit ==
    /\ blob = "absent"
    /\ signing = [dir |-> FALSE, private |-> NoKey, public |-> NoKey, privateMode |-> TRUE,
                  publicMode |-> TRUE]
    /\ opener = [p \in Openers |-> Resting]
    /\ storeMishaps = 0

OpenerGets(p, r) == opener' = [opener EXCEPT ![p] = [@ EXCEPT !.at = "idle", !.result = r]]

------------------------------------------------------------------------------
(* Blobs *)

(* put: the exclusive create makes the name, the bytes follow.  Who finds  *)
(* the name taken compares what is there with its own bytes.               *)
PutCreates(p) ==
    /\ opener[p].at = "idle" /\ blob = "absent"
    /\ blob' = "partial"
    /\ opener' = [opener EXCEPT ![p].at = "writing"]
    /\ UNCHANGED <<signing, storeMishaps>>

PutWrites(p) ==
    /\ opener[p].at = "writing"
    /\ blob' = IF blob = "partial" THEN "whole" ELSE blob
    /\ OpenerGets(p, "stored")
    /\ UNCHANGED <<signing, storeMishaps>>

PutFindsExisting(p) ==
    /\ opener[p].at = "idle" /\ blob # "absent"
    /\ OpenerGets(p, IF blob = "whole" THEN "stored" ELSE "existing_blob_mismatch")
    /\ UNCHANGED <<blob, signing, storeMishaps>>

get(p) ==
    /\ opener[p].at = "idle"
    /\ OpenerGets(p, CASE blob = "absent" -> "missing_blob"
                   [] blob = "whole" -> "bytes"
                   [] OTHER -> "hash_mismatch")
    /\ UNCHANGED <<blob, signing, storeMishaps>>

------------------------------------------------------------------------------
(* The signing key of the run *)

(* A new run: nothing may be there; the check is not the write.            *)
OpenNew(p, keyInWorktree) ==
    /\ opener[p].at = "idle"
    /\ CASE keyInWorktree -> OpenerGets(p, "private_key_inside_worktree") /\ UNCHANGED signing
         [] ~keyInWorktree /\ (signing.public # NoKey \/ signing.private # NoKey) ->
              /\ OpenerGets(p, "auth_already_initialized")
              /\ signing' = IF signing.public # NoKey THEN signing ELSE [signing EXCEPT !.dir = TRUE]
         [] OTHER -> /\ opener' = [opener EXCEPT ![p].at = "private"]
                     /\ signing' = [signing EXCEPT !.dir = TRUE]
    /\ UNCHANGED <<blob, storeMishaps>>

WritePrivateKey(p) ==
    /\ opener[p].at = "private"
    /\ IF signing.private = NoKey
       THEN /\ signing' = [signing EXCEPT !.private = p, !.privateMode = TRUE]
            /\ opener' = [opener EXCEPT ![p].at = "metadata"]
       ELSE OpenerGets(p, "EEXIST") /\ UNCHANGED signing
    /\ UNCHANGED <<blob, storeMishaps>>

buildAuthenticator(p, public, private) ==
    opener' = [opener EXCEPT ![p] = [at |-> "idle", public |-> public, private |-> private,
                                     result |-> "opened"]]

WriteMetadata(p) ==
    /\ opener[p].at = "metadata"
    /\ IF signing.public = NoKey
       THEN /\ signing' = [signing EXCEPT !.public = p, !.publicMode = TRUE]
            /\ buildAuthenticator(p, p, p)
       ELSE OpenerGets(p, "EEXIST") /\ UNCHANGED signing
    /\ UNCHANGED <<blob, storeMishaps>>

(* defect: a private key is recovered without comparing it to the metadata *)
RecoveryUnmatched(keyInWorktree) ==
    IF keyInWorktree THEN "private_key_inside_worktree"
    ELSE IF ~signing.dir \/ signing.private = NoKey THEN "signing_key_missing"
    ELSE IF signing.public = NoKey THEN "run_metadata_missing"
    ELSE IF ~signing.privateMode THEN "signing_key_permissions_mismatch"
    ELSE IF ~signing.publicMode THEN "run_metadata_permissions_mismatch"
    ELSE "none"

(* A recovering run reads both back, and refuses what does not fit.        *)
RecoveryRefusal(keyInWorktree) ==
    IF keyInWorktree THEN "private_key_inside_worktree"
    ELSE IF ~signing.dir \/ signing.private = NoKey THEN "signing_key_missing"
    ELSE IF signing.public = NoKey THEN "run_metadata_missing"
    ELSE IF ~signing.privateMode THEN "signing_key_permissions_mismatch"
    ELSE IF ~signing.publicMode THEN "run_metadata_permissions_mismatch"
    ELSE IF signing.private # signing.public THEN "signing_key_mismatch" ELSE "none"

OpenRecovering(p, keyInWorktree) ==
    /\ opener[p].at = "idle"
    /\ IF RecoveryRefusal(keyInWorktree) = "none"
       THEN buildAuthenticator(p, signing.public, signing.private)
       ELSE OpenerGets(p, RecoveryRefusal(keyInWorktree))
    /\ UNCHANGED <<blob, signing, storeMishaps>>

------------------------------------------------------------------------------
(* What else happens to the files *)

Mishap == storeMishaps < MaxMishaps /\ storeMishaps' = storeMishaps + 1

StoreCrash(p) ==
    /\ Mishap
    /\ opener' = [opener EXCEPT ![p] = Resting]
    /\ UNCHANGED <<blob, signing>>

BlobDamaged ==
    /\ Mishap
    /\ blob' \in {"absent", "damaged"}
    /\ UNCHANGED <<signing, opener>>

PrivateKeyRemoved ==
    /\ Mishap
    /\ signing' = [signing EXCEPT !.private = NoKey]
    /\ UNCHANGED <<blob, opener>>

ModesChanged ==
    /\ Mishap
    /\ \E private, public \in BOOLEAN :
          signing' = [signing EXCEPT !.privateMode = private, !.publicMode = public]
    /\ UNCHANGED <<blob, opener>>

StoreNext ==
    \/ \E p \in Openers :
          \/ PutCreates(p) \/ PutWrites(p) \/ PutFindsExisting(p) \/ get(p)
          \/ WritePrivateKey(p) \/ WriteMetadata(p)
          \/ \E keyInWorktree \in BOOLEAN : OpenNew(p, keyInWorktree) \/ OpenRecovering(p, keyInWorktree)
          \/ StoreCrash(p)
    \/ BlobDamaged \/ PrivateKeyRemoved \/ ModesChanged

StoreSpec == StoreInit /\ [][StoreNext]_storeVars

------------------------------------------------------------------------------
(* Properties *)

(* Every variable stays in its range. *)
StoreTypeOK ==
    /\ blob \in {"absent", "partial", "whole", "damaged"}
    /\ signing \in [dir : BOOLEAN, private : Key, public : Key, privateMode : BOOLEAN,
                    publicMode : BOOLEAN]
    /\ opener \in [Openers -> [at : {"idle", "writing", "private", "metadata"}, public : Key,
                               private : Key, result : Results]]
    /\ storeMishaps \in 0..MaxMishaps

(* Whoever opened the run's signing material, however many processes tried *)
(* at once, and whatever crash or removal of the private key came between, *)
(* signs what everybody else can verify: with the key that the metadata    *)
(* has frozen.                                                             *)
OneKeyPerRun ==
    \A p \in Openers : opener[p].public # NoKey =>
        /\ opener[p].public = signing.public
        /\ opener[p].private = signing.public
=============================================================================
