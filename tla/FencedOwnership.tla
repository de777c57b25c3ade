--------------------------- MODULE FencedOwnership ---------------------------
(***************************************************************************)
(* What core/src/state promises the rest of the platform about one task:   *)
(* ownership is granted in numbered generations, a generation is granted   *)
(* only over a vacant or a lapsed one, and the journal of fenced events    *)
(* only ever grows by events of the generation that holds the task.        *)
(*                                                                         *)
(* There is no clock and no lease table here: Lease refines this module,   *)
(* and TaskLoop and the modules above it rely on it.                       *)
(***************************************************************************)
EXTENDS Naturals

CONSTANTS
    Owners,     \* ownerId values; loop-run mints a fresh one per run
    Nobody      \* no row in the lease table

VARIABLES
    holder,     \* the owner of the current generation, or Nobody
    gen,        \* the number of the latest generation ever granted
    lapsed,     \* the holder let its lease run out
    journal     \* the fenced events: place in the log and generation of each

ownershipVars == <<holder, gen, lapsed, journal>>

OwnershipInit ==
    /\ holder \in Owners \cup {Nobody}
    /\ gen = 0
    /\ lapsed \in BOOLEAN
    /\ journal = {}

(* A new generation replaces a vacant or lapsed one, never a live one. *)
Grant(o) ==
    /\ holder = Nobody \/ lapsed
    /\ holder' = o
    /\ gen' = gen + 1
    /\ lapsed' = FALSE
    /\ UNCHANGED journal

Lapse ==
    /\ holder # Nobody
    /\ lapsed' = TRUE
    /\ UNCHANGED <<holder, gen, journal>>

Vacate ==
    /\ holder # Nobody
    /\ holder' = Nobody
    /\ lapsed' = FALSE
    /\ UNCHANGED <<gen, journal>>

(* The only way into the journal: at its end, by the holder, under the     *)
(* generation that is current.  A holder that lapsed and was not replaced  *)
(* may still commit.                                                       *)
Commit(o) ==
    /\ holder = o
    /\ \E e \in journal' :
         /\ e.gen = gen
         /\ \A d \in journal : d.at < e.at
         /\ journal' = journal \cup {e}
    /\ UNCHANGED <<holder, gen, lapsed>>

OwnershipNext ==
    \/ \E o \in Owners : Grant(o) \/ Commit(o)
    \/ Lapse
    \/ Vacate

OwnershipSpec == OwnershipInit /\ [][OwnershipNext]_ownershipVars

==============================================================================
