---------------------------- MODULE ActionLedger -----------------------------
(***************************************************************************)
(* What core/src/executor promises the loop about the actions of a task:   *)
(* the accepted ones form a ledger.  It grows at its end by an action that *)
(* is not in it yet, applied once to what the last entry left; it shrinks  *)
(* at its end only; and whenever the executor rests, the worktree is what  *)
(* the last entry left.                                                    *)
(*                                                                         *)
(* There is no log, no crash, no replay and no lease here: Executor        *)
(* refines this module.  The promise holds until something happens that    *)
(* no admission can find out (tracked).                                    *)
(***************************************************************************)
EXTENDS Naturals

CONSTANTS
    EmptyTree,      \* the artifacts before any action
    Effects(_, _)   \* what applying an action to a tree may give

VARIABLES
    ledger,     \* the accepted entries: generation, action, the tree it left
    reads,      \* the reads on record, which are not repeated either
    tracked,    \* nothing has happened that the executor cannot find out
    worktree,   \* the authoritative artifacts
    rest        \* no action is under way and nothing is suspected

ledgerVars == <<ledger, reads, tracked, worktree, rest>>

Newest(L) == CHOOSE r \in L : \A s \in L : s.gen <= r.gen
TreeAfter(L) == IF L = {} THEN EmptyTree ELSE Newest(L).tree
OnRecord == {r.action : r \in ledger} \cup reads

LedgerInit ==
    /\ ledger = {} /\ reads = {}
    /\ worktree = EmptyTree
    /\ tracked = TRUE

(* An action is applied once to what the ledger holds, behind all of it. *)
Accept ==
    /\ \E r \in ledger' :
          /\ ledger' = ledger \cup {r}
          /\ r.action \notin OnRecord
          /\ \A s \in ledger : s.gen < r.gen
          /\ r.tree \in Effects(r.action, TreeAfter(ledger))
    /\ UNCHANGED reads

(* A recovery that cannot reproduce the newest entry gives it up. *)
Withdraw ==
    /\ ledger # {}
    /\ ledger' = ledger \ {Newest(ledger)}
    /\ UNCHANGED reads

Read ==
    /\ \E a \in reads' : a \notin OnRecord /\ reads' = reads \cup {a}
    /\ UNCHANGED ledger

(* Snapshots, applications, rollbacks, replays, crashes and takeovers. *)
Work == UNCHANGED <<ledger, reads>>

(* What no admission finds out ends the promise, whatever else it changes. *)
LoseTrack == ~tracked'

LedgerNext ==
    \/ /\ tracked /\ tracked'
       /\ Accept \/ Withdraw \/ Read \/ Work
       /\ rest' => worktree' = TreeAfter(ledger')
    \/ LoseTrack

LedgerSpec == LedgerInit /\ [][LedgerNext]_ledgerVars
==============================================================================
