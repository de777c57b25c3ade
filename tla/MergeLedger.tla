---------------------------- MODULE MergeLedger ----------------------------
(***************************************************************************)
(* What core/src/merge promises of the main branch, whatever the path a    *)
(* merge takes: main is a ledger that only grows, a task's gated work      *)
(* lands on exactly the commit its report was signed for, and what is      *)
(* completed was landed, stood on top of main, and is not withdrawn.       *)
(*                                                                         *)
(* A commit of main is named by its first-parent history, the sequence of  *)
(* entries from the root, as git names it by the hash of the same data.    *)
(***************************************************************************)
EXTENDS Naturals, Sequences

CONSTANTS Tasks, NoTask, NoBase

VARIABLES
    main,       \* the history of the main branch
    signed,     \* task -> the commit its report is bound to, or NoBase
    completed   \* the tasks whose merge was completed

ledgerVars == <<main, signed, completed>>

(* Revision 0 of a task's branch is the tree the gates ran on. *)
Gated == 0
Merged(t, rev) == [kind |-> "merge", task |-> t, rev |-> rev]
Reverted(t) == [kind |-> "revert", task |-> t, rev |-> Gated]
Other == [kind |-> "other", task |-> NoTask, rev |-> Gated]

LedgerInit ==
    /\ main = <<>>
    /\ signed = [t \in Tasks |-> NoBase]
    /\ completed = {}

Sign(t) ==
    /\ signed[t] = NoBase
    /\ signed' = [signed EXCEPT ![t] = main]
    /\ UNCHANGED <<main, completed>>

Land(t) ==
    /\ signed[t] = main
    /\ main' = Append(main, Merged(t, Gated))
    /\ UNCHANGED <<signed, completed>>

Complete(t) ==
    /\ signed[t] # NoBase
    /\ main = Append(signed[t], Merged(t, Gated))
    /\ completed' = completed \cup {t}
    /\ UNCHANGED <<main, signed>>

Withdraw(t) ==
    /\ t \notin completed
    /\ main' = Append(main, Reverted(t))
    /\ UNCHANGED <<signed, completed>>

(* people and tools outside the platform commit to main *)
Intervene ==
    /\ main' = Append(main, Other)
    /\ UNCHANGED <<signed, completed>>

LedgerNext ==
    \/ \E t \in Tasks : Sign(t) \/ Land(t) \/ Complete(t) \/ Withdraw(t)
    \/ Intervene

LedgerSpec == LedgerInit /\ [][LedgerNext]_ledgerVars
=============================================================================
