-------------------------------- MODULE Lease --------------------------------
(***************************************************************************)
(* The single-writer task lease: core/src/state/lease.ts (LeaseManager and *)
(* TaskLeaseSession) and the fenced append of core/src/state/event-log.ts, *)
(* over the SQLite tables of core/src/state/schema.ts, for one task.       *)
(*                                                                         *)
(* Every SQLite transaction is one action: BEGIN IMMEDIATE takes the write *)
(* lock.  What is NOT inside a transaction is split: appendFenced reads    *)
(* the clock before it waits for the write lock, so StartAppend and        *)
(* appendFenced are two actions that anything may come between.            *)
(*                                                                         *)
(* A process (one owner id, as loop-run mints a fresh id per run) may stop *)
(* for ever at any point (Crash), and Tick may happen at any point: nothing*)
(* says that the heartbeat timer fires on time.                            *)
(***************************************************************************)
EXTENDS Integers, Sequences

CONSTANTS
    Owners,     \* the owner ids of the processes that run the task
    Legacy,     \* the owner of a row written before fencing existed
    NoRow,      \* SELECT ... FROM leases found nothing
    Ttl,        \* ttlMs
    MaxTime,    \* bound: the clock stops here
    MaxEvents   \* bound: the log holds at most this many events

ASSUME LeaseAssumption ==
    /\ Legacy \notin Owners
    /\ NoRow \notin Owners \cup {Legacy}
    /\ Ttl \in Nat \ {0}
    /\ MaxTime \in Nat
    /\ MaxEvents \in Nat
    /\ NoRow \notin [owner : Owners \cup {Legacy}, until : Nat, token : Nat]

VARIABLES
    now,        \* Clock.now()
    row,        \* the leases row of the task, or NoRow
    fence,      \* the lease_fences row of the task, 0 when there is none
    log,        \* the events of the task: LEASE_* and fenced side effects
    sess        \* owner -> the TaskLeaseSession of its process

vars == <<now, row, fence, log, sess>>

NotAppending == -1

Row == [owner : Owners \cup {Legacy}, until : Nat, token : Nat]
Session == [status : {"idle", "active", "released", "crashed"},
            token : Nat, until : Nat, lost : BOOLEAN, timer : BOOLEAN,
            appendNow : Nat \cup {NotAppending}]
LeaseEvents == {"LEASE_CLAIMED", "LEASE_RENEWED", "LEASE_RELEASED"}
Event == [type : LeaseEvents \cup {"EFFECT"}, owner : Owners, token : Nat, until : Nat]

TypeOK ==
    /\ now \in Nat
    /\ row \in Row \cup {NoRow}
    /\ fence \in Nat
    /\ log \in Seq(Event)
    /\ sess \in [Owners -> Session]

(* A database created by the Phase-0 code already holds a row whose        *)
(* fencing_token column was added with the default 0 and no fence row.     *)
Init ==
    /\ now = 0
    /\ row \in {NoRow, [owner |-> Legacy, until |-> Ttl, token |-> 0]}
    /\ fence = 0
    /\ log = <<>>
    /\ sess = [o \in Owners |->
                 [status |-> "idle", token |-> 0, until |-> 0, lost |-> FALSE,
                  timer |-> FALSE, appendNow |-> NotAppending]]

insertEvent(type, o, token, until) ==
    /\ Len(log) < MaxEvents
    /\ log' = Append(log, [type |-> type, owner |-> o, token |-> token, until |-> until])

Live(o) == row # NoRow /\ row.owner = o /\ row.until >= now

------------------------------------------------------------------------------
(* LeaseManager.claimLease *)

(* defect: the boundary of lease_until >= now off by one *)
ContendedTooShort(o) == row # NoRow /\ row.owner # o /\ row.until > now

Contended(o) == row # NoRow /\ row.owner # o /\ row.until >= now

(* defects: the fence row is forgotten; an expired own row is taken back   *)
ForgottenFence(o) ==
    IF row = NoRow THEN 1
    ELSE IF Live(o) THEN (IF row.token = 0 THEN 1 ELSE row.token)
    ELSE row.token + 1

RevivedToken(o) ==
    IF row = NoRow THEN fence + 1
    ELSE IF row.owner = o THEN (IF row.token = 0 THEN 1 ELSE row.token)
    ELSE row.token + 1

NextToken(o) ==
    IF row = NoRow THEN fence + 1
    ELSE IF Live(o) THEN (IF row.token = 0 THEN 1 ELSE row.token)
    ELSE row.token + 1

claimLease(o) ==
    /\ ~Contended(o)
    /\ row' = [owner |-> o, until |-> now + Ttl, token |-> NextToken(o)]
    /\ fence' = NextToken(o)
    /\ insertEvent("LEASE_CLAIMED", o, NextToken(o), now + Ttl)

(* LeaseManager.verify: this exact generation is current and unexpired. *)
verify(o) == Live(o) /\ row.token = sess[o].token

------------------------------------------------------------------------------
(* The session of one process *)

Active(o) == sess[o].status = "active"

(* acquireTaskLease: on contention it returns null and keeps nothing. *)
acquireTaskLease(o) ==
    /\ sess[o].status \in {"idle", "released"}
    /\ claimLease(o)
    /\ sess' = [sess EXCEPT ![o] = [status |-> "active", token |-> NextToken(o),
                                    until |-> now + Ttl, lost |-> FALSE,
                                    timer |-> FALSE, appendNow |-> NotAppending]]
    /\ UNCHANGED now

startHeartbeat(o) ==
    /\ Active(o) /\ ~sess[o].timer
    /\ sess' = [sess EXCEPT ![o].timer = TRUE]
    /\ UNCHANGED <<now, row, fence, log>>

stopHeartbeat(o) ==
    /\ Active(o) /\ sess[o].timer
    /\ sess' = [sess EXCEPT ![o].timer = FALSE]
    /\ UNCHANGED <<now, row, fence, log>>

(* defects: a renewal without its event; a renewal that subtracts the TTL *)
UnloggedRenewal(o) ==
    /\ verify(o)
    /\ row' = [row EXCEPT !.until = now + Ttl]
    /\ sess' = [sess EXCEPT ![o].until = now + Ttl]
    /\ UNCHANGED <<now, fence, log>>

ShrinkingRenewal(o) ==
    /\ verify(o)
    /\ row' = [row EXCEPT !.until = now - Ttl]
    /\ insertEvent("LEASE_RENEWED", o, row.token, now - Ttl)
    /\ sess' = [sess EXCEPT ![o].until = now - Ttl]
    /\ UNCHANGED <<now, fence>>

(* renewLease matched the row: UPDATE ... AND fencing_token = ? AND lease_until >= ? *)
renewLease(o) ==
    /\ verify(o)
    /\ row' = [row EXCEPT !.until = now + Ttl]
    /\ insertEvent("LEASE_RENEWED", o, row.token, now + Ttl)
    /\ sess' = [sess EXCEPT ![o].until = now + Ttl]
    /\ UNCHANGED <<now, fence>>

(* The timer fires.  A failed renewal loses the session for good. *)
heartbeat(o) ==
    /\ Active(o) /\ sess[o].timer /\ ~sess[o].lost
    /\ \/ renewLease(o)
       \/ /\ ~verify(o)
          /\ sess' = [sess EXCEPT ![o].lost = TRUE]
          /\ UNCHANGED <<now, row, fence, log>>

(* Only the failing call changes anything: it loses the session. *)
verifyOwnership(o) ==
    /\ Active(o) /\ ~sess[o].lost /\ ~verify(o)
    /\ sess' = [sess EXCEPT ![o].lost = TRUE]
    /\ UNCHANGED <<now, row, fence, log>>

(* defect: a session that was lost stays lost under its new claim *)
ReacquiredButLost(o) ==
    /\ Active(o) /\ ~sess[o].timer /\ sess[o].appendNow = NotAppending
    /\ \/ /\ claimLease(o)
          /\ sess' = [sess EXCEPT ![o].token = NextToken(o), ![o].until = now + Ttl]
       \/ /\ Contended(o)
          /\ sess' = [sess EXCEPT ![o].lost = TRUE]
          /\ UNCHANGED <<row, fence, log>>
    /\ UNCHANGED now

(* The loop calls this on resume, after stopHeartbeat; contention loses    *)
(* the session, success starts it afresh under the claim just made.        *)
reacquireAfterPause(o) ==
    /\ Active(o) /\ ~sess[o].timer /\ sess[o].appendNow = NotAppending
    /\ \/ /\ claimLease(o)
          /\ sess' = [sess EXCEPT ![o].token = NextToken(o), ![o].until = now + Ttl,
                                  ![o].lost = FALSE]
       \/ /\ Contended(o)
          /\ sess' = [sess EXCEPT ![o].lost = TRUE]
          /\ UNCHANGED <<row, fence, log>>
    /\ UNCHANGED now

(* Session.release and the releaseLease transaction under it: the row goes *)
(* only when owner and token still match.                                  *)
release(o) ==
    /\ Active(o) /\ sess[o].appendNow = NotAppending
    /\ sess' = [sess EXCEPT ![o].status = "released", ![o].timer = FALSE]
    /\ IF row # NoRow /\ row.owner = o /\ row.token = sess[o].token
         THEN /\ row' = NoRow
              /\ insertEvent("LEASE_RELEASED", o, sess[o].token, 0)
         ELSE UNCHANGED <<row, log>>
    /\ UNCHANGED <<now, fence>>

------------------------------------------------------------------------------
(* EventLog.appendFenced.  The caller reads the clock and the session's    *)
(* claim, then waits for the write lock.                                   *)
StartAppend(o) ==
    /\ Active(o) /\ sess[o].appendNow = NotAppending
    /\ sess' = [sess EXCEPT ![o].appendNow = now]
    /\ UNCHANGED <<now, row, fence, log>>

(* defect: only the lifetime of the row is compared *)
FencedByTimeOnly(o) == row # NoRow /\ row.until >= sess[o].appendNow

Fenced(o) ==
    /\ row # NoRow
    /\ row.owner = o
    /\ row.token = sess[o].token
    /\ row.until >= sess[o].appendNow

appendFenced(o) ==
    /\ Active(o) /\ sess[o].appendNow # NotAppending
    /\ sess' = [sess EXCEPT ![o].appendNow = NotAppending]
    /\ \/ Fenced(o) /\ insertEvent("EFFECT", o, sess[o].token, 0)
       \/ ~Fenced(o) /\ UNCHANGED log
    /\ UNCHANGED <<now, row, fence>>

------------------------------------------------------------------------------
Tick ==
    /\ now < MaxTime
    /\ now' = now + 1
    /\ UNCHANGED <<row, fence, log, sess>>

Crash(o) ==
    /\ sess[o].status # "crashed"
    /\ sess' = [sess EXCEPT ![o].status = "crashed", ![o].timer = FALSE,
                            ![o].appendNow = NotAppending]
    /\ UNCHANGED <<now, row, fence, log>>

Next ==
    \/ Tick
    \/ \E o \in Owners :
         \/ acquireTaskLease(o)
         \/ startHeartbeat(o)
         \/ stopHeartbeat(o)
         \/ heartbeat(o)
         \/ verifyOwnership(o)
         \/ reacquireAfterPause(o)
         \/ release(o)
         \/ StartAppend(o)
         \/ appendFenced(o)
         \/ Crash(o)

Spec == Init /\ [][Next]_vars

------------------------------------------------------------------------------
(* PROPERTIES *)

(* schema.ts promises that "log and table can never diverge" (INV-10): the *)
(* last LEASE_* event in the log is the row, for a row claimed through it. *)
IsLeaseEvent(i) == log[i].type \in LeaseEvents

LogProjectsTable ==
    /\ \A i \in 1..Len(log) :
         (IsLeaseEvent(i) /\ \A j \in i+1..Len(log) : ~IsLeaseEvent(j))
            => row = IF log[i].type = "LEASE_RELEASED" THEN NoRow
                     ELSE [owner |-> log[i].owner, until |-> log[i].until,
                           token |-> log[i].token]
    /\ (\A i \in 1..Len(log) : ~IsLeaseEvent(i)) => row = NoRow \/ row.owner = Legacy

(* REQ-6.10: once a generation has been claimed, no fenced event of an     *)
(* earlier one is ever committed (claimLease against appendFenced).        *)
JournalFenced ==
    \A i, j \in 1..Len(log) :
        (i < j /\ log[i].type = "LEASE_CLAIMED" /\ log[j].type = "EFFECT")
            => log[i].token <= log[j].token

(* A fencing token names one owner for ever, across expiry, release,       *)
(* takeover and crash: two claims with one token are by one owner.         *)
TokenNamesOneOwner ==
    \A i, j \in 1..Len(log) : log[i].token = log[j].token => log[i].owner = log[j].owner

(* Two processes never both have reason to believe that they hold the      *)
(* task: a session that is not lost and whose own leaseUntil has not       *)
(* passed is the only such session, whatever the table says meanwhile.     *)
Believes(o) == Active(o) /\ ~sess[o].lost /\ sess[o].until >= now

ExclusiveBelief ==
    \A o, p \in Owners : Believes(o) /\ Believes(p) => o = p

(* A session that was lost is lost for good: until it claims anew, its     *)
(* generation never verifies again, so the lost flag of TaskLeaseSession   *)
(* never refuses what the table would still grant.                         *)
LostForGood ==
    \A o \in Owners : Active(o) /\ sess[o].lost => ~verify(o)

(* The abstract promise, by this mapping.                                  *)
EffectAt == {i \in 1..Len(log) : log[i].type = "EFFECT"}

Ownership == INSTANCE FencedOwnership WITH
    Owners  <- Owners \cup {Legacy},
    Nobody  <- NoRow,
    holder  <- IF row = NoRow THEN NoRow ELSE row.owner,
    gen     <- fence,
    lapsed  <- row # NoRow /\ row.until < now,
    journal <- {[at |-> i, gen |-> log[i].token] : i \in EffectAt}

(* Lease.ts and event-log.ts keep the promise of FencedOwnership.          *)
ImplementsOwnership == Ownership!OwnershipSpec

==============================================================================
