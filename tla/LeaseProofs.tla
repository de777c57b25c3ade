----------------------------- MODULE LeaseProofs -----------------------------
(***************************************************************************)
(* What Lease guarantees for any number of processes, any TTL and any      *)
(* length of run.  The inductive invariant is IInv: a row carries the      *)
(* latest token, no token is ahead of the fence row, and every event under *)
(* the latest token is by the owner of the row.                            *)
(***************************************************************************)
EXTENDS Lease, TLAPS

USE DEF NotAppending

(* Every event under the token of the current row is by its owner. *)
CurrentTokenIsOwners ==
    row # NoRow => \A i \in 1..Len(log) : log[i].token = fence => log[i].owner = row.owner

(* A session that still believes in its claim is right about the row. *)
BeliefIsTrue ==
    \A o \in Owners : Believes(o) =>
        /\ row # NoRow
        /\ row.owner = o
        /\ row.token = sess[o].token
        /\ row.until >= sess[o].until

NoTokenAhead ==
    /\ row # NoRow => row.token = fence /\ (row.token = 0 => row.owner = Legacy)
    /\ \A i \in 1..Len(log) : log[i].token <= fence

IInv ==
    /\ TypeOK
    /\ NoTokenAhead
    /\ CurrentTokenIsOwners
    /\ TokenNamesOneOwner
    /\ JournalFenced
    /\ LogProjectsTable
    /\ BeliefIsTrue

------------------------------------------------------------------------------
(* The token of a claim is the one after the latest, or the latest one of  *)
(* a live row of the same owner.                                           *)
LEMMA NextTokenIsLatest ==
    ASSUME TypeOK, NoTokenAhead, NEW o \in Owners
    PROVE  /\ NextToken(o) \in Nat \ {0}
           /\ \/ NextToken(o) = fence + 1
              \/ Live(o) /\ NextToken(o) = fence
  BY LeaseAssumption DEF TypeOK, NoTokenAhead, NextToken, Live, Row

(* Type correctness of the whole module. *)
LEMMA Typing == TypeOK /\ [Next]_vars => TypeOK'
  <1> SUFFICES ASSUME TypeOK, [Next]_vars PROVE TypeOK'
    OBVIOUS
  <1> USE LeaseAssumption DEF TypeOK, Row, Session, Event, LeaseEvents, Active
  <1>1. ASSUME NEW type \in LeaseEvents \cup {"EFFECT"}, NEW o \in Owners,
               NEW token \in Nat, NEW until \in Nat,
               insertEvent(type, o, token, until)
        PROVE  log' \in Seq(Event)
    BY <1>1 DEF insertEvent
  <1>2. ASSUME NEW o \in Owners PROVE NextToken(o) \in Nat
    BY DEF NextToken
  <1>3. ASSUME NEW o \in Owners, claimLease(o)
        PROVE  row' \in Row \cup {NoRow} /\ fence' \in Nat /\ log' \in Seq(Event)
    <2>1. now + Ttl \in Nat
      OBVIOUS
    <2> QED
      BY <1>1, <1>2, <1>3, <2>1 DEF claimLease
  <1>4. ASSUME Tick PROVE TypeOK'
    BY <1>4 DEF Tick
  <1>5. ASSUME NEW o \in Owners, acquireTaskLease(o) PROVE TypeOK'
    BY <1>2, <1>3, <1>5 DEF acquireTaskLease
  <1>6. ASSUME NEW o \in Owners, startHeartbeat(o) PROVE TypeOK'
    BY <1>6, ZenonT(60) DEF startHeartbeat
  <1>7. ASSUME NEW o \in Owners, stopHeartbeat(o) PROVE TypeOK'
    BY <1>7, ZenonT(60) DEF stopHeartbeat
  <1>8. ASSUME NEW o \in Owners, heartbeat(o) PROVE TypeOK'
    <2>1. CASE renewLease(o)
      <3>1. row # NoRow /\ now + Ttl \in Nat /\ row.token \in Nat
        BY <2>1 DEF renewLease, verify, Live
      <3>2. log' \in Seq(Event)
        BY <1>1, <2>1, <3>1 DEF renewLease
      <3> QED
        BY <2>1, <3>1, <3>2, ZenonT(60) DEF renewLease
    <2>2. CASE sess' = [sess EXCEPT ![o].lost = TRUE] /\ UNCHANGED <<now, row, fence, log>>
      BY <2>2, ZenonT(60)
    <2> QED
      BY <1>8, <2>1, <2>2 DEF heartbeat
  <1>9. ASSUME NEW o \in Owners, verifyOwnership(o) PROVE TypeOK'
    BY <1>9, ZenonT(60) DEF verifyOwnership
  <1>10. ASSUME NEW o \in Owners, reacquireAfterPause(o) PROVE TypeOK'
    <2>1. CASE /\ claimLease(o)
               /\ sess' = [sess EXCEPT ![o].token = NextToken(o), ![o].until = now + Ttl,
                                       ![o].lost = FALSE]
      <3> DEFINE s == [sess[o] EXCEPT !.token = NextToken(o), !.until = now + Ttl,
                                      !.lost = FALSE]
      <3>1. s \in Session
        <4>1. now + Ttl \in Nat /\ sess[o] \in Session /\ NextToken(o) \in Nat
          BY <1>2
        <4> HIDE DEF Active
        <4> QED
          BY <4>1
      <3>2. sess' = [sess EXCEPT ![o] = s]
        BY <2>1
      <3>3. sess' \in [Owners -> Session]
        BY <3>1, <3>2
      <3> QED
        BY <1>3, <1>10, <2>1, <3>3 DEF reacquireAfterPause
    <2>2. CASE sess' = [sess EXCEPT ![o].lost = TRUE] /\ UNCHANGED <<row, fence, log>>
      BY <1>10, <2>2, ZenonT(60) DEF reacquireAfterPause
    <2> QED
      BY <1>10, <2>1, <2>2 DEF reacquireAfterPause
  <1>11. ASSUME NEW o \in Owners, release(o) PROVE TypeOK'
    <2>1. log' \in Seq(Event)
      BY <1>1, <1>11 DEF release
    <2> QED
      BY <2>1, <1>11, ZenonT(60) DEF release
  <1>12. ASSUME NEW o \in Owners, StartAppend(o) PROVE TypeOK'
    BY <1>12, ZenonT(60) DEF StartAppend
  <1>13. ASSUME NEW o \in Owners, appendFenced(o) PROVE TypeOK'
    <2>1. log' \in Seq(Event)
      BY <1>1, <1>13 DEF appendFenced
    <2> QED
      BY <2>1, <1>13, ZenonT(60) DEF appendFenced
  <1>14. ASSUME NEW o \in Owners, Crash(o) PROVE TypeOK'
    <2> DEFINE s == [sess[o] EXCEPT !.status = "crashed", !.timer = FALSE,
                                    !.appendNow = NotAppending]
    <2>1. s \in Session
      OBVIOUS
    <2>2. sess' = [sess EXCEPT ![o] = s]
      BY <1>14 DEF Crash
    <2> QED
      BY <1>14, <2>1, <2>2 DEF Crash
  <1>15. CASE UNCHANGED vars
    BY <1>15 DEF vars
  <1> QED
    BY <1>4, <1>5, <1>6, <1>7, <1>8, <1>9, <1>10, <1>11, <1>12, <1>13, <1>14,
       <1>15 DEF Next

(* Lease is type-correct, whatever the owners, the TTL and the bounds. *)
THEOREM TypeCorrect == Spec => []TypeOK
  <1>1. Init => TypeOK
    BY LeaseAssumption DEF Init, TypeOK, Row, Session, Event
  <1> QED
    BY <1>1, Typing, PTL DEF Spec

------------------------------------------------------------------------------
(* What one step does to the row, the fence row and the log. *)
Renewed(o) ==
    /\ row # NoRow /\ row.owner = o /\ row.until >= now
    /\ row' = [row EXCEPT !.until = now + Ttl]
    /\ insertEvent("LEASE_RENEWED", o, row.token, now + Ttl)
    /\ UNCHANGED fence

Deleted(o) ==
    /\ row # NoRow /\ row.owner = o
    /\ row' = NoRow
    /\ insertEvent("LEASE_RELEASED", o, row.token, 0)
    /\ UNCHANGED fence

Committed(o) ==
    /\ row # NoRow /\ row.owner = o
    /\ insertEvent("EFFECT", o, row.token, 0)
    /\ UNCHANGED <<row, fence>>

TableStep ==
    \/ UNCHANGED <<row, fence, log>>
    \/ \E o \in Owners : claimLease(o) \/ Renewed(o) \/ Deleted(o) \/ Committed(o)

(* Every step of the module is one of these five to the database, and only *)
(* Tick moves the clock.                                                   *)
LEMMA OnlyTickMovesTheClock == [Next]_vars => Tick \/ UNCHANGED now
  BY DEF Next, vars, acquireTaskLease, startHeartbeat, stopHeartbeat, heartbeat, renewLease,
         verifyOwnership, reacquireAfterPause, release, StartAppend, appendFenced, Crash

LEMMA EveryStepIsTableStep == [Next]_vars => TableStep
  <1> SUFFICES ASSUME [Next]_vars PROVE TableStep
    OBVIOUS
  <1>1. ASSUME NEW o \in Owners, heartbeat(o) PROVE TableStep
    BY <1>1 DEF heartbeat, renewLease, verify, Live, Renewed, TableStep
  <1>2. ASSUME NEW o \in Owners, release(o) PROVE TableStep
    BY <1>2 DEF release, Deleted, TableStep
  <1>3. ASSUME NEW o \in Owners, appendFenced(o) PROVE TableStep
    BY <1>3 DEF appendFenced, Fenced, Committed, TableStep
  <1>4. ASSUME NEW o \in Owners, acquireTaskLease(o) \/ reacquireAfterPause(o)
        PROVE TableStep
    BY <1>4 DEF acquireTaskLease, reacquireAfterPause, TableStep
  <1>5. ASSUME NEW o \in Owners,
               \/ startHeartbeat(o) \/ stopHeartbeat(o) \/ verifyOwnership(o)
               \/ StartAppend(o) \/ Crash(o)
        PROVE TableStep
    BY <1>5 DEF startHeartbeat, stopHeartbeat, verifyOwnership, StartAppend, Crash, TableStep
  <1>6. CASE Tick
    BY <1>6 DEF Tick, TableStep
  <1>7. CASE UNCHANGED vars
    BY <1>7 DEF vars, TableStep
  <1> QED
    BY <1>1, <1>2, <1>3, <1>4, <1>5, <1>6, <1>7 DEF Next

(* insertEvent adds one event at the end and keeps the others. *)
GrownBy(type, o, token, until) ==
    /\ Len(log') = Len(log) + 1
    /\ log'[Len(log) + 1] = [type |-> type, owner |-> o, token |-> token, until |-> until]
    /\ \A i \in 1..Len(log) : log'[i] = log[i]

LEMMA LogEntries ==
    TypeOK => /\ Len(log) \in Nat
              /\ \A i \in 1..Len(log) :
                   log[i].token \in Nat /\ log[i].type \in LeaseEvents \cup {"EFFECT"}
  <1>1. TypeOK => Len(log) \in Nat /\ \A i \in 1..Len(log) : log[i] \in Event
    BY DEF TypeOK
  <1> QED
    BY <1>1 DEF Event

(* What the five steps do, said of the log's length and entries. *)
LEMMA StepsOfTheLog ==
    ASSUME TypeOK, NEW o \in Owners
    PROVE  /\ claimLease(o) => GrownBy("LEASE_CLAIMED", o, NextToken(o), now + Ttl)
           /\ Renewed(o) => GrownBy("LEASE_RENEWED", o, row.token, now + Ttl)
           /\ Deleted(o) => GrownBy("LEASE_RELEASED", o, row.token, 0)
           /\ Committed(o) => GrownBy("EFFECT", o, row.token, 0)
  <1>1. claimLease(o) => GrownBy("LEASE_CLAIMED", o, NextToken(o), now + Ttl)
    BY DEF claimLease, TypeOK, insertEvent, GrownBy
  <1>2. Renewed(o) => GrownBy("LEASE_RENEWED", o, row.token, now + Ttl)
    BY DEF Renewed, TypeOK, insertEvent, GrownBy
  <1>3. Deleted(o) => GrownBy("LEASE_RELEASED", o, row.token, 0)
    BY DEF Deleted, TypeOK, insertEvent, GrownBy
  <1>4. Committed(o) => GrownBy("EFFECT", o, row.token, 0)
    BY DEF Committed, TypeOK, insertEvent, GrownBy
  <1> QED
    BY <1>1, <1>2, <1>3, <1>4

(* The latest token is carried by the row and by no event exceeded. *)
LEMMA NoTokenAheadStep ==
    TypeOK /\ NoTokenAhead /\ TableStep => NoTokenAhead'
  <1> SUFFICES ASSUME TypeOK, NoTokenAhead, TableStep PROVE NoTokenAhead'
    OBVIOUS
  <1>1. CASE UNCHANGED <<row, fence, log>>
    BY <1>1 DEF NoTokenAhead
  <1>2. ASSUME NEW o \in Owners, claimLease(o) PROVE NoTokenAhead'
    <2>1. NextToken(o) \in Nat \ {0} /\ NextToken(o) >= fence /\ fence \in Nat
      BY NextTokenIsLatest DEF TypeOK
    <2>2. row'.token = fence' /\ fence' = NextToken(o)
      BY <1>2 DEF claimLease
    <2>3. GrownBy("LEASE_CLAIMED", o, NextToken(o), now + Ttl)
      BY <1>2, StepsOfTheLog
    <2>4. \A i \in 1..Len(log') : log'[i].token <= NextToken(o)
      BY <2>1, <2>3, LogEntries DEF NoTokenAhead, GrownBy
    <2> QED
      BY <2>1, <2>2, <2>4 DEF NoTokenAhead
  <1>3. ASSUME NEW o \in Owners, Renewed(o) \/ Deleted(o) \/ Committed(o)
        PROVE  NoTokenAhead'
    <2>1. /\ row.token = fence /\ fence \in Nat /\ fence' = fence
          /\ row' # NoRow => row'.token = fence /\ row'.owner = row.owner
          /\ row.token = 0 => row.owner = Legacy
      BY <1>3, LeaseAssumption DEF Renewed, Deleted, Committed, NoTokenAhead, TypeOK, Row
    <2>2. \E type, until : GrownBy(type, o, fence, until)
      BY <1>3, <2>1, StepsOfTheLog
    <2>3. \A i \in 1..Len(log') : log'[i].token <= fence
      BY <2>1, <2>2, LogEntries DEF NoTokenAhead, GrownBy
    <2> QED
      BY <2>1, <2>3 DEF NoTokenAhead
  <1> QED
    BY <1>1, <1>2, <1>3 DEF TableStep

(* No two owners under one token, in the log or between log and row. *)
LEMMA TokensStep ==
    TypeOK /\ NoTokenAhead /\ CurrentTokenIsOwners /\ TokenNamesOneOwner /\ TableStep
      => CurrentTokenIsOwners' /\ TokenNamesOneOwner'
  <1> SUFFICES ASSUME TypeOK, NoTokenAhead, CurrentTokenIsOwners, TokenNamesOneOwner,
                      TableStep
               PROVE  CurrentTokenIsOwners' /\ TokenNamesOneOwner'
    OBVIOUS
  <1>1. CASE UNCHANGED <<row, fence, log>>
    BY <1>1 DEF CurrentTokenIsOwners, TokenNamesOneOwner
  <1>2. fence \in Nat
    BY DEF TypeOK
  <1>3. ASSUME NEW o \in Owners, claimLease(o)
        PROVE  CurrentTokenIsOwners' /\ TokenNamesOneOwner'
    <2>1. /\ row'.owner = o /\ fence' = NextToken(o) /\ NextToken(o) \in Nat
          /\ \/ NextToken(o) = fence + 1
             \/ Live(o) /\ NextToken(o) = fence
      BY <1>3, NextTokenIsLatest DEF claimLease
    <2>2. \A i \in 1..Len(log) : log[i].token = NextToken(o) => log[i].owner = o
      BY <1>2, <2>1, LogEntries DEF NoTokenAhead, CurrentTokenIsOwners, Live
    <2>3. GrownBy("LEASE_CLAIMED", o, NextToken(o), now + Ttl)
      BY <1>3, StepsOfTheLog
    <2>4. \A i \in 1..Len(log') : log'[i].token = NextToken(o) => log'[i].owner = o
      BY <2>1, <2>2, <2>3, LogEntries DEF GrownBy
    <2>5. \A i, j \in 1..Len(log') : log'[i].token = log'[j].token => log'[i].owner = log'[j].owner
      BY <2>2, <2>3, <2>4, LogEntries DEF GrownBy, TokenNamesOneOwner
    <2> QED
      BY <2>1, <2>4, <2>5 DEF CurrentTokenIsOwners, TokenNamesOneOwner
  <1>4. ASSUME NEW o \in Owners, Renewed(o) \/ Deleted(o) \/ Committed(o)
        PROVE  CurrentTokenIsOwners' /\ TokenNamesOneOwner'
    <2>1. /\ row # NoRow /\ row.owner = o /\ row.token = fence /\ fence' = fence
          /\ row' # NoRow => row'.owner = o
      BY <1>4, LeaseAssumption DEF Renewed, Deleted, Committed, NoTokenAhead, TypeOK, Row
    <2>2. \A i \in 1..Len(log) : log[i].token = fence => log[i].owner = o
      BY <2>1 DEF CurrentTokenIsOwners
    <2>3. \E type, until : GrownBy(type, o, fence, until)
      BY <1>4, <2>1, StepsOfTheLog
    <2>4. \A i \in 1..Len(log') : log'[i].token = fence => log'[i].owner = o
      BY <2>2, <2>3, LogEntries DEF GrownBy
    <2>5. \A i, j \in 1..Len(log') : log'[i].token = log'[j].token => log'[i].owner = log'[j].owner
      BY <2>3, <2>4, LogEntries DEF GrownBy, TokenNamesOneOwner
    <2> QED
      BY <2>1, <2>4, <2>5 DEF CurrentTokenIsOwners, TokenNamesOneOwner
  <1> QED
    BY <1>1, <1>3, <1>4 DEF TableStep

(* A fenced event carries the latest token, so none is behind a claim. *)
LEMMA JournalStep ==
    TypeOK /\ NoTokenAhead /\ JournalFenced /\ TableStep => JournalFenced'
  <1> SUFFICES ASSUME TypeOK, NoTokenAhead, JournalFenced, TableStep PROVE JournalFenced'
    OBVIOUS
  <1>1. CASE UNCHANGED <<row, fence, log>>
    BY <1>1 DEF JournalFenced
  <1>2. ASSUME NEW o \in Owners, claimLease(o) \/ Renewed(o) \/ Deleted(o)
        PROVE  JournalFenced'
    <2>1. \E type, token, until : type # "EFFECT" /\ GrownBy(type, o, token, until)
      <3>1. "LEASE_CLAIMED" # "EFFECT" /\ "LEASE_RENEWED" # "EFFECT" /\ "LEASE_RELEASED" # "EFFECT"
        OBVIOUS
      <3> QED
        BY <1>2, <3>1, StepsOfTheLog
    <2>2. /\ Len(log) \in Nat /\ Len(log') = Len(log) + 1
          /\ log'[Len(log) + 1].type # "EFFECT"
          /\ \A i \in 1..Len(log) : log'[i] = log[i]
      BY <2>1, LogEntries DEF GrownBy
    <2> QED
      BY <2>2 DEF JournalFenced
  <1>3. ASSUME NEW o \in Owners, Committed(o) PROVE JournalFenced'
    <2>1. row.token = fence /\ fence \in Nat /\ GrownBy("EFFECT", o, row.token, 0)
      BY <1>3, StepsOfTheLog DEF Committed, NoTokenAhead, TypeOK
    <2>2. /\ Len(log) \in Nat /\ Len(log') = Len(log) + 1
          /\ log'[Len(log) + 1].token = fence
          /\ \A i \in 1..Len(log) : log'[i] = log[i] /\ log[i].token <= fence
      BY <2>1, LogEntries DEF GrownBy, NoTokenAhead
    <2> QED
      BY <2>2 DEF JournalFenced
  <1> QED
    BY <1>1, <1>2, <1>3 DEF TableStep

(* The transaction that changes the row appends the event that says so. *)
LEMMA ProjectionStep ==
    TypeOK /\ LogProjectsTable /\ TableStep => LogProjectsTable'
  <1> SUFFICES ASSUME TypeOK, LogProjectsTable, TableStep PROVE LogProjectsTable'
    OBVIOUS
  <1>1. CASE UNCHANGED <<row, fence, log>>
    BY <1>1 DEF LogProjectsTable, IsLeaseEvent
  <1>2. ASSUME NEW o \in Owners, NEW type \in LeaseEvents, NEW token, NEW until,
               GrownBy(type, o, token, until),
               row' = IF type = "LEASE_RELEASED" THEN NoRow
                      ELSE [owner |-> o, until |-> until, token |-> token]
        PROVE  LogProjectsTable'
    <2> DEFINE n == Len(log) + 1
    <2>1. Len(log) \in Nat /\ Len(log') = n /\ n \in 1..Len(log')
      BY <1>2, LogEntries DEF GrownBy
    <2>2. log'[n].type = type /\ log'[n].owner = o /\ log'[n].until = until /\ log'[n].token = token
      BY <1>2 DEF GrownBy
    <2>3. ASSUME NEW i \in 1..Len(log'), \A j \in i+1..Len(log') : log'[j].type \notin LeaseEvents
          PROVE  i = n
      <3>1. n \notin i+1..Len(log')
        BY <2>2, <2>3
      <3> QED
        BY <2>1, <3>1
    <2> QED
      BY <1>2, <2>1, <2>2, <2>3 DEF LogProjectsTable, IsLeaseEvent
  <1>3. ASSUME NEW o \in Owners, claimLease(o) PROVE LogProjectsTable'
    <2>1. "LEASE_CLAIMED" \in LeaseEvents /\ "LEASE_CLAIMED" # "LEASE_RELEASED"
      BY DEF LeaseEvents
    <2>2. row' = [owner |-> o, until |-> now + Ttl, token |-> NextToken(o)]
      BY <1>3 DEF claimLease
    <2> QED
      BY <1>2, <1>3, <2>1, <2>2, StepsOfTheLog
  <1>4. ASSUME NEW o \in Owners, Renewed(o) PROVE LogProjectsTable'
    <2>1. "LEASE_RENEWED" \in LeaseEvents /\ "LEASE_RENEWED" # "LEASE_RELEASED"
      BY DEF LeaseEvents
    <2>2. row' = [owner |-> o, until |-> now + Ttl, token |-> row.token]
      BY <1>4 DEF Renewed, TypeOK, Row
    <2> QED
      BY <1>2, <1>4, <2>1, <2>2, StepsOfTheLog
  <1>5. ASSUME NEW o \in Owners, Deleted(o) PROVE LogProjectsTable'
    <2>1. "LEASE_RELEASED" \in LeaseEvents /\ row' = NoRow
      BY <1>5 DEF LeaseEvents, Deleted
    <2> QED
      BY <1>2, <1>5, <2>1, StepsOfTheLog
  <1>6. ASSUME NEW o \in Owners, Committed(o) PROVE LogProjectsTable'
    <2> DEFINE n == Len(log) + 1
    <2>1. /\ Len(log) \in Nat /\ Len(log') = n /\ n \in 1..Len(log') /\ row' = row
          /\ \A i \in 1..Len(log) : i \in 1..Len(log') /\ log'[i] = log[i]
      <3>1. GrownBy("EFFECT", o, row.token, 0)
        BY <1>6, StepsOfTheLog
      <3> QED
        BY <1>6, <3>1, LogEntries DEF Committed, GrownBy
    <2>2. log'[n].type \notin LeaseEvents
      <3>1. GrownBy("EFFECT", o, row.token, 0)
        BY <1>6, StepsOfTheLog
      <3> QED
        BY <3>1 DEF GrownBy, LeaseEvents
    <2>3. ASSUME NEW i \in 1..Len(log'), log'[i].type \in LeaseEvents,
                 \A j \in i+1..Len(log') : log'[j].type \notin LeaseEvents
          PROVE  i \in 1..Len(log) /\ \A j \in i+1..Len(log) : log[j].type \notin LeaseEvents
      <3>1. i # n
        BY <2>2, <2>3
      <3>2. \A j \in i+1..Len(log) : j \in i+1..Len(log') /\ log'[j] = log[j]
        BY <2>1
      <3> QED
        BY <2>1, <2>3, <3>1, <3>2
    <2>4. (\A i \in 1..Len(log') : log'[i].type \notin LeaseEvents)
            => \A i \in 1..Len(log) : log[i].type \notin LeaseEvents
      BY <2>1
    <2> QED
      <3>1. ASSUME NEW i \in 1..Len(log'), (IsLeaseEvent(i))',
                   \A j \in i+1..Len(log') : (~IsLeaseEvent(j))'
            PROVE  row' = IF log'[i].type = "LEASE_RELEASED" THEN NoRow
                          ELSE [owner |-> log'[i].owner, until |-> log'[i].until,
                                token |-> log'[i].token]
        <4>1. /\ i \in 1..Len(log) /\ IsLeaseEvent(i)
              /\ \A j \in i+1..Len(log) : ~IsLeaseEvent(j)
          BY <2>1, <2>3, <3>1 DEF IsLeaseEvent
        <4> QED
          BY <2>1, <4>1 DEF LogProjectsTable
      <3>2. ASSUME \A i \in 1..Len(log') : (~IsLeaseEvent(i))'
            PROVE  row' = NoRow \/ row'.owner = Legacy
        BY <2>1, <2>4, <3>2 DEF LogProjectsTable, IsLeaseEvent
      <3> QED
        BY <3>1, <3>2 DEF LogProjectsTable
  <1> QED
    BY <1>1, <1>3, <1>4, <1>5, <1>6 DEF TableStep

------------------------------------------------------------------------------
(* A session that is not lost and not out of time is right about the row,  *)
(* because nobody else can claim before its own leaseUntil has passed.     *)
LEMMA BeliefStep ==
    TypeOK /\ BeliefIsTrue /\ [Next]_vars => BeliefIsTrue'
  <1> SUFFICES ASSUME TypeOK, BeliefIsTrue, [Next]_vars PROVE BeliefIsTrue'
    OBVIOUS
  <1> USE DEF Active, Believes, BeliefIsTrue
  <1>1. ASSUME NEW o \in Owners, claimLease(o), UNCHANGED now,
               sess'[o].token = NextToken(o), sess'[o].until = now + Ttl,
               \A p \in Owners \ {o} : sess'[p] = sess[p]
        PROVE  BeliefIsTrue'
    <2>1. /\ row' = [owner |-> o, until |-> now + Ttl, token |-> NextToken(o)]
          /\ now \in Nat /\ Ttl \in Nat
      BY <1>1, LeaseAssumption DEF claimLease, TypeOK
    <2>2. row' # NoRow
      BY <1>1, Typing, LeaseAssumption, <2>1 DEF TypeOK, NextToken, Row
    <2>3. ASSUME NEW p \in Owners, p # o PROVE ~Believes(p)
      <3>1. row # NoRow /\ row.owner = p => row.until < now
        BY <1>1, <2>3 DEF claimLease, Contended, TypeOK, Row
      <3> QED
        BY <2>1, <2>3, <3>1 DEF TypeOK, Row, Session
    <2> QED
      BY <1>1, <2>1, <2>2, <2>3
  <1>2. ASSUME NEW o \in Owners, acquireTaskLease(o) PROVE BeliefIsTrue'
    BY <1>1, <1>2 DEF acquireTaskLease, TypeOK
  <1>3. ASSUME NEW o \in Owners, reacquireAfterPause(o) PROVE BeliefIsTrue'
    <2>1. CASE /\ claimLease(o)
               /\ sess' = [sess EXCEPT ![o].token = NextToken(o), ![o].until = now + Ttl,
                                       ![o].lost = FALSE]
      <3>1. sess'[o].token = NextToken(o) /\ sess'[o].until = now + Ttl
        BY <2>1 DEF TypeOK, Session
      <3>2. \A p \in Owners \ {o} : sess'[p] = sess[p]
        BY <2>1 DEF TypeOK
      <3> QED
        BY <1>1, <1>3, <2>1, <3>1, <3>2 DEF reacquireAfterPause
    <2>2. CASE sess' = [sess EXCEPT ![o].lost = TRUE] /\ UNCHANGED <<row, fence, log>>
      BY <1>3, <2>2 DEF reacquireAfterPause, TypeOK, Session
    <2> QED
      BY <1>3, <2>1, <2>2 DEF reacquireAfterPause
  <1>4. ASSUME NEW o \in Owners, heartbeat(o) PROVE BeliefIsTrue'
    <2>1. CASE renewLease(o)
      <3>1. /\ row # NoRow /\ row.owner = o /\ row.token = sess[o].token
            /\ row' # NoRow /\ row'.owner = o /\ row'.token = row.token
            /\ row'.until = now + Ttl /\ now + Ttl \in Nat
        BY <2>1, LeaseAssumption DEF renewLease, verify, Live, TypeOK, Row
      <3>2. /\ sess'[o].until = now + Ttl /\ sess'[o].token = sess[o].token
            /\ \A p \in Owners \ {o} : sess'[p] = sess[p]
            /\ now' = now
        BY <2>1 DEF renewLease, TypeOK, Session
      <3> QED
        BY <3>1, <3>2
    <2>2. CASE sess' = [sess EXCEPT ![o].lost = TRUE] /\ UNCHANGED <<now, row, fence, log>>
      BY <2>2 DEF TypeOK, Session
    <2> QED
      BY <1>4, <2>1, <2>2 DEF heartbeat
  <1>5. ASSUME NEW o \in Owners, release(o) PROVE BeliefIsTrue'
    <2>1. /\ sess'[o].status = "released"
          /\ \A p \in Owners \ {o} : sess'[p] = sess[p]
          /\ now' = now
          /\ row' = row \/ row.owner = o
      BY <1>5 DEF release, TypeOK, Session
    <2> QED
      BY <2>1
  <1>6. ASSUME NEW o \in Owners, Crash(o) PROVE BeliefIsTrue'
    <2>1. /\ sess'[o].status = "crashed"
          /\ \A p \in Owners \ {o} : sess'[p] = sess[p]
          /\ now' = now /\ row' = row
      <3> DEFINE s == [sess[o] EXCEPT !.status = "crashed", !.timer = FALSE,
                                      !.appendNow = NotAppending]
      <3>1. sess' = [sess EXCEPT ![o] = s] /\ s.status = "crashed"
        BY <1>6 DEF Crash, TypeOK, Session
      <3> QED
        BY <1>6, <3>1 DEF Crash, TypeOK
    <2> QED
      BY <2>1
  <1>7. ASSUME NEW o \in Owners,
               \/ startHeartbeat(o) \/ stopHeartbeat(o) \/ verifyOwnership(o)
               \/ StartAppend(o) \/ appendFenced(o)
        PROVE  BeliefIsTrue'
    <2>1. /\ now' = now /\ row' = row
          /\ \A p \in Owners : /\ sess'[p].status = sess[p].status
                               /\ sess'[p].token = sess[p].token
                               /\ sess'[p].until = sess[p].until
                               /\ ~sess'[p].lost => ~sess[p].lost
      <3>1. CASE startHeartbeat(o)
        BY <3>1 DEF startHeartbeat, TypeOK, Session
      <3>2. CASE stopHeartbeat(o)
        BY <3>2 DEF stopHeartbeat, TypeOK, Session
      <3>3. CASE verifyOwnership(o)
        BY <3>3 DEF verifyOwnership, TypeOK, Session
      <3>4. CASE StartAppend(o)
        BY <3>4 DEF StartAppend, TypeOK, Session
      <3>5. CASE appendFenced(o)
        BY <3>5 DEF appendFenced, TypeOK, Session
      <3> QED
        BY <1>7, <3>1, <3>2, <3>3, <3>4, <3>5
    <2> QED
      BY <2>1
  <1>8. CASE Tick
    BY <1>8 DEF Tick, TypeOK, Session
  <1>9. CASE UNCHANGED vars
    BY <1>9 DEF vars
  <1> QED
    BY <1>2, <1>3, <1>4, <1>5, <1>6, <1>7, <1>8, <1>9 DEF Next

------------------------------------------------------------------------------
(* The inductive invariant, and with it every safety property of MCLease,  *)
(* for any owners, TTL and bounds.                                         *)
THEOREM Fencing == Spec => []IInv
  <1>1. Init => IInv
    <2> SUFFICES ASSUME Init PROVE IInv
      OBVIOUS
    <2>1. TypeOK
      BY LeaseAssumption DEF Init, TypeOK, Row, Session, Event
    <2>2. \A o \in Owners : ~Believes(o)
      BY DEF Init, Believes, Active
    <2> QED
      BY <2>1, <2>2 DEF Init, IInv, NoTokenAhead, CurrentTokenIsOwners, TokenNamesOneOwner,
                        JournalFenced, LogProjectsTable, BeliefIsTrue
  <1>2. IInv /\ [Next]_vars => IInv'
    BY Typing, EveryStepIsTableStep, NoTokenAheadStep, TokensStep, JournalStep,
       ProjectionStep, BeliefStep DEF IInv
  <1> QED
    BY <1>1, <1>2, PTL DEF Spec

(* REQ-6.10: no fenced event of a replaced generation is ever committed. *)
THEOREM JournalIsFenced == Spec => []JournalFenced
  <1>1. IInv => JournalFenced
    BY DEF IInv
  <1> QED
    BY <1>1, Fencing, PTL

(* INV-10: the leases row is always what the log says it is. *)
THEOREM TableIsProjection == Spec => []LogProjectsTable
  <1>1. IInv => LogProjectsTable
    BY DEF IInv
  <1> QED
    BY <1>1, Fencing, PTL

(* A fencing token is never issued to two owners. *)
THEOREM TokensAreUnique == Spec => []TokenNamesOneOwner
  <1>1. IInv => TokenNamesOneOwner
    BY DEF IInv
  <1> QED
    BY <1>1, Fencing, PTL

(* At most one process has reason to believe that it holds the task. *)
THEOREM BeliefIsExclusive == Spec => []ExclusiveBelief
  <1>1. IInv => ExclusiveBelief
    BY DEF IInv, BeliefIsTrue, ExclusiveBelief
  <1> QED
    BY <1>1, Fencing, PTL

------------------------------------------------------------------------------
(* Nothing but a claim of its own makes a lost session verify again. *)
THEOREM LossIsFinal == Spec => []LostForGood
  <1>1. Init => LostForGood
    BY DEF Init, LostForGood, Active
  <1>2. TypeOK /\ LostForGood /\ [Next]_vars => LostForGood'
    <2> SUFFICES ASSUME TypeOK, LostForGood, [Next]_vars,
                        NEW p \in Owners, Active(p)', sess'[p].lost
                 PROVE  ~verify(p)'
      BY DEF LostForGood
    <2> USE LeaseAssumption DEF TypeOK, LostForGood, verify, Live, Active, Session, Row
    <2>1. CASE Tick
      BY <2>1 DEF Tick
    <2>2. ASSUME NEW o \in Owners, acquireTaskLease(o) PROVE ~verify(p)'
      <3>1. ~sess'[o].lost
        BY <2>2 DEF acquireTaskLease
      <3>2. o # p
        BY <3>1
      <3>3. row'.owner = o
        BY <2>2 DEF acquireTaskLease, claimLease
      <3> QED
        BY <3>2, <3>3
    <2>3. ASSUME NEW o \in Owners, startHeartbeat(o) \/ stopHeartbeat(o) \/ StartAppend(o)
          PROVE  ~verify(p)'
      <3>1. CASE startHeartbeat(o)
        BY <3>1 DEF startHeartbeat
      <3>2. CASE stopHeartbeat(o)
        BY <3>2 DEF stopHeartbeat
      <3>3. CASE StartAppend(o)
        BY <3>3 DEF StartAppend
      <3> QED
        BY <2>3, <3>1, <3>2, <3>3
    <2>4. ASSUME NEW o \in Owners, heartbeat(o) PROVE ~verify(p)'
      BY <2>4, SMTT(30) DEF heartbeat, renewLease
    <2>5. ASSUME NEW o \in Owners, verifyOwnership(o) PROVE ~verify(p)'
      BY <2>5 DEF verifyOwnership
    <2>6. ASSUME NEW o \in Owners, reacquireAfterPause(o) PROVE ~verify(p)'
      <3>1. CASE o = p
        <4>1. CASE ~sess'[o].lost
          BY <3>1, <4>1
        <4>2. CASE Contended(o) /\ UNCHANGED <<row, fence, log, now>>
          BY <3>1, <4>2 DEF Contended
        <4> QED
          BY <2>6, <4>1, <4>2 DEF reacquireAfterPause
      <3>2. CASE o # p
        <4>1. sess'[p] = sess[p]
          BY <2>6, <3>2 DEF reacquireAfterPause
        <4>2. CASE row'.owner = o
          BY <3>2, <4>2
        <4>3. CASE UNCHANGED <<row, now>>
          BY <4>1, <4>3
        <4> QED
          BY <2>6, <4>2, <4>3 DEF reacquireAfterPause, claimLease
      <3> QED
        BY <3>1, <3>2
    <2>7. ASSUME NEW o \in Owners, release(o) PROVE ~verify(p)'
      BY <2>7 DEF release
    <2>8. ASSUME NEW o \in Owners, appendFenced(o) PROVE ~verify(p)'
      BY <2>8 DEF appendFenced
    <2>9. ASSUME NEW o \in Owners, Crash(o) PROVE ~verify(p)'
      BY <2>9 DEF Crash
    <2>10. CASE UNCHANGED vars
      BY <2>10 DEF vars
    <2> QED
      BY <2>1, <2>2, <2>3, <2>4, <2>5, <2>6, <2>7, <2>8, <2>9, <2>10 DEF Next
  <1> QED
    BY <1>1, <1>2, TypeCorrect, PTL DEF Spec

------------------------------------------------------------------------------
(* Refinement: each of the five table steps, and the passing of time, is a *)
(* step of FencedOwnership or leaves its view unchanged.                   *)
EffectEntries == {[at |-> i, gen |-> log[i].token] : i \in EffectAt}

LEMMA JournalUnchanged ==
    ASSUME TypeOK, NEW type, NEW o, NEW token, NEW until,
           GrownBy(type, o, token, until), type # "EFFECT"
    PROVE  EffectEntries' = EffectEntries
  <1>1. EffectAt' = EffectAt /\ \A i \in EffectAt : log'[i] = log[i]
    BY LogEntries DEF GrownBy, EffectAt
  <1> QED
    BY <1>1 DEF EffectEntries

LEMMA JournalAppended ==
    ASSUME TypeOK, NEW o, NEW token, NEW until, GrownBy("EFFECT", o, token, until)
    PROVE  /\ EffectEntries' = EffectEntries \cup {[at |-> Len(log) + 1, gen |-> token]}
           /\ \A e \in EffectEntries : e.at < Len(log) + 1
  <1>1. /\ EffectAt' = EffectAt \cup {Len(log) + 1}
        /\ \A i \in EffectAt : log'[i] = log[i] /\ i < Len(log) + 1
        /\ log'[Len(log) + 1].token = token
    BY LogEntries DEF GrownBy, EffectAt
  <1>2. EffectEntries' = {[at |-> i, gen |-> log'[i].token] : i \in EffectAt'}
    BY DEF EffectEntries
  <1>3. EffectEntries' = {[at |-> i, gen |-> log'[i].token] : i \in EffectAt}
                          \cup {[at |-> Len(log) + 1, gen |-> token]}
    BY <1>1, <1>2
  <1>4. {[at |-> i, gen |-> log'[i].token] : i \in EffectAt} = EffectEntries
    BY <1>1 DEF EffectEntries
  <1>5. \A e \in EffectEntries : e.at < Len(log) + 1
    BY <1>1 DEF EffectEntries
  <1> QED
    BY <1>3, <1>4, <1>5

LEMMA ClaimRefines ==
    ASSUME IInv, NEW o \in Owners, claimLease(o), UNCHANGED now
    PROVE  Ownership!Grant(o) \/ UNCHANGED Ownership!ownershipVars
  <1> USE DEF IInv
  <1>1. /\ row' = [owner |-> o, until |-> now + Ttl, token |-> NextToken(o)]
        /\ fence' = NextToken(o) /\ NextToken(o) \in Nat /\ now \in Nat /\ Ttl \in Nat
    BY NextTokenIsLatest, LeaseAssumption DEF claimLease, TypeOK
  <1>2. row' # NoRow /\ row'.owner = o /\ ~(row'.until < now')
    BY <1>1, LeaseAssumption
  <1>3. EffectEntries' = EffectEntries
    <2>1. GrownBy("LEASE_CLAIMED", o, NextToken(o), now + Ttl)
      BY StepsOfTheLog
    <2> QED
      BY <2>1, JournalUnchanged
  <1>4. CASE Live(o)
    <2>1. NextToken(o) = fence /\ row # NoRow /\ row.owner = o /\ ~(row.until < now)
      BY <1>4, LeaseAssumption DEF Live, NextToken, NoTokenAhead, TypeOK, Row
    <2> QED
      BY <1>1, <1>2, <1>3, <2>1 DEF Ownership!ownershipVars, EffectEntries
  <1>5. CASE ~Live(o)
    <2>1. NextToken(o) = fence + 1 /\ (row = NoRow \/ (row # NoRow /\ row.until < now))
      BY <1>5, NextTokenIsLatest DEF Live, claimLease, Contended, TypeOK, Row
    <2> QED
      BY <1>1, <1>2, <1>3, <2>1 DEF Ownership!Grant, EffectEntries
  <1> QED
    BY <1>4, <1>5

LEMMA StepRefines ==
    IInv /\ [Next]_vars => [Ownership!OwnershipNext]_(Ownership!ownershipVars)
  <1> SUFFICES ASSUME IInv, [Next]_vars
               PROVE  Ownership!OwnershipNext \/ UNCHANGED Ownership!ownershipVars
    OBVIOUS
  <1> USE DEF IInv
  <1>1. CASE Tick
    <2>1. UNCHANGED <<row, fence, EffectEntries>>
      BY <1>1 DEF Tick, EffectEntries, EffectAt
    <2>2. CASE row # NoRow /\ row.until < now'
      <3>1. row.owner # NoRow
        BY <2>2, LeaseAssumption DEF TypeOK, Row
      <3>2. Ownership!Lapse
        BY <2>1, <2>2, <3>1 DEF Ownership!Lapse, EffectEntries
      <3> QED
        BY <3>2 DEF Ownership!OwnershipNext
    <2>3. CASE ~(row # NoRow /\ row.until < now')
      <3>1. ~(row # NoRow /\ row.until < now)
        BY <1>1, <2>3 DEF Tick, TypeOK, Row
      <3> QED
        BY <2>1, <2>3, <3>1 DEF Ownership!ownershipVars, EffectEntries
    <2> QED
      BY <2>2, <2>3
  <1>2. CASE UNCHANGED <<row, fence, log, now>>
    BY <1>2 DEF Ownership!ownershipVars, EffectAt
  <1>3. ASSUME NEW o \in Owners, claimLease(o), UNCHANGED now
        PROVE  Ownership!OwnershipNext \/ UNCHANGED Ownership!ownershipVars
    BY <1>3, ClaimRefines DEF Ownership!OwnershipNext
  <1>4. ASSUME NEW o \in Owners, Renewed(o), UNCHANGED now
        PROVE  UNCHANGED Ownership!ownershipVars
    <2>1. /\ row # NoRow /\ row' # NoRow /\ row'.owner = row.owner
          /\ ~(row.until < now) /\ ~(row'.until < now') /\ fence' = fence
      BY <1>4, LeaseAssumption DEF Renewed, TypeOK, Row
    <2>2. EffectEntries' = EffectEntries
      <3>1. GrownBy("LEASE_RENEWED", o, row.token, now + Ttl)
        BY <1>4, StepsOfTheLog
      <3> QED
        BY <3>1, JournalUnchanged
    <2> QED
      BY <2>1, <2>2 DEF Ownership!ownershipVars, EffectEntries
  <1>5. ASSUME NEW o \in Owners, Deleted(o), UNCHANGED now
        PROVE  Ownership!Vacate
    <2>1. EffectEntries' = EffectEntries
      <3>1. GrownBy("LEASE_RELEASED", o, row.token, 0)
        BY <1>5, StepsOfTheLog
      <3> QED
        BY <3>1, JournalUnchanged
    <2> QED
      BY <1>5, <2>1, LeaseAssumption DEF Deleted, Ownership!Vacate, EffectEntries
  <1>6. ASSUME NEW o \in Owners, Committed(o), UNCHANGED now
        PROVE  Ownership!Commit(o)
    <2> DEFINE e == [at |-> Len(log) + 1, gen |-> fence]
    <2>1. EffectEntries' = EffectEntries \cup {e} /\ \A d \in EffectEntries : d.at < e.at
      <3>1. GrownBy("EFFECT", o, fence, 0)
        BY <1>6, StepsOfTheLog DEF Committed, NoTokenAhead
      <3> QED
        BY <3>1, JournalAppended
    <2> QED
      BY <1>6, <2>1 DEF Committed, Ownership!Commit, EffectEntries
  <1> QED
    BY <1>1, <1>2, <1>3, <1>4, <1>5, <1>6, EveryStepIsTableStep, OnlyTickMovesTheClock
       DEF TableStep, Ownership!OwnershipNext

(* Lease implements FencedOwnership. *)
THEOREM LeaseImplementsOwnership == Spec => ImplementsOwnership
  <1>1. Init => Ownership!OwnershipInit
    BY LeaseAssumption DEF Init, Ownership!OwnershipInit, EffectAt
  <1> QED
    BY <1>1, StepRefines, Fencing, PTL DEF Spec, ImplementsOwnership, Ownership!OwnershipSpec

==============================================================================
