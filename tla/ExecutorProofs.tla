---------------------------- MODULE ExecutorProofs ----------------------------
(***************************************************************************)
(* Proofs about Executor for any processes, actions, shapes of actions,    *)
(* and any number of events and faults.  The invariant is TypeInv, which   *)
(* holds of every process, and SoundInv: while the run did not lose track  *)
(* (OnTrack: trust is settled or suspect, and no fenced-out process is half  *)
(* through its rejections)                                                 *)
(*   Good          a generation has one terminal, only the newest dangles, *)
(*                 and each accepted generation starts from the tree of    *)
(*                 the one before it;                                      *)
(*   DanglingFits  what dangles starts from the accepted tree and is not   *)
(*                 known as applied, unless the owner is half through the  *)
(*                 rejections of a failed recovery;                        *)
(*   OwnerState    what the owner holds at each phase agrees with the log  *)
(*                 and the worktree.                                       *)
(* SettledTree and ExactlyOnce speak of a run at rest; neither is          *)
(* inductive, because what is at rest now was under recovery before, and   *)
(* ExactlyOnce needs the chain of snapshots from one generation to the     *)
(* next.  A step of a fenced-out process is harmless to the owner or loses *)
(* track; a step of the owner keeps each part, one lemma per action.       *)
(***************************************************************************)
EXTENDS Executor, NaturalsInduction, WellFoundedInduction, SequenceTheorems, TLAPS

------------------------------------------------------------------------------
(* Numbers and logs *)

\* What every log of this run looks like, whoever wrote it: an intent carries a
\* snapshot, a terminal that names an intent comes behind it and has its action id
\* (event-log appends of executor.ts), an acceptance names an intent iff it carries
\* an identity.
LogShape(l) ==
    /\ l \in Seq(Event)
    /\ \A i \in DOMAIN l :
          /\ l[i].type = "ACTION_INTENT" =>
                l[i].tree \in Tree /\ l[i].intentSeq = 0 /\ Mutating(l[i].actionId)
          /\ l[i].intentSeq # 0 =>
                /\ l[i].intentSeq < i
                /\ l[l[i].intentSeq].type = "ACTION_INTENT"
                /\ l[l[i].intentSeq].actionId = l[i].actionId
          /\ l[i].type = "ACTION_APPLIED" =>
                IF l[i].tree = Blob THEN l[i].intentSeq = 0
                ELSE l[i].intentSeq # 0 /\ ~l[i].duplicate

\* m is l with one event more.
Grown(l, m, n) ==
    /\ n \in Nat
    /\ DOMAIN l = 1..n
    /\ DOMAIN m = 1..(n + 1)
    /\ \A i \in 1..n : m[i] = l[i]
    /\ LogShape(l) /\ LogShape(m)

\* A set of numbers that is not empty has a least element.
LEMMA Least ==
    ASSUME NEW S \in SUBSET Nat, S # {}
    PROVE  \E x \in S : \A y \in S : x <= y
  <1>1. PICK x \in S : \A y \in S : ~(<<y, x>> \in OpToRel(<, Nat))
    BY NatLessThanWellFounded, WFMin
  <1>2. ASSUME NEW y \in S PROVE x <= y
    <2>1. ~(y < x)
      BY <1>1 DEF OpToRel
    <2>2. QED
      BY <2>1
  <1>3. QED
    BY <1>2

\* A bounded set of numbers that is not empty has a greatest element.
LEMMA Greatest ==
    ASSUME NEW n \in Nat, NEW S \in SUBSET (0..n), S # {}
    PROVE  \E x \in S : \A y \in S : y <= x
  <1> DEFINE D == {n - x : x \in S}
  <1>0. \A x \in S : n - x \in Nat
    OBVIOUS
  <1>1. D \in SUBSET Nat /\ D # {}
    <2>1. ASSUME NEW d \in D PROVE d \in Nat
      <3>1. PICK x \in S : d = n - x
        OBVIOUS
      <3>2. QED
        BY <3>1, <1>0
    <2>2. D # {}
      OBVIOUS
    <2>3. QED
      BY <2>1, <2>2
  <1>2. PICK d \in D : \A e \in D : d <= e
    BY <1>1, Least
  <1>3. PICK x \in S : d = n - x
    BY <1>2
  <1>4. ASSUME NEW y \in S PROVE y <= x
    BY <1>2, <1>3
  <1>5. QED
    BY <1>4

\* The replay loop always has a generation to take: the earliest of a suffix is in it.
LEMMA EarliestIn ==
    ASSUME NEW S \in SUBSET Step, S # {}
    PROVE  Earliest(S) \in S /\ \A g \in S : Earliest(S).intent <= g.intent
  <1> DEFINE N == {g.intent : g \in S}
  <1>1. N \in SUBSET Nat /\ N # {}
    BY DEF Step
  <1>2. PICK x \in N : \A y \in N : x <= y
    BY <1>1, Least
  <1>3. PICK g \in S : g.intent = x
    BY <1>2
  <1>4. \A h \in S : g.intent <= h.intent
    BY <1>2, <1>3
  <1>5. QED
    BY <1>4 DEF Earliest

\* The fields of an event of the log are of their types.
LEMMA EventFields ==
    ASSUME NEW l, LogShape(l), NEW i \in DOMAIN l
    PROVE  /\ l[i] \in Event
           /\ l[i].actionId \in Ids /\ l[i].intentSeq \in Nat /\ l[i].invalidates \in Nat
           /\ l[i].tree \in Tree \cup {Blob} /\ l[i].duplicate \in BOOLEAN
           /\ l[i].type \in {"ACTION_INTENT", "ACTION_APPLIED", "ACTION_REJECTED"}
           /\ i \in Nat /\ i >= 1 /\ Len(l) \in Nat /\ DOMAIN l = 1..Len(l) /\ i <= Len(l)
  <1>1. l \in Seq(Event)
    BY DEF LogShape
  <1>2. l[i] \in Event /\ Len(l) \in Nat /\ DOMAIN l = 1..Len(l)
    BY <1>1
  <1>3. QED
    BY <1>2 DEF Event

\* An accepted generation with an identity names the intent it is a terminal of.
LEMMA IdentifiedFields ==
    ASSUME NEW l, LogShape(l), NEW k \in Identified(l)
    PROVE  /\ k \in DOMAIN l /\ l[k].type = "ACTION_APPLIED" /\ l[k].tree \in Tree /\ ~l[k].duplicate
           /\ l[k].intentSeq \in Nat /\ l[k].intentSeq >= 1 /\ l[k].intentSeq < k
           /\ l[k].intentSeq \in Intents(l) /\ k \in Terminals(l, l[k].intentSeq)
           /\ AppliedOrder(l, k) = l[k].intentSeq
  <1>1. k \in DOMAIN l /\ l[k].type = "ACTION_APPLIED" /\ l[k].tree # Blob /\ ~l[k].duplicate
    BY DEF Identified, activeAppliedEvents
  <1>2. l[k].intentSeq # 0 /\ l[k].tree \in Tree /\ l[k].intentSeq \in Nat
    BY <1>1, EventFields DEF LogShape
  <1>3. l[k].intentSeq < k /\ l[l[k].intentSeq].type = "ACTION_INTENT" /\ l[l[k].intentSeq].actionId = l[k].actionId
    BY <1>1, <1>2 DEF LogShape
  <1>4. l[k].intentSeq \in DOMAIN l
    BY <1>1, <1>2, <1>3, EventFields
  <1>5. QED
    BY <1>1, <1>2, <1>3, <1>4 DEF Intents, Terminals, AppliedOrder

\* The last accepted generation exists and no other has a later intent.
LEMMA LastOfIn ==
    ASSUME NEW l, LogShape(l), NEW S \in SUBSET Identified(l), S # {}
    PROVE  /\ LastOf(l, S) \in S
           /\ \A j \in S : l[j].intentSeq <= l[LastOf(l, S)].intentSeq
  <1> DEFINE N == {l[j].intentSeq : j \in S}
  <1>1. Len(l) \in Nat /\ \A j \in S : l[j].intentSeq \in 0..Len(l) /\ j \in 0..Len(l) /\ AppliedOrder(l, j) = l[j].intentSeq
    <2>1. ASSUME NEW j \in S
          PROVE  /\ l[j].intentSeq \in 0..Len(l) /\ j \in 0..Len(l) /\ AppliedOrder(l, j) = l[j].intentSeq
                 /\ Len(l) \in Nat
      <3>1. /\ j \in DOMAIN l /\ l[j].intentSeq \in Nat /\ l[j].intentSeq < j
            /\ AppliedOrder(l, j) = l[j].intentSeq
        BY IdentifiedFields
      <3>2. j \in Nat /\ j <= Len(l) /\ Len(l) \in Nat
        BY <3>1, EventFields
      <3>3. QED
        BY <3>1, <3>2
    <2>2. QED
      BY <2>1
  <1>a. N \in SUBSET (0..Len(l)) /\ N # {}
    <2>1. \A j \in S : l[j].intentSeq \in 0..Len(l)
      BY <1>1
    <2>2. QED
      BY <2>1, Zenon
  <1>2. PICK x \in N : \A y \in N : y <= x
    BY <1>1, <1>a, Greatest
  <1> DEFINE M == {j \in S : l[j].intentSeq = x}
  <1>3. M \in SUBSET (0..Len(l)) /\ M # {}
    BY <1>1, <1>2
  <1>4. PICK k \in M : \A j \in M : j <= k
    BY <1>1, <1>3, Greatest
  <1>5. \A j \in S : \/ l[j].intentSeq < l[k].intentSeq
                     \/ l[j].intentSeq = l[k].intentSeq /\ j <= k
    <2>1. ASSUME NEW j \in S
          PROVE  \/ l[j].intentSeq < l[k].intentSeq
                 \/ l[j].intentSeq = l[k].intentSeq /\ j <= k
      <3>1. l[j].intentSeq <= x /\ l[k].intentSeq = x /\ x \in Nat /\ l[j].intentSeq \in Nat
        BY <1>1, <1>2, <1>4
      <3>2. CASE l[j].intentSeq = x
        BY <3>1, <3>2, <1>4
      <3>3. CASE l[j].intentSeq # x
        BY <3>1, <3>3
      <3>4. QED
        BY <3>2, <3>3
    <2>2. QED
      BY <2>1
  <1>6. k \in S /\ \A j \in S : \/ AppliedOrder(l, j) < AppliedOrder(l, k)
                                \/ AppliedOrder(l, j) = AppliedOrder(l, k) /\ j <= k
    BY <1>1, <1>4, <1>5
  <1> DEFINE c == LastOf(l, S)
  <1>7. c \in S /\ \A j \in S : \/ AppliedOrder(l, j) < AppliedOrder(l, c)
                                \/ AppliedOrder(l, j) = AppliedOrder(l, c) /\ j <= c
    BY <1>6 DEF LastOf
  <1>8. \A j \in S : l[j].intentSeq <= l[c].intentSeq
    BY <1>1, <1>7
  <1>9. QED
    BY <1>7, <1>8

\* An accepted generation whose intent is behind every other's is the last.
LEMMA LastOfIs ==
    ASSUME NEW l, LogShape(l), NEW S \in SUBSET Identified(l), NEW k \in S,
           \A j \in S \ {k} : l[j].intentSeq < l[k].intentSeq
    PROVE  LastOf(l, S) = k
  <1>1. LastOf(l, S) \in S /\ l[k].intentSeq <= l[LastOf(l, S)].intentSeq
    BY LastOfIn
  <1>2. l[k].intentSeq \in Nat /\ l[LastOf(l, S)].intentSeq \in Nat
    BY <1>1, IdentifiedFields
  <1>3. QED
    BY <1>1, <1>2

\* The earliest dangling intent exists when something dangles.
LEMMA DanglingFirst ==
    ASSUME NEW l, LogShape(l), danglingMutatingIntents(l) # {}
    PROVE  EarliestDangling(l) \in danglingMutatingIntents(l)
  <1>1. danglingMutatingIntents(l) \in SUBSET Nat
    BY EventFields DEF danglingMutatingIntents, Intents
  <1>2. PICK d \in danglingMutatingIntents(l) : \A e \in danglingMutatingIntents(l) : d <= e
    BY <1>1, Least
  <1>3. QED
    BY <1>2 DEF EarliestDangling

\* The terminal a plan notes for a generation is one of its terminals.
LEMMA TerminalFirst ==
    ASSUME NEW l, LogShape(l), NEW i \in Intents(l)
    PROVE  /\ Terminals(l, i) = {} => FirstTerminal(l, i) = 0
           /\ Terminals(l, i) # {} => FirstTerminal(l, i) \in Terminals(l, i)
  <1>1. Terminals(l, i) \in SUBSET Nat
    BY EventFields DEF Terminals
  <1>2. ASSUME Terminals(l, i) # {} PROVE FirstTerminal(l, i) \in Terminals(l, i)
    <2>1. PICK d \in Terminals(l, i) : \A e \in Terminals(l, i) : d <= e
      BY <1>1, <1>2, Least
    <2>2. QED
      BY <1>2, <2>1 DEF FirstTerminal
  <1>3. QED
    BY <1>2 DEF FirstTerminal

------------------------------------------------------------------------------
(* One event more *)

\* How an event ends a generation, and how it withdraws an accepted one.
TerminalTypes == {"ACTION_APPLIED", "ACTION_REJECTED"}
Concludes(e, i) == e.type \in TerminalTypes /\ e.intentSeq = i
Withdraws(e, l, i) ==
    e.type = "ACTION_REJECTED" /\ e.actionId = l[i].actionId /\ e.invalidates = i

\* One event more: what stays and what the new one may point at.
LEMMA GrownBasics ==
    ASSUME NEW l, NEW m, NEW n, Grown(l, m, n)
    PROVE  /\ n \in Nat /\ n + 1 \in DOMAIN m /\ n + 1 \notin DOMAIN l
           /\ \A i \in DOMAIN l : i \in DOMAIN m /\ m[i] = l[i] /\ i \in Nat /\ i < n + 1
           /\ \A i \in DOMAIN m : i \in DOMAIN l \/ i = n + 1
           /\ m[n + 1].intentSeq # 0 =>
                 /\ m[n + 1].intentSeq \in DOMAIN l
                 /\ m[n + 1].actionId = l[m[n + 1].intentSeq].actionId
                 /\ l[m[n + 1].intentSeq].type = "ACTION_INTENT"
           /\ 0 \notin DOMAIN l
  <1>1. n \in Nat /\ n + 1 \in DOMAIN m /\ n + 1 \notin DOMAIN l /\ 0 \notin DOMAIN l
    BY DEF Grown
  <1>2. \A i \in DOMAIN l : i \in DOMAIN m /\ m[i] = l[i] /\ i \in Nat /\ i < n + 1
    BY DEF Grown
  <1>3. \A i \in DOMAIN m : i \in DOMAIN l \/ i = n + 1
    BY DEF Grown
  <1>4. ASSUME m[n + 1].intentSeq # 0
        PROVE  /\ m[n + 1].intentSeq \in DOMAIN l
               /\ m[n + 1].actionId = l[m[n + 1].intentSeq].actionId
               /\ l[m[n + 1].intentSeq].type = "ACTION_INTENT"
    <2> DEFINE i == m[n + 1].intentSeq
    <2>1. LogShape(m) /\ DOMAIN l = 1..n
      BY DEF Grown
    <2>2. i \in Nat
      BY <1>1, <2>1, EventFields
    <2>3. i < n + 1 /\ m[i].type = "ACTION_INTENT" /\ m[i].actionId = m[n + 1].actionId
      BY <1>1, <1>4, <2>1 DEF LogShape
    <2>4. i \in 1..n
      BY <1>1, <1>4, <2>2, <2>3
    <2>5. i \in DOMAIN l
      BY <2>1, <2>4
    <2>6. QED
      BY <2>3, <2>5, <1>2
  <1>5. QED
    BY <1>1, <1>2, <1>3, <1>4

\* A new event is a terminal of the intent it concludes and of no other.
LEMMA GrownTerminals ==
    ASSUME NEW l, NEW m, NEW n, Grown(l, m, n), NEW i \in DOMAIN l
    PROVE  /\ Concludes(m[n + 1], i) => Terminals(m, i) = Terminals(l, i) \cup {n + 1}
           /\ ~Concludes(m[n + 1], i) => Terminals(m, i) = Terminals(l, i)
           /\ Terminals(m, n + 1) = {}
  <1> DEFINE e == m[n + 1]
  <1>1. /\ n \in Nat /\ n + 1 \in DOMAIN m /\ n + 1 \notin DOMAIN l /\ i # 0
        /\ \A j \in DOMAIN l : j \in DOMAIN m /\ m[j] = l[j] /\ j \in Nat /\ j < n + 1
        /\ \A j \in DOMAIN m : j \in DOMAIN l \/ j = n + 1
    BY GrownBasics
  <1>2. \A j \in DOMAIN l : j \in Terminals(m, i) <=> j \in Terminals(l, i)
    BY <1>1 DEF Terminals
  <1>3. n + 1 \in Terminals(m, i) <=> Concludes(e, i)
    <2>1. n + 1 > i /\ m[i].actionId = l[i].actionId
      BY <1>1
    <2>2. e.intentSeq = i => e.actionId = l[i].actionId
      BY <1>1, GrownBasics
    <2>3. QED
      BY <1>1, <2>1, <2>2 DEF Terminals, Concludes, TerminalTypes
  <1>4. Terminals(l, i) \subseteq DOMAIN l /\ Terminals(m, i) \subseteq DOMAIN m
    BY DEF Terminals
  <1>5. Terminals(m, n + 1) = {}
    <2>1. ASSUME NEW j \in DOMAIN m PROVE ~(j > n + 1)
      BY <1>1
    <2>2. QED
      BY <2>1 DEF Terminals
  <1>6. QED
    BY <1>1, <1>2, <1>3, <1>4, <1>5

\* Only a new ACTION_INTENT adds an intent.
LEMMA GrownIntents ==
    ASSUME NEW l, NEW m, NEW n, Grown(l, m, n)
    PROVE  /\ m[n + 1].type = "ACTION_INTENT" => Intents(m) = Intents(l) \cup {n + 1}
           /\ m[n + 1].type # "ACTION_INTENT" => Intents(m) = Intents(l)
  <1>1. /\ n + 1 \in DOMAIN m /\ n + 1 \notin DOMAIN l
        /\ \A j \in DOMAIN l : j \in DOMAIN m /\ m[j] = l[j]
        /\ \A j \in DOMAIN m : j \in DOMAIN l \/ j = n + 1
    BY GrownBasics
  <1>2. QED
    BY <1>1 DEF Intents

\* What dangles after one event more.
LEMMA GrownDangling ==
    ASSUME NEW l, NEW m, NEW n, Grown(l, m, n)
    PROVE  \A i : i \in danglingMutatingIntents(m) <=>
              \/ i \in danglingMutatingIntents(l) /\ ~Concludes(m[n + 1], i)
              \/ i = n + 1 /\ m[n + 1].type = "ACTION_INTENT"
  <1>1. ASSUME NEW i \in DOMAIN l
        PROVE  i \in danglingMutatingIntents(m) <=>
                  i \in danglingMutatingIntents(l) /\ ~Concludes(m[n + 1], i)
    <2>1. i \in Intents(m) <=> i \in Intents(l)
      BY GrownIntents, GrownBasics
    <2>2. Terminals(m, i) = {} <=> Terminals(l, i) = {} /\ ~Concludes(m[n + 1], i)
      BY GrownTerminals
    <2>3. QED
      BY <2>1, <2>2 DEF danglingMutatingIntents
  <1>2. n + 1 \in danglingMutatingIntents(m) <=> m[n + 1].type = "ACTION_INTENT"
    <2>1. Terminals(m, n + 1) = {}
      <3>1. /\ n \in Nat
            /\ \A j \in DOMAIN l : j \in Nat /\ j < n + 1
            /\ \A j \in DOMAIN m : j \in DOMAIN l \/ j = n + 1
        BY GrownBasics
      <3>2. ASSUME NEW j \in DOMAIN m PROVE ~(j > n + 1)
        BY <3>1
      <3>3. QED
        BY <3>2 DEF Terminals
    <2>2. n + 1 \in Intents(m) <=> m[n + 1].type = "ACTION_INTENT"
      BY GrownBasics DEF Intents
    <2>3. QED
      BY <2>1, <2>2 DEF danglingMutatingIntents
  <1>3. /\ danglingMutatingIntents(m) \subseteq DOMAIN m
        /\ danglingMutatingIntents(l) \subseteq DOMAIN l
        /\ n + 1 \notin DOMAIN l
        /\ \A j \in DOMAIN m : j \in DOMAIN l \/ j = n + 1
    BY GrownBasics DEF danglingMutatingIntents, Intents
  <1>4. QED
    BY <1>1, <1>2, <1>3

\* Which acceptances stand after one event more.
LEMMA GrownActive ==
    ASSUME NEW l, NEW m, NEW n, Grown(l, m, n)
    PROVE  \A i : i \in activeAppliedEvents(m) <=>
              \/ i \in activeAppliedEvents(l) /\ ~Withdraws(m[n + 1], l, i)
              \/ i = n + 1 /\ m[n + 1].type = "ACTION_APPLIED" /\ ~m[n + 1].duplicate
  <1>1. /\ n \in Nat /\ n + 1 \in DOMAIN m /\ n + 1 \notin DOMAIN l
        /\ \A j \in DOMAIN l : j \in DOMAIN m /\ m[j] = l[j] /\ j \in Nat /\ j < n + 1
        /\ \A j \in DOMAIN m : j \in DOMAIN l \/ j = n + 1
    BY GrownBasics
  <1>2. ASSUME NEW i \in DOMAIN l
        PROVE  i \in activeAppliedEvents(m) <=>
                  i \in activeAppliedEvents(l) /\ ~Withdraws(m[n + 1], l, i)
    BY <1>1, <1>2 DEF activeAppliedEvents, Withdraws
  <1>3. n + 1 \in activeAppliedEvents(m) <=>
           m[n + 1].type = "ACTION_APPLIED" /\ ~m[n + 1].duplicate
    <2>1. ASSUME NEW j \in DOMAIN m PROVE ~(j > n + 1)
      BY <1>1
    <2>2. QED
      BY <1>1, <2>1 DEF activeAppliedEvents
  <1>4. activeAppliedEvents(m) \subseteq DOMAIN m /\ activeAppliedEvents(l) \subseteq DOMAIN l
    BY DEF activeAppliedEvents
  <1>5. QED
    BY <1>1, <1>2, <1>3, <1>4

------------------------------------------------------------------------------
(* What the log of a sound run says *)

\* The action ids that alreadyApplied() knows.
AppliedIds(l) == {l[i].actionId : i \in activeAppliedEvents(l)}
\* The accepted generations before k and the worktree they left.
IntentsBelow(l, k) == {j \in Identified(l) : l[j].intentSeq < l[k].intentSeq}
TreeBelow(l, k) == IF IntentsBelow(l, k) = {} THEN EmptyTree ELSE l[LastOf(l, IntentsBelow(l, k))].tree

\* Good(l), what the log of a sound run says: a generation has at most one
\* terminal, only the newest dangles, and the accepted generations form a chain.
OneTerminal(l) == \A i \in Intents(l) : \A j, k \in Terminals(l, i) : j = k
OneDangling(l) == \A d \in danglingMutatingIntents(l) : \A i \in Intents(l) : i <= d
\* The snapshot of an accepted generation is the identity of the one before it,
\* and its own identity holds a deterministic action at most once.
Linked(l, k) ==
    /\ l[l[k].intentSeq].tree = TreeBelow(l, k)
    /\ \A a \in Ids \ Flaky : l[k].tree[a] <= 1
    /\ \A a \in Ids : l[k].tree[a] > 0 =>
          \E j \in Identified(l) : l[j].actionId = a /\ l[j].intentSeq <= l[k].intentSeq
Chain(l) == \A k \in Identified(l) : Linked(l, k)
Good(l) == OneTerminal(l) /\ OneDangling(l) /\ Chain(l)
\* The snapshot of a dangling intent is the tree last accepted, and its action
\* is not yet known as applied.
DanglingFits(l) ==
    \A d \in danglingMutatingIntents(l) :
        l[d].tree = AcceptedTree(l) /\ l[d].actionId \notin AppliedIds(l)

\* An intent has one acceptance.
LEMMA Injective ==
    ASSUME NEW l, LogShape(l), OneTerminal(l), NEW j \in Identified(l), NEW k \in Identified(l),
           l[j].intentSeq = l[k].intentSeq
    PROVE  j = k
  BY IdentifiedFields DEF OneTerminal

\* One event more does not change which of the old acceptances is last.
LEMMA SameLast ==
    ASSUME NEW l, NEW m, NEW n, Grown(l, m, n), OneTerminal(l), NEW S,
           S \subseteq Identified(l), S \subseteq Identified(m), S # {}
    PROVE  LastOf(m, S) = LastOf(l, S) /\ m[LastOf(m, S)] = l[LastOf(l, S)]
  <1> DEFINE x == LastOf(l, S)
             y == LastOf(m, S)
  <1>1. LogShape(l) /\ LogShape(m)
    BY DEF Grown
  <1>2. x \in S /\ \A j \in S : l[j].intentSeq <= l[x].intentSeq
    BY <1>1, LastOfIn
  <1>3. y \in S /\ \A j \in S : m[j].intentSeq <= m[y].intentSeq
    BY <1>1, LastOfIn
  <1>4. m[x] = l[x] /\ m[y] = l[y]
    BY <1>1, <1>2, <1>3, IdentifiedFields, GrownBasics
  <1>5. l[x].intentSeq \in Nat /\ l[y].intentSeq \in Nat
    BY <1>1, <1>2, <1>3, IdentifiedFields
  <1>6. l[x].intentSeq = l[y].intentSeq
    BY <1>2, <1>3, <1>4, <1>5
  <1>7. QED
    BY <1>1, <1>2, <1>3, <1>4, <1>6, Injective

\* The accepted generations all lie before the dangling one.
LEMMA IdentifiedBefore ==
    ASSUME NEW l, LogShape(l), OneDangling(l), NEW d \in danglingMutatingIntents(l),
           NEW k \in Identified(l)
    PROVE  l[k].intentSeq < d /\ l[k].intentSeq \in Nat /\ d \in Nat /\ d # 0
  <1>1. l[k].intentSeq \in Intents(l) /\ k \in Terminals(l, l[k].intentSeq) /\ l[k].intentSeq \in Nat
    BY IdentifiedFields
  <1>2. l[k].intentSeq <= d
    BY <1>1 DEF OneDangling
  <1>3. l[k].intentSeq # d
    BY <1>1 DEF danglingMutatingIntents
  <1>4. d \in DOMAIN l
    BY DEF danglingMutatingIntents, Intents
  <1>5. d \in Nat /\ d >= 1
    BY <1>4, EventFields
  <1>6. QED
    BY <1>1, <1>2, <1>3, <1>5

\* Nothing else dangles beside the newest intent.
LEMMA OnlyDangling ==
    ASSUME NEW l, LogShape(l), OneDangling(l), NEW d \in danglingMutatingIntents(l)
    PROVE  danglingMutatingIntents(l) = {d}
  <1>1. ASSUME NEW e \in danglingMutatingIntents(l) PROVE e = d
    <2>1. e \in DOMAIN l /\ d \in DOMAIN l /\ e \in Intents(l) /\ d \in Intents(l)
      BY DEF danglingMutatingIntents, Intents
    <2>2. e \in Nat /\ d \in Nat
      BY <2>1, EventFields
    <2>3. e <= d /\ d <= e
      BY <2>1 DEF OneDangling
    <2>4. QED
      BY <2>2, <2>3
  <1>2. QED
    BY <1>1

\* A log that accepts the same generations as before says the same of them.
LEMMA SameAccepted ==
    ASSUME NEW l, NEW m, NEW n, Grown(l, m, n), OneTerminal(l), Identified(m) = Identified(l)
    PROVE  /\ AcceptedTree(m) = AcceptedTree(l)
           /\ Chain(l) => Chain(m)
  <1>1. LogShape(l) /\ LogShape(m)
    BY DEF Grown
  <1>2. \A k \in Identified(l) : m[k] = l[k] /\ m[l[k].intentSeq] = l[l[k].intentSeq]
    BY <1>1, IdentifiedFields, GrownBasics DEF Intents
  <1>3. AcceptedTree(m) = AcceptedTree(l)
    <2>1. CASE Identified(l) = {}
      BY <2>1 DEF AcceptedTree
    <2>2. CASE Identified(l) # {}
      BY <2>2, SameLast DEF AcceptedTree
    <2>3. QED
      BY <2>1, <2>2
  <1>4. ASSUME Chain(l), NEW k \in Identified(m) PROVE Linked(m, k)
    <2>1. Linked(l, k) /\ m[k] = l[k] /\ m[l[k].intentSeq] = l[l[k].intentSeq]
      BY <1>2, <1>4 DEF Chain
    <2>2. IntentsBelow(m, k) = IntentsBelow(l, k)
      BY <1>2, <2>1 DEF IntentsBelow
    <2>3. TreeBelow(m, k) = TreeBelow(l, k)
      <3>1. CASE IntentsBelow(l, k) = {}
        BY <3>1, <2>2 DEF TreeBelow
      <3>2. CASE IntentsBelow(l, k) # {}
        <4>1. IntentsBelow(l, k) \subseteq Identified(l) /\ IntentsBelow(l, k) \subseteq Identified(m)
          BY DEF IntentsBelow
        <4>2. QED
          BY <3>2, <4>1, <2>2, SameLast DEF TreeBelow
      <3>3. QED
        BY <3>1, <3>2
    <2>4. \A a \in Ids \ Flaky : m[k].tree[a] <= 1
      BY <2>1 DEF Linked
    <2>5. \A a \in Ids : m[k].tree[a] > 0 =>
             \E j \in Identified(m) : m[j].actionId = a /\ m[j].intentSeq <= m[k].intentSeq
      BY <1>2, <2>1 DEF Linked
    <2>6. QED
      BY <2>1, <2>3, <2>4, <2>5 DEF Linked
  <1>5. QED
    BY <1>3, <1>4 DEF Chain

\* performApply touches its own action only, and once on a tree without it.
LEMMA Applying ==
    ASSUME NEW a \in Ids, NEW t \in Tree, NEW u \in performApply(a, t)
    PROVE  /\ u \in Tree
           /\ \A b \in Ids : b # a => u[b] = t[b]
           /\ a \notin Flaky /\ t[a] = 0 => u[a] <= 1
  <1>1. a \in Content /\ Ids \subseteq Content /\ t[a] \in Nat /\ t \in [Content -> Nat]
    BY DEF Content, Tree
  <1>2. CASE u = [t EXCEPT ![a] = 1]
    BY <1>1, <1>2 DEF Tree
  <1>3. ASSUME NEW x \in (IF a \in Flaky THEN {1, 2} ELSE {1}), u = [t EXCEPT ![a] = @ + x]
        PROVE  /\ u \in Tree
               /\ \A b \in Ids : b # a => u[b] = t[b]
               /\ a \notin Flaky /\ t[a] = 0 => u[a] <= 1
    <2>1. x \in Nat /\ t[a] + x \in Nat
      BY <1>1
    <2>2. u = [t EXCEPT ![a] = t[a] + x]
      BY <1>3
    <2>3. u \in Tree /\ (\A b \in Ids : b # a => u[b] = t[b]) /\ u[a] = t[a] + x
      BY <1>1, <2>1, <2>2 DEF Tree
    <2>4. a \notin Flaky => x = 1
      OBVIOUS
    <2>5. QED
      BY <2>3, <2>4
  <1>4. CASE Shape[a].type = "WRITE_FILE"
    <2>1. u = [t EXCEPT ![a] = 1]
      BY <1>4 DEF performApply
    <2>2. QED
      BY <1>2, <2>1
  <1>5. CASE Shape[a].type = "APPLY_PATCH"
    <2>1. u = [t EXCEPT ![a] = 1]
      BY <1>5 DEF performApply
    <2>2. QED
      BY <1>2, <2>1
  <1>6. CASE Shape[a].type \notin {"WRITE_FILE", "APPLY_PATCH"}
    <2>1. performApply(a, t) = {[t EXCEPT ![a] = @ + x] : x \in IF a \in Flaky THEN {1, 2} ELSE {1}}
      BY <1>6 DEF performApply
    <2>2. PICK x \in (IF a \in Flaky THEN {1, 2} ELSE {1}) : u = [t EXCEPT ![a] = @ + x]
      BY <2>1
    <2>3. QED
      BY <1>3, <2>2
  <1>7. QED
    BY <1>4, <1>5, <1>6

\* Which identities stand after one event more.
LEMMA GrownIdentified ==
    ASSUME NEW l, NEW m, NEW n, Grown(l, m, n)
    PROVE  \A i : i \in Identified(m) <=>
              \/ i \in Identified(l) /\ ~Withdraws(m[n + 1], l, i)
              \/ /\ i = n + 1 /\ m[n + 1].type = "ACTION_APPLIED" /\ ~m[n + 1].duplicate
                 /\ m[n + 1].tree # Blob
  <1>1. \A i \in activeAppliedEvents(l) : m[i] = l[i]
    BY GrownBasics DEF activeAppliedEvents
  <1>2. n + 1 \notin activeAppliedEvents(l)
    BY GrownBasics DEF activeAppliedEvents
  <1>3. QED
    BY <1>1, <1>2, GrownActive DEF Identified

\* Which ids are applied after one event more.
LEMMA GrownAppliedIds ==
    ASSUME NEW l, NEW m, NEW n, Grown(l, m, n)
    PROVE  AppliedIds(m) \subseteq AppliedIds(l) \cup
              (IF m[n + 1].type = "ACTION_APPLIED" /\ ~m[n + 1].duplicate
               THEN {m[n + 1].actionId} ELSE {})
  <1>1. ASSUME NEW i \in activeAppliedEvents(m)
        PROVE  \/ m[i].actionId \in AppliedIds(l)
               \/ /\ m[n + 1].type = "ACTION_APPLIED" /\ ~m[n + 1].duplicate
                  /\ m[i].actionId = m[n + 1].actionId
    <2>1. CASE i \in activeAppliedEvents(l)
      BY <2>1, GrownBasics DEF activeAppliedEvents, AppliedIds
    <2>2. CASE i \notin activeAppliedEvents(l)
      BY <2>2, GrownActive
    <2>3. QED
      BY <2>1, <2>2
  <1>2. QED
    BY <1>1 DEF AppliedIds

\* A terminal for what dangles is the only one of its generation.
LEMMA GrownOneTerminal ==
    ASSUME NEW l, NEW m, NEW n, Grown(l, m, n), OneTerminal(l),
           \A i \in Intents(l) : Concludes(m[n + 1], i) => i \in danglingMutatingIntents(l)
    PROVE  OneTerminal(m)
  <1>1. ASSUME NEW i \in Intents(l), NEW j \in Terminals(m, i), NEW k \in Terminals(m, i)
        PROVE  j = k
    <2>1. i \in DOMAIN l
      BY DEF Intents
    <2>2. CASE Concludes(m[n + 1], i)
      <3>1. Terminals(l, i) = {}
        BY <2>2 DEF danglingMutatingIntents
      <3>2. QED
        BY <2>1, <2>2, <3>1, GrownTerminals
    <2>3. CASE ~Concludes(m[n + 1], i)
      BY <2>1, <2>3, GrownTerminals DEF OneTerminal
    <2>4. QED
      BY <2>2, <2>3
  <1>2. Terminals(m, n + 1) = {}
    <2>1. ASSUME NEW j \in DOMAIN m PROVE ~(j > n + 1)
      BY GrownBasics
    <2>2. QED
      BY <2>1 DEF Terminals
  <1>3. QED
    BY <1>1, <1>2, GrownIntents DEF OneTerminal

\* An intent with nothing dangling is the only one that dangles.
LEMMA GrownOneDangling ==
    ASSUME NEW l, NEW m, NEW n, Grown(l, m, n), OneDangling(l),
           m[n + 1].type = "ACTION_INTENT" => danglingMutatingIntents(l) = {}
    PROVE  OneDangling(m)
  <1>1. CASE m[n + 1].type = "ACTION_INTENT"
    <2>1. \A d \in danglingMutatingIntents(m) : d = n + 1
      BY <1>1, GrownDangling
    <2>2. \A i \in Intents(m) : i <= n + 1
      BY GrownBasics DEF Intents
    <2>3. QED
      BY <2>1, <2>2 DEF OneDangling
  <1>2. CASE m[n + 1].type # "ACTION_INTENT"
    BY <1>2, GrownDangling, GrownIntents DEF OneDangling
  <1>3. QED
    BY <1>1, <1>2

\* ACTION_INTENT, appended while nothing dangles.
LEMMA IntentGrows ==
    ASSUME NEW l, NEW m, NEW n, Grown(l, m, n), Good(l),
           m[n + 1].type = "ACTION_INTENT", danglingMutatingIntents(l) = {}
    PROVE  /\ Good(m) /\ Identified(m) = Identified(l) /\ AppliedIds(m) \subseteq AppliedIds(l)
           /\ danglingMutatingIntents(m) = {n + 1} /\ AcceptedTree(m) = AcceptedTree(l)
  <1>1. Identified(m) = Identified(l)
    BY GrownIdentified DEF Withdraws
  <1>2. OneTerminal(m)
    BY GrownOneTerminal DEF Good, Concludes, TerminalTypes
  <1>3. OneDangling(m)
    BY GrownOneDangling DEF Good
  <1>4. AcceptedTree(m) = AcceptedTree(l) /\ Chain(m)
    BY <1>1, SameAccepted DEF Good
  <1>5. danglingMutatingIntents(m) = {n + 1}
    BY GrownDangling
  <1>6. QED
    BY <1>1, <1>2, <1>3, <1>4, <1>5, GrownAppliedIds DEF Good

\* ACTION_APPLIED without an identity: a READ_FILE or a duplicate.
LEMMA BlobGrows ==
    ASSUME NEW l, NEW m, NEW n, Grown(l, m, n), Good(l),
           m[n + 1].type = "ACTION_APPLIED", m[n + 1].tree = Blob
    PROVE  /\ Good(m) /\ Identified(m) = Identified(l)
           /\ AppliedIds(m) \subseteq AppliedIds(l) \cup
                 (IF m[n + 1].duplicate THEN {} ELSE {m[n + 1].actionId})
           /\ danglingMutatingIntents(m) = danglingMutatingIntents(l)
           /\ AcceptedTree(m) = AcceptedTree(l)
  <1>1. Identified(m) = Identified(l)
    BY GrownIdentified DEF Withdraws
  <1>2. \A i \in DOMAIN l : ~Concludes(m[n + 1], i)
    <2>1. m[n + 1].intentSeq = 0
      BY GrownBasics DEF Grown, LogShape
    <2>2. QED
      BY <2>1, GrownBasics DEF Concludes
  <1>3. OneTerminal(m)
    BY <1>2, GrownOneTerminal DEF Good, Intents
  <1>4. OneDangling(m)
    BY GrownOneDangling DEF Good
  <1>5. AcceptedTree(m) = AcceptedTree(l) /\ Chain(m)
    BY <1>1, SameAccepted DEF Good
  <1>6. danglingMutatingIntents(m) = danglingMutatingIntents(l)
    BY <1>2, GrownDangling DEF danglingMutatingIntents, Intents
  <1>7. QED
    BY <1>1, <1>3, <1>4, <1>5, <1>6, GrownAppliedIds DEF Good

\* ACTION_REJECTED of the dangling generation, or of nothing that stands.
LEMMA RejectionGrows ==
    ASSUME NEW l, NEW m, NEW n, Grown(l, m, n), Good(l),
           m[n + 1].type = "ACTION_REJECTED",
           m[n + 1].intentSeq # 0 => m[n + 1].intentSeq \in danglingMutatingIntents(l),
           \A k \in Identified(l) : ~Withdraws(m[n + 1], l, k)
    PROVE  /\ Good(m) /\ Identified(m) = Identified(l) /\ AppliedIds(m) \subseteq AppliedIds(l)
           /\ danglingMutatingIntents(m) = danglingMutatingIntents(l) \ {m[n + 1].intentSeq}
           /\ AcceptedTree(m) = AcceptedTree(l)
  <1>1. Identified(m) = Identified(l)
    BY GrownIdentified
  <1>2. \A i \in DOMAIN l : Concludes(m[n + 1], i) <=> i = m[n + 1].intentSeq
    BY DEF Concludes, TerminalTypes
  <1>3. OneTerminal(m)
    BY <1>2, GrownOneTerminal, GrownBasics DEF Good, Intents
  <1>4. OneDangling(m)
    BY GrownOneDangling DEF Good
  <1>5. AcceptedTree(m) = AcceptedTree(l) /\ Chain(m)
    BY <1>1, SameAccepted DEF Good
  <1>6. danglingMutatingIntents(l) \subseteq DOMAIN l
    BY DEF danglingMutatingIntents, Intents
  <1>7. danglingMutatingIntents(m) = danglingMutatingIntents(l) \ {m[n + 1].intentSeq}
    BY <1>2, <1>6, GrownDangling
  <1>8. QED
    BY <1>1, <1>3, <1>4, <1>5, <1>7, GrownAppliedIds DEF Good

\* ACTION_REJECTED that withdraws the last accepted generation (invalidatesAppliedSeq):
\* the log falls back to the snapshot of that generation.
LEMMA WithdrawalGrows ==
    ASSUME NEW l, NEW m, NEW n, Grown(l, m, n), Good(l), NEW k \in Identified(l),
           k = LastOf(l, Identified(l)),
           m[n + 1].type = "ACTION_REJECTED", m[n + 1].intentSeq = 0,
           m[n + 1].invalidates = k, m[n + 1].actionId = l[k].actionId
    PROVE  /\ Good(m) /\ Identified(m) = Identified(l) \ {k}
           /\ AppliedIds(m) \subseteq AppliedIds(l)
           /\ danglingMutatingIntents(m) = danglingMutatingIntents(l)
           /\ AcceptedTree(m) = l[l[k].intentSeq].tree
  <1> DEFINE R == Identified(l) \ {k}
  <1>0. LogShape(l) /\ LogShape(m) /\ OneTerminal(l)
    BY DEF Grown, Good
  <1>1. Identified(m) = R
    BY GrownIdentified DEF Withdraws
  <1>2. \A i \in DOMAIN l : ~Concludes(m[n + 1], i)
    BY GrownBasics DEF Concludes
  <1>3. OneTerminal(m)
    BY <1>2, GrownOneTerminal DEF Good, Intents
  <1>4. OneDangling(m)
    BY GrownOneDangling DEF Good
  <1>5. danglingMutatingIntents(m) = danglingMutatingIntents(l)
    BY <1>2, GrownDangling DEF danglingMutatingIntents, Intents
  <1>6. \A j \in Identified(l) : m[j] = l[j] /\ m[l[j].intentSeq] = l[l[j].intentSeq]
    BY <1>0, IdentifiedFields, GrownBasics DEF Intents
  <1>7. \A j \in R : l[j].intentSeq < l[k].intentSeq
    <2>1. ASSUME NEW j \in R PROVE l[j].intentSeq < l[k].intentSeq
      <3>1. l[j].intentSeq <= l[k].intentSeq
        BY <1>0, LastOfIn
      <3>2. l[j].intentSeq # l[k].intentSeq
        BY <1>0, Injective
      <3>3. l[j].intentSeq \in Nat /\ l[k].intentSeq \in Nat
        BY <1>0, IdentifiedFields
      <3>4. QED
        BY <3>1, <3>2, <3>3
    <2>2. QED
      BY <2>1
  <1>8. IntentsBelow(l, k) = R
    <2>1. l[k].intentSeq \in Nat
      BY <1>0, IdentifiedFields
    <2>2. k \notin IntentsBelow(l, k)
      BY <2>1 DEF IntentsBelow
    <2>3. QED
      BY <1>7, <2>2 DEF IntentsBelow
  <1>9. AcceptedTree(m) = TreeBelow(l, k)
    <2>1. CASE R = {}
      BY <2>1, <1>1, <1>8 DEF AcceptedTree, TreeBelow
    <2>2. CASE R # {}
      BY <2>2, <1>0, <1>1, <1>8, SameLast DEF AcceptedTree, TreeBelow
    <2>3. QED
      BY <2>1, <2>2
  <1>10. TreeBelow(l, k) = l[l[k].intentSeq].tree
    BY DEF Good, Chain, Linked
  <1>11. ASSUME NEW j \in R PROVE Linked(m, j)
    <2>1. Linked(l, j) /\ m[j] = l[j] /\ m[l[j].intentSeq] = l[l[j].intentSeq]
      BY <1>6 DEF Good, Chain
    <2>2. l[j].intentSeq < l[k].intentSeq /\ l[j].intentSeq \in Nat /\ l[k].intentSeq \in Nat
      BY <1>0, <1>7, IdentifiedFields
    <2>3. IntentsBelow(m, j) = IntentsBelow(l, j)
      <3>1. k \notin IntentsBelow(l, j)
        BY <2>2 DEF IntentsBelow
      <3>2. QED
        BY <3>1, <1>1, <1>6, <2>1 DEF IntentsBelow
    <2>4. TreeBelow(m, j) = TreeBelow(l, j)
      <3>1. CASE IntentsBelow(l, j) = {}
        BY <3>1, <2>3 DEF TreeBelow
      <3>2. CASE IntentsBelow(l, j) # {}
        <4>1. IntentsBelow(l, j) \subseteq Identified(l) /\ IntentsBelow(l, j) \subseteq Identified(m)
          BY <2>3 DEF IntentsBelow
        <4>2. QED
          BY <3>2, <4>1, <2>3, <1>0, SameLast DEF TreeBelow
      <3>3. QED
        BY <3>1, <3>2
    <2>5. \A a \in Ids \ Flaky : m[j].tree[a] <= 1
      BY <2>1 DEF Linked
    <2>6. ASSUME NEW a \in Ids, m[j].tree[a] > 0
          PROVE  \E i \in Identified(m) : m[i].actionId = a /\ m[i].intentSeq <= m[j].intentSeq
      <3>1. PICK i \in Identified(l) : l[i].actionId = a /\ l[i].intentSeq <= l[j].intentSeq
        BY <2>1, <2>6 DEF Linked
      <3>2. i # k
        BY <2>2, <3>1
      <3>3. QED
        BY <3>1, <3>2, <1>1, <1>6, <2>1
    <2>7. QED
      BY <2>1, <2>4, <2>5, <2>6 DEF Linked
  <1>12. Chain(m)
    BY <1>1, <1>11 DEF Chain
  <1>13. QED
    BY <1>1, <1>3, <1>4, <1>5, <1>9, <1>10, <1>12, GrownAppliedIds DEF Good

\* The accepted tree holds only applied actions, a deterministic one at most once.
LEMMA AcceptedHolds ==
    ASSUME NEW l, LogShape(l), Chain(l)
    PROVE  /\ AcceptedTree(l) \in Tree
           /\ \A a \in Ids \ Flaky : AcceptedTree(l)[a] <= 1
           /\ \A a \in Ids : AcceptedTree(l)[a] > 0 => \E j \in Identified(l) : l[j].actionId = a
           /\ \A a \in Ids : AcceptedTree(l)[a] > 0 => a \in AppliedIds(l)
  <1>1. CASE Identified(l) = {}
    <2>1. AcceptedTree(l) = EmptyTree
      BY <1>1 DEF AcceptedTree
    <2>2. EmptyTree \in Tree /\ \A a \in Ids : EmptyTree[a] = 0
      BY DEF EmptyTree, Tree, Content
    <2>3. QED
      BY <2>1, <2>2
  <1>2. CASE Identified(l) # {}
    <2> DEFINE k == LastOf(l, Identified(l))
    <2>1. k \in Identified(l) /\ AcceptedTree(l) = l[k].tree
      BY <1>2, LastOfIn DEF AcceptedTree
    <2>2. l[k].tree \in Tree
      BY <2>1, IdentifiedFields
    <2>3. Linked(l, k)
      BY <2>1 DEF Chain
    <2>4. \A j \in Identified(l) : l[j].actionId \in AppliedIds(l)
      BY DEF Identified, AppliedIds
    <2>5. QED
      BY <2>1, <2>2, <2>3, <2>4 DEF Linked
  <1>3. QED
    BY <1>1, <1>2

\* ACTION_APPLIED of the dangling generation: its identity is the accepted tree.
LEMMA AppliedGrows ==
    ASSUME NEW l, NEW m, NEW n, Grown(l, m, n), Good(l), DanglingFits(l),
           NEW d \in danglingMutatingIntents(l),
           m[n + 1].type = "ACTION_APPLIED", m[n + 1].intentSeq = d, ~m[n + 1].duplicate,
           m[n + 1].tree \in performApply(l[d].actionId, AcceptedTree(l))
    PROVE  Good(m) /\ danglingMutatingIntents(m) = {} /\ AcceptedTree(m) = m[n + 1].tree
  <1> DEFINE k == n + 1
             a == l[d].actionId
             x == m[k].tree
  <1>0. LogShape(l) /\ LogShape(m) /\ OneTerminal(l) /\ Chain(l) /\ OneDangling(l)
    BY DEF Grown, Good
  <1>1. d \in DOMAIN l /\ d \in Intents(l) /\ a \in Ids /\ d \in Nat /\ d # 0
    <2>1. d \in DOMAIN l /\ d \in Intents(l)
      BY DEF danglingMutatingIntents, Intents
    <2>2. QED
      BY <1>0, <2>1, EventFields
  <1>2. /\ AcceptedTree(l) \in Tree /\ \A b \in Ids \ Flaky : AcceptedTree(l)[b] <= 1
        /\ \A b \in Ids : AcceptedTree(l)[b] > 0 => \E j \in Identified(l) : l[j].actionId = b
        /\ \A b \in Ids : AcceptedTree(l)[b] > 0 => b \in AppliedIds(l)
    BY <1>0, AcceptedHolds
  <1>3. x \in Tree /\ (\A b \in Ids : b # a => x[b] = AcceptedTree(l)[b])
        /\ (a \notin Flaky /\ AcceptedTree(l)[a] = 0 => x[a] <= 1)
    BY <1>1, <1>2, Applying
  <1>4. x # Blob
    BY <1>3, ExecutorAssumption
  <1>5. Identified(m) = Identified(l) \cup {k}
    BY <1>4, GrownIdentified DEF Withdraws
  <1>6. \A i \in DOMAIN l : Concludes(m[k], i) <=> i = d
    BY DEF Concludes, TerminalTypes
  <1>7. OneTerminal(m)
    BY <1>0, <1>6, GrownOneTerminal DEF Intents
  <1>8. OneDangling(m)
    BY <1>0, GrownOneDangling
  <1>9. danglingMutatingIntents(m) = {}
    <2>1. danglingMutatingIntents(l) = {d}
      BY <1>0, OnlyDangling
    <2>2. QED
      BY <2>1, <1>1, <1>6, GrownDangling
  <1>10. \A j \in Identified(l) :
            /\ m[j] = l[j] /\ m[l[j].intentSeq] = l[l[j].intentSeq]
            /\ l[j].intentSeq < d /\ l[j].intentSeq \in Nat
    BY <1>0, IdentifiedFields, IdentifiedBefore, GrownBasics DEF Intents
  <1>11. m[d] = l[d] /\ k \notin Identified(l)
    BY <1>1, GrownBasics DEF Identified, activeAppliedEvents
  <1>12. AcceptedTree(m) = x
    <2>1. LastOf(m, Identified(m)) = k
      BY <1>0, <1>5, <1>10, <1>11, LastOfIs
    <2>2. QED
      BY <2>1, <1>5 DEF AcceptedTree
  <1>13. Linked(m, k)
    <2>1. IntentsBelow(m, k) = Identified(l)
      <3>1. k \notin IntentsBelow(m, k)
        BY <1>1 DEF IntentsBelow
      <3>2. \A j \in Identified(l) : j \in IntentsBelow(m, k)
        BY <1>5, <1>10 DEF IntentsBelow
      <3>3. QED
        BY <3>1, <3>2, <1>5 DEF IntentsBelow
    <2>2. TreeBelow(m, k) = AcceptedTree(l)
      <3>1. CASE Identified(l) = {}
        BY <3>1, <2>1 DEF TreeBelow, AcceptedTree
      <3>2. CASE Identified(l) # {}
        BY <3>2, <2>1, <1>0, <1>5, SameLast DEF TreeBelow, AcceptedTree
      <3>3. QED
        BY <3>1, <3>2
    <2>3. m[m[k].intentSeq].tree = TreeBelow(m, k)
      BY <2>2, <1>11 DEF DanglingFits
    <2>4. AcceptedTree(l)[a] = 0
      <3>1. a \notin AppliedIds(l)
        BY DEF DanglingFits
      <3>2. AcceptedTree(l)[a] \in Nat
        BY <1>1, <1>2 DEF Tree, Content
      <3>3. ~(AcceptedTree(l)[a] > 0)
        BY <3>1, <1>1, <1>2
      <3>4. QED
        BY <3>2, <3>3
    <2>5. \A b \in Ids \ Flaky : x[b] <= 1
      BY <2>4, <1>2, <1>3
    <2>6. ASSUME NEW b \in Ids, x[b] > 0
          PROVE  \E j \in Identified(m) : m[j].actionId = b /\ m[j].intentSeq <= m[k].intentSeq
      <3>1. CASE b = a
        <4>1. m[k].actionId = a /\ d <= d
          BY <1>1, GrownBasics
        <4>2. QED
          BY <3>1, <4>1, <1>5
      <3>2. CASE b # a
        <4>1. PICK j \in Identified(l) : l[j].actionId = b
          BY <3>2, <2>6, <1>2, <1>3
        <4>2. l[j].intentSeq <= d
          BY <1>1, <1>10
        <4>3. QED
          BY <4>1, <4>2, <1>5, <1>10
      <3>3. QED
        BY <3>1, <3>2
    <2>7. QED
      BY <2>3, <2>5, <2>6 DEF Linked
  <1>14. ASSUME NEW j \in Identified(l) PROVE Linked(m, j)
    <2>1. Linked(l, j) /\ m[j] = l[j] /\ m[l[j].intentSeq] = l[l[j].intentSeq]
      BY <1>0, <1>10 DEF Chain
    <2>2. IntentsBelow(m, j) = IntentsBelow(l, j)
      <3>1. k \notin IntentsBelow(m, j)
        <4>1. m[j].intentSeq = l[j].intentSeq /\ ~(d < l[j].intentSeq)
          BY <1>1, <1>10
        <4>2. QED
          BY <4>1 DEF IntentsBelow
      <3>2. QED
        BY <3>1, <1>5, <1>10 DEF IntentsBelow
    <2>3. TreeBelow(m, j) = TreeBelow(l, j)
      <3>1. CASE IntentsBelow(l, j) = {}
        BY <3>1, <2>2 DEF TreeBelow
      <3>2. CASE IntentsBelow(l, j) # {}
        <4>1. IntentsBelow(l, j) \subseteq Identified(l) /\ IntentsBelow(l, j) \subseteq Identified(m)
          BY <1>5 DEF IntentsBelow
        <4>2. QED
          BY <3>2, <4>1, <2>2, <1>0, SameLast DEF TreeBelow
      <3>3. QED
        BY <3>1, <3>2
    <2>4. \A b \in Ids \ Flaky : m[j].tree[b] <= 1
      BY <2>1 DEF Linked
    <2>5. \A b \in Ids : m[j].tree[b] > 0 =>
             \E i \in Identified(m) : m[i].actionId = b /\ m[i].intentSeq <= m[j].intentSeq
      BY <1>5, <1>10, <2>1 DEF Linked
    <2>6. QED
      BY <2>1, <2>3, <2>4, <2>5 DEF Linked
  <1>15. Chain(m)
    BY <1>5, <1>13, <1>14 DEF Chain
  <1>16. QED
    BY <1>7, <1>8, <1>9, <1>12, <1>15 DEF Good

------------------------------------------------------------------------------
(* The executor implements ActionLedger: what each event does to the ledger *)

\* What a step does to the accepted generations of log l when it leaves log m.
KeepsLedger(l, m) ==
    AcceptedLedger(m) = AcceptedLedger(l) /\ RecordedReads(m) = RecordedReads(l)
AcceptsEntry(l, m) ==
    /\ \E r \in AcceptedLedger(m) :
          /\ AcceptedLedger(m) = AcceptedLedger(l) \cup {r}
          /\ r.action \notin AppliedIds(l)
          /\ \A s \in AcceptedLedger(l) : s.gen < r.gen
          /\ r.tree \in performApply(r.action, AcceptedTree(l))
    /\ RecordedReads(m) = RecordedReads(l)
WithdrawsEntry(l, m) ==
    /\ AcceptedLedger(l) # {}
    /\ AcceptedLedger(m) = AcceptedLedger(l) \ {EntryOf(l[LastOf(l, Identified(l))])}
    /\ RecordedReads(m) = RecordedReads(l)
RecordsRead(l, m) ==
    /\ \E a \in RecordedReads(m) : a \notin AppliedIds(l) /\ RecordedReads(m) = RecordedReads(l) \cup {a}
    /\ AcceptedLedger(m) = AcceptedLedger(l)
LedgerMoves(l, m) ==
    KeepsLedger(l, m) \/ AcceptsEntry(l, m) \/ WithdrawsEntry(l, m) \/ RecordsRead(l, m)

\* The fields of an entry.
LEMMA EntryFields ==
    ASSUME NEW e
    PROVE  /\ EntryOf(e).gen = e.intentSeq /\ EntryOf(e).action = e.actionId
           /\ EntryOf(e).tree = e.tree
  BY DEF EntryOf

\* The ids on record are those alreadyApplied() knows.
LEMMA OnRecordIs ==
    ASSUME NEW l
    PROVE  {r.action : r \in AcceptedLedger(l)} \cup RecordedReads(l) = AppliedIds(l)
  <1>1. \A i \in Identified(l) : EntryOf(l[i]) \in AcceptedLedger(l) /\ i \in activeAppliedEvents(l)
    BY DEF AcceptedLedger, Identified
  <1>2. ASSUME NEW r \in AcceptedLedger(l) PROVE r.action \in AppliedIds(l)
    <2>1. PICK i \in Identified(l) : r = EntryOf(l[i])
      BY DEF AcceptedLedger
    <2>2. r.action = l[i].actionId
      BY <2>1, EntryFields
    <2>3. QED
      BY <1>1, <2>2 DEF AppliedIds
  <1>3. RecordedReads(l) \subseteq AppliedIds(l)
    BY DEF RecordedReads, AppliedIds
  <1>4. ASSUME NEW i \in activeAppliedEvents(l)
        PROVE  l[i].actionId \in {r.action : r \in AcceptedLedger(l)} \cup RecordedReads(l)
    <2>1. CASE i \in Identified(l)
      <3>1. EntryOf(l[i]) \in AcceptedLedger(l) /\ EntryOf(l[i]).action = l[i].actionId
        BY <1>1, <2>1, EntryFields
      <3>2. QED
        BY <3>1
    <2>2. CASE i \notin Identified(l)
      BY <2>2 DEF RecordedReads
    <2>3. QED
      BY <2>1, <2>2
  <1>5. AppliedIds(l) \subseteq {r.action : r \in AcceptedLedger(l)} \cup RecordedReads(l)
    BY <1>4 DEF AppliedIds
  <1>6. QED
    BY <1>2, <1>3, <1>5

\* The newest entry is the last accepted generation, and the tree it left the
\* accepted tree.
LEMMA NewestIs ==
    ASSUME NEW l, LogShape(l), OneTerminal(l)
    PROVE  /\ Identified(l) = {} <=> AcceptedLedger(l) = {}
           /\ Identified(l) # {} =>
                 Actions!Newest(AcceptedLedger(l)) = EntryOf(l[LastOf(l, Identified(l))])
           /\ Actions!TreeAfter(AcceptedLedger(l)) = AcceptedTree(l)
  <1> DEFINE k == LastOf(l, Identified(l))
             L == AcceptedLedger(l)
  <1>1. Identified(l) = {} <=> L = {}
    BY DEF AcceptedLedger
  <1>2. ASSUME Identified(l) # {} PROVE Actions!Newest(L) = EntryOf(l[k])
    <2>1. k \in Identified(l) /\ \A j \in Identified(l) : l[j].intentSeq <= l[k].intentSeq
      BY <1>2, LastOfIn
    <2> HIDE DEF k
    <2>2. EntryOf(l[k]) \in L /\ EntryOf(l[k]).gen = l[k].intentSeq
      BY <2>1, EntryFields DEF AcceptedLedger
    <2>3. \A s \in L : \E j \in Identified(l) : s = EntryOf(l[j]) /\ s.gen = l[j].intentSeq
      BY EntryFields DEF AcceptedLedger
    <2>4. \A s \in L : s.gen <= EntryOf(l[k]).gen
      BY <2>1, <2>2, <2>3
    <2>5. ASSUME NEW r \in L, \A s \in L : s.gen <= r.gen PROVE r = EntryOf(l[k])
      <3>1. PICK j \in Identified(l) : r = EntryOf(l[j]) /\ r.gen = l[j].intentSeq
        BY <2>3
      <3>2. l[j].intentSeq \in Nat /\ l[k].intentSeq \in Nat
        BY <2>1, IdentifiedFields
      <3>3. l[k].intentSeq <= l[j].intentSeq /\ l[j].intentSeq <= l[k].intentSeq
        BY <2>1, <2>2, <2>5, <3>1
      <3>4. l[j].intentSeq = l[k].intentSeq
        BY <3>2, <3>3
      <3>5. QED
        BY <2>1, <3>1, <3>4, Injective
    <2> HIDE DEF L
    <2>6. QED
      BY <2>2, <2>4, <2>5 DEF Actions!Newest
  <1>3. Actions!TreeAfter(L) = AcceptedTree(l)
    <2>1. CASE L = {}
      BY <1>1, <2>1 DEF Actions!TreeAfter, AcceptedTree
    <2>2. CASE L # {}
      <3>1. Actions!TreeAfter(L) = Actions!Newest(L).tree
        BY <2>2 DEF Actions!TreeAfter
      <3>2. Actions!Newest(L).tree = l[k].tree
        BY <1>1, <1>2, <2>2, EntryFields
      <3>3. QED
        BY <1>1, <2>2, <3>1, <3>2 DEF AcceptedTree
    <2>3. QED
      BY <2>1, <2>2
  <1>4. QED
    BY <1>1, <1>2, <1>3

\* The events that stand in both logs make the same entries.
LEMMA EntriesStay ==
    ASSUME NEW l, NEW m, NEW n, Grown(l, m, n)
    PROVE  /\ \A i \in activeAppliedEvents(l) : m[i] = l[i] /\ i # n + 1
           /\ Identified(l) \subseteq activeAppliedEvents(l)
  BY GrownBasics DEF activeAppliedEvents, Identified

\* An event that neither accepts anew nor withdraws what stands keeps the ledger.
LEMMA LedgerKept ==
    ASSUME NEW l, NEW m, NEW n, Grown(l, m, n),
           m[n + 1].type = "ACTION_APPLIED" => m[n + 1].duplicate,
           \A i \in activeAppliedEvents(l) : ~Withdraws(m[n + 1], l, i)
    PROVE  KeepsLedger(l, m)
  <1>1. activeAppliedEvents(m) = activeAppliedEvents(l)
    BY GrownActive
  <1>2. \A i \in activeAppliedEvents(l) : m[i] = l[i]
    BY EntriesStay
  <1>3. Identified(m) = Identified(l)
    BY <1>1, <1>2 DEF Identified
  <1>4. AcceptedLedger(m) = AcceptedLedger(l)
    BY <1>2, <1>3, EntriesStay DEF AcceptedLedger
  <1>5. RecordedReads(m) = RecordedReads(l)
    BY <1>1, <1>2, <1>3 DEF RecordedReads
  <1>6. QED
    BY <1>4, <1>5 DEF KeepsLedger

\* A log that stays keeps the ledger.
LEMMA LedgerStays ==
    ASSUME NEW l
    PROVE  LedgerMoves(l, l)
  BY DEF LedgerMoves, KeepsLedger

\* A read that is not on record yet is recorded.
LEMMA LedgerReads ==
    ASSUME NEW l, NEW m, NEW n, Grown(l, m, n),
           m[n + 1].type = "ACTION_APPLIED", ~m[n + 1].duplicate, m[n + 1].tree = Blob,
           m[n + 1].actionId \notin AppliedIds(l)
    PROVE  RecordsRead(l, m)
  <1> DEFINE k == n + 1
  <1>1. activeAppliedEvents(m) = activeAppliedEvents(l) \cup {k}
    BY GrownActive DEF Withdraws
  <1>2. /\ \A i \in activeAppliedEvents(l) : m[i] = l[i] /\ i # k
        /\ Identified(l) \subseteq activeAppliedEvents(l)
    BY EntriesStay
  <1>3. Identified(m) = Identified(l)
    BY GrownIdentified DEF Withdraws
  <1>4. AcceptedLedger(m) = AcceptedLedger(l)
    BY <1>2, <1>3 DEF AcceptedLedger
  <1>5. k \notin Identified(l)
    BY <1>2
  <1> HIDE DEF k
  <1>6. RecordedReads(m) = RecordedReads(l) \cup {m[k].actionId}
    BY <1>1, <1>2, <1>3, <1>5 DEF RecordedReads
  <1>7. QED
    BY <1>4, <1>6 DEF RecordsRead, k

\* An acceptance is a new entry behind all of the ledger.
LEMMA LedgerAccepts ==
    ASSUME NEW l, NEW m, NEW n, Grown(l, m, n), OneDangling(l), DanglingFits(l),
           NEW d \in danglingMutatingIntents(l),
           m[n + 1].type = "ACTION_APPLIED", m[n + 1].intentSeq = d, ~m[n + 1].duplicate,
           m[n + 1].tree \in performApply(l[d].actionId, AcceptedTree(l)), m[n + 1].tree # Blob
    PROVE  AcceptsEntry(l, m)
  <1> DEFINE k == n + 1
             e == EntryOf(m[k])
  <1>1. activeAppliedEvents(m) = activeAppliedEvents(l) \cup {k}
    BY GrownActive DEF Withdraws
  <1>2. /\ \A i \in activeAppliedEvents(l) : m[i] = l[i] /\ i # k
        /\ Identified(l) \subseteq activeAppliedEvents(l)
    BY EntriesStay
  <1>3. Identified(m) = Identified(l) \cup {k}
    BY GrownIdentified DEF Withdraws
  <1>4. d # 0 /\ m[k].actionId = l[d].actionId
    <2>1. d \in DOMAIN l
      BY DEF danglingMutatingIntents, Intents
    <2>2. QED
      BY <2>1, GrownBasics
  <1>5. /\ e.gen = d /\ e.action = l[d].actionId
        /\ e.tree \in performApply(l[d].actionId, AcceptedTree(l))
    BY <1>4, EntryFields
  <1> HIDE DEF k
  <1>6. AcceptedLedger(m) = AcceptedLedger(l) \cup {e}
    <2>1. \A i \in Identified(l) : EntryOf(m[i]) = EntryOf(l[i])
      BY <1>2
    <2> HIDE DEF e
    <2>2. QED
      BY <1>3, <2>1 DEF AcceptedLedger, e
  <1>7. RecordedReads(m) = RecordedReads(l)
    <2>1. activeAppliedEvents(m) \ Identified(m) = activeAppliedEvents(l) \ Identified(l)
      BY <1>1, <1>2, <1>3
    <2>2. QED
      BY <1>2, <2>1 DEF RecordedReads
  <1>8. ASSUME NEW s \in AcceptedLedger(l) PROVE s.gen < d
    <2>1. PICK i \in Identified(l) : s = EntryOf(l[i])
      BY DEF AcceptedLedger
    <2>2. s.gen = l[i].intentSeq
      BY <2>1, EntryFields
    <2>3. LogShape(l)
      BY DEF Grown
    <2>4. QED
      BY <2>2, <2>3, IdentifiedBefore
  <1>9. l[d].actionId \notin AppliedIds(l)
    BY DEF DanglingFits
  <1>10. QED
    <2> HIDE DEF e
    <2>1. /\ e \in AcceptedLedger(m) /\ e.action \notin AppliedIds(l)
          /\ \A s \in AcceptedLedger(l) : s.gen < e.gen
          /\ e.tree \in performApply(e.action, AcceptedTree(l))
      BY <1>5, <1>6, <1>8, <1>9
    <2>2. QED
      BY <1>6, <1>7, <2>1 DEF AcceptsEntry

\* A rejection that invalidates the last accepted generation withdraws its entry.
LEMMA LedgerWithdraws ==
    ASSUME NEW l, NEW m, NEW n, Grown(l, m, n), OneTerminal(l), NEW k \in Identified(l),
           k = LastOf(l, Identified(l)),
           m[n + 1].type = "ACTION_REJECTED", m[n + 1].invalidates = k,
           m[n + 1].actionId = l[k].actionId
    PROVE  WithdrawsEntry(l, m)
  <1>1. activeAppliedEvents(m) = activeAppliedEvents(l) \ {k}
    BY GrownActive DEF Withdraws
  <1>2. /\ \A i \in activeAppliedEvents(l) : m[i] = l[i]
        /\ Identified(l) \subseteq activeAppliedEvents(l)
    BY EntriesStay
  <1>3. Identified(m) = Identified(l) \ {k}
    BY GrownIdentified DEF Withdraws
  <1>4. \A i \in Identified(l) : EntryOf(m[i]) = EntryOf(l[i])
    BY <1>2
  <1>5. ASSUME NEW i \in Identified(l), EntryOf(l[i]) = EntryOf(l[k]) PROVE i = k
    <2>1. l[i].intentSeq = l[k].intentSeq /\ LogShape(l)
      BY <1>5, EntryFields DEF Grown
    <2>2. QED
      BY <2>1, Injective
  <1>6. AcceptedLedger(m) = AcceptedLedger(l) \ {EntryOf(l[k])}
    BY <1>3, <1>4, <1>5 DEF AcceptedLedger
  <1>7. RecordedReads(m) = RecordedReads(l)
    <2>1. activeAppliedEvents(m) \ Identified(m) = activeAppliedEvents(l) \ Identified(l)
      BY <1>1, <1>2, <1>3
    <2>2. QED
      BY <1>2, <2>1 DEF RecordedReads
  <1>8. AcceptedLedger(l) # {}
    BY DEF AcceptedLedger
  <1>9. QED
    BY <1>6, <1>7, <1>8 DEF WithdrawsEntry

------------------------------------------------------------------------------
(* Types *)

\* The types of a process's record.
PendingStep == [intent : Nat, tree : Tree \cup {Blob}]
Flag == BOOLEAN
Steps == SUBSET Step
Pendings == Seq(PendingStep)
Trusts == {"settled", "suspect", "halved", "lost"}
ProcRec ==
    [at : Phases, id : Ids, mismatch : Flag, tree : Tree, hash : Tree, seq : Nat,
     suffix : Steps, todo : Steps, pending : Pendings, replayed : Flag]

\* A step of a plan points at an intent of the log and at a terminal of it.
StepIn(l, g) ==
    /\ g.intent \in Intents(l)
    /\ g.terminal # 0 => g.terminal \in Terminals(l, g.intent)
\* What holds of a process wherever it stands, the fenced-out ones included.
ProcOK(r, l) ==
    /\ \A g \in r.suffix : StepIn(l, g)
    /\ r.todo \subseteq r.suffix
    /\ \A n \in DOMAIN r.pending : r.pending[n].intent \in Intents(l)
    /\ r.at \in {"idle", "admit", "restore"} => r.pending = <<>>
    /\ r.at \in {"restore", "closing", "replay", "recheck", "conclude", "invalidate"} =>
          r.suffix # {}
    /\ r.at = "recheck" => r.todo # {}
    /\ r.at \in {"snapshot", "intent"} => Mutating(r.id)
    /\ r.at \in {"apply", "capture", "record", "rollback", "undone"} =>
          r.seq \in Intents(l) /\ l[r.seq].actionId = r.id

\* The type invariant that is inductive.
TypeInv ==
    /\ LogShape(events)
    /\ worktree \in Tree
    /\ owner \in Procs
    /\ trust \in Trusts
    /\ faults \in 0..MaxFaults
    /\ proc \in [Procs -> ProcRec]
    /\ \A p \in Procs : ProcOK(proc[p], events)

\* An event that may be appended to l.
EventFits(l, e) ==
    /\ e \in Event
    /\ e.type = "ACTION_INTENT" => e.tree \in Tree /\ e.intentSeq = 0 /\ Mutating(e.actionId)
    /\ e.intentSeq # 0 => e.intentSeq \in Intents(l) /\ l[e.intentSeq].actionId = e.actionId
    /\ e.type = "ACTION_APPLIED" =>
          IF e.tree = Blob THEN e.intentSeq = 0 ELSE e.intentSeq # 0 /\ ~e.duplicate

\* The fields of a process's record are of their types.
LEMMA FieldsOf ==
    ASSUME NEW r \in ProcRec
    PROVE  /\ r.at \in Phases /\ r.id \in Ids /\ r.mismatch \in Flag /\ r.tree \in Tree
           /\ r.hash \in Tree /\ r.seq \in Nat /\ r.suffix \in Steps /\ r.todo \in Steps
           /\ r.pending \in Pendings /\ r.replayed \in Flag
  BY DEF ProcRec

\* An event that fits makes a log of the same shape.
LEMMA Appending ==
    ASSUME NEW l, LogShape(l), NEW e, EventFits(l, e)
    PROVE  /\ Grown(l, Append(l, e), Len(l)) /\ Append(l, e)[Len(l) + 1] = e
           /\ Len(l) \in Nat
  <1> DEFINE n == Len(l)
             m == Append(l, e)
  <1>1. l \in Seq(Event) /\ e \in Event
    BY DEF LogShape, EventFits
  <1>2. /\ n \in Nat /\ DOMAIN l = 1..n /\ m \in Seq(Event) /\ DOMAIN m = 1..(n + 1)
        /\ m[n + 1] = e /\ \A i \in 1..n : m[i] = l[i]
    BY <1>1
  <1>3. ASSUME NEW i \in DOMAIN m
        PROVE  /\ m[i].type = "ACTION_INTENT" =>
                    m[i].tree \in Tree /\ m[i].intentSeq = 0 /\ Mutating(m[i].actionId)
               /\ m[i].intentSeq # 0 =>
                    /\ m[i].intentSeq < i
                    /\ m[m[i].intentSeq].type = "ACTION_INTENT"
                    /\ m[m[i].intentSeq].actionId = m[i].actionId
               /\ m[i].type = "ACTION_APPLIED" =>
                    IF m[i].tree = Blob THEN m[i].intentSeq = 0
                    ELSE m[i].intentSeq # 0 /\ ~m[i].duplicate
    <2>1. CASE i \in DOMAIN l
      <3>1. m[i] = l[i]
        BY <1>2, <2>1
      <3>2. ASSUME m[i].intentSeq # 0
            PROVE  /\ m[i].intentSeq < i /\ m[m[i].intentSeq] = l[l[i].intentSeq]
                   /\ l[l[i].intentSeq].type = "ACTION_INTENT"
                   /\ l[l[i].intentSeq].actionId = l[i].actionId
        <4>1. /\ l[i].intentSeq < i /\ l[l[i].intentSeq].type = "ACTION_INTENT"
              /\ l[l[i].intentSeq].actionId = l[i].actionId
          BY <2>1, <3>1, <3>2 DEF LogShape
        <4>2. l[i].intentSeq \in Nat /\ i \in Nat /\ i <= n
          BY <2>1, EventFields
        <4>3. l[i].intentSeq \in 1..n
          BY <4>1, <4>2, <3>1, <3>2, <1>2
        <4>4. QED
          BY <4>1, <4>3, <3>1, <1>2
      <3>3. QED
        BY <2>1, <3>1, <3>2 DEF LogShape
    <2>2. CASE i = n + 1
      <3>1. m[i] = e
        BY <2>2, <1>2
      <3>2. ASSUME e.intentSeq # 0
            PROVE  /\ e.intentSeq < i /\ m[e.intentSeq] = l[e.intentSeq]
                   /\ l[e.intentSeq].type = "ACTION_INTENT"
                   /\ l[e.intentSeq].actionId = e.actionId
        <4>1. e.intentSeq \in DOMAIN l /\ l[e.intentSeq].type = "ACTION_INTENT"
              /\ l[e.intentSeq].actionId = e.actionId
          BY <3>2 DEF EventFits, Intents
        <4>2. QED
          BY <4>1, <1>2, <2>2
      <3>3. QED
        BY <3>1, <3>2 DEF EventFits
    <2>3. i \in DOMAIN l \/ i = n + 1
      BY <1>2
    <2>4. QED
      BY <2>1, <2>2, <2>3
  <1>4. LogShape(m)
    BY <1>2, <1>3 DEF LogShape
  <1>5. QED
    BY <1>2, <1>4 DEF Grown

\* What a process points at is still there after one event more.
LEMMA ProcGrows ==
    ASSUME NEW l, NEW m, NEW n, Grown(l, m, n), NEW r, ProcOK(r, l)
    PROVE  ProcOK(r, m)
  <1>1. \A i \in Intents(l) : i \in Intents(m) /\ i \in DOMAIN l /\ m[i] = l[i]
    BY GrownIntents, GrownBasics DEF Intents
  <1>2. \A i \in Intents(l) : Terminals(l, i) \subseteq Terminals(m, i)
    BY <1>1, GrownTerminals
  <1>3. QED
    BY <1>1, <1>2 DEF ProcOK, StepIn

\* A step of one process that leaves the log keeps the types.
LEMMA TypeStep ==
    ASSUME TypeInv, NEW p \in Procs, NEW r \in ProcRec, proc' = [proc EXCEPT ![p] = r],
           ProcOK(r, events), UNCHANGED <<events, owner>>,
           worktree' \in Tree, trust' \in Trusts, faults' \in 0..MaxFaults
    PROVE  TypeInv'
  <1>1. proc' \in [Procs -> ProcRec] /\ \A q \in Procs : proc'[q] = IF q = p THEN r ELSE proc[q]
    BY DEF TypeInv
  <1>2. \A q \in Procs : ProcOK(proc'[q], events)
    BY <1>1 DEF TypeInv
  <1>3. QED
    BY <1>1, <1>2 DEF TypeInv

\* A step of one process that appends an event keeps the types.
LEMMA TypeLog ==
    ASSUME TypeInv, NEW p \in Procs, NEW r \in ProcRec, proc' = [proc EXCEPT ![p] = r],
           NEW e, EventFits(events, e), Log(e), ProcOK(r, events'),
           UNCHANGED owner, worktree' \in Tree, trust' \in Trusts, faults' \in 0..MaxFaults
    PROVE  TypeInv'
  <1>1. proc' \in [Procs -> ProcRec] /\ \A q \in Procs : proc'[q] = IF q = p THEN r ELSE proc[q]
    BY DEF TypeInv
  <1>2. Grown(events, events', Len(events))
    BY Appending DEF TypeInv, Log
  <1>3. \A q \in Procs : ProcOK(proc[q], events')
    BY <1>2, ProcGrows DEF TypeInv
  <1>4. \A q \in Procs : ProcOK(proc'[q], events')
    BY <1>1, <1>3
  <1>5. LogShape(events')
    BY <1>2 DEF Grown
  <1>6. QED
    BY <1>1, <1>4, <1>5 DEF TypeInv

\* The fault counter stays in its bound.
LEMMA Faulty ==
    ASSUME faults \in 0..MaxFaults, Fault \/ NoFault
    PROVE  faults' \in 0..MaxFaults
  BY ExecutorAssumption DEF Fault, NoFault

\* However the trust moves it stays in its values.
LEMMA Trusting ==
    ASSUME trust \in Trusts
    PROVE  /\ Worse \in Trusts
           /\ \A p : (Unfenced(p) \/ Known(p) \/ Doubted(p) \/ Unnoticed(p)) => trust' \in Trusts
           /\ \A p, t : Overwrite(p, t) => trust' \in Trusts /\ worktree' = t
           /\ KeepTree => trust' \in Trusts /\ worktree' = worktree
  BY DEF Trusts, Worse, Unfenced, Known, Doubted, Unnoticed, Overwrite, KeepTree

\* The record of a process without an action is well formed.
LEMMA IdleRec == Idle \in ProcRec /\ \A l : ProcOK(Idle, l)
  <1>1. EmptyTree \in Tree /\ "idle" \in Phases /\ FALSE \in Flag /\ {} \in Steps /\ <<>> \in Pendings
    BY DEF EmptyTree, Tree, Phases, Flag, Steps, Pendings
  <1>2. (CHOOSE a \in Ids : TRUE) \in Ids
    BY ExecutorAssumption
  <1>3. Idle \in ProcRec
    BY <1>1, <1>2 DEF Idle, ProcRec
  <1>4. ASSUME NEW l PROVE ProcOK(Idle, l)
    <2>1. /\ Idle.at = "idle" /\ Idle.suffix = {} /\ Idle.todo = {} /\ Idle.pending = <<>>
      BY DEF Idle
    <2>2. DOMAIN Idle.pending = {}
      BY <2>1
    <2>3. QED
      BY <2>1, <2>2 DEF ProcOK
  <1>5. QED
    BY <1>3, <1>4

\* What the invariant says of one process.
LEMMA Here ==
    ASSUME TypeInv, NEW p \in Procs
    PROVE  /\ proc[p] \in ProcRec /\ ProcOK(proc[p], events)
           /\ LogShape(events) /\ worktree \in Tree /\ owner \in Procs /\ trust \in Trusts
           /\ faults \in 0..MaxFaults
  BY DEF TypeInv

\* The event that an intent seq names.
LEMMA IntentFields ==
    ASSUME NEW l, LogShape(l), NEW i \in Intents(l)
    PROVE  i \in DOMAIN l /\ i \in Nat /\ i # 0 /\ l[i].tree \in Tree /\ l[i].actionId \in Ids
           /\ l[i].type = "ACTION_INTENT" /\ Mutating(l[i].actionId)
  <1>1. i \in DOMAIN l /\ l[i].type = "ACTION_INTENT"
    BY DEF Intents
  <1>2. QED
    BY <1>1, EventFields DEF LogShape

\* The generation the replay or the rejections stand at.
LEMMA CurrentFields ==
    ASSUME TypeInv, NEW p \in Procs, proc[p].todo # {}
    PROVE  /\ Current(p) \in proc[p].todo /\ Current(p) \in proc[p].suffix /\ Current(p) \in Step
           /\ StepIn(events, Current(p)) /\ Current(p).intent \in Intents(events)
           /\ proc[p].todo \ {Current(p)} \in Steps
           /\ proc[p].todo \ {Current(p)} \subseteq proc[p].suffix
  <1>1. proc[p].todo \in SUBSET Step /\ proc[p].todo \subseteq proc[p].suffix
    BY Here, FieldsOf DEF Steps, ProcOK
  <1>2. Current(p) \in proc[p].todo
    BY <1>1, EarliestIn DEF Current
  <1>3. StepIn(events, Current(p))
    BY <1>1, <1>2, Here DEF ProcOK
  <1>4. QED
    BY <1>1, <1>2, <1>3 DEF Steps, StepIn

\* The generation the rollback of a recovery goes to.
LEMMA BaseFields ==
    ASSUME TypeInv, NEW p \in Procs, proc[p].suffix # {}
    PROVE  /\ Earliest(proc[p].suffix) \in proc[p].suffix
           /\ Earliest(proc[p].suffix).intent \in Intents(events)
           /\ events[Earliest(proc[p].suffix).intent].tree \in Tree
  <1>1. proc[p].suffix \in SUBSET Step
    BY Here, FieldsOf DEF Steps
  <1>2. Earliest(proc[p].suffix) \in proc[p].suffix
    BY <1>1, EarliestIn
  <1>3. Earliest(proc[p].suffix).intent \in Intents(events)
    BY <1>2, Here DEF ProcOK, StepIn
  <1>4. QED
    BY <1>2, <1>3, Here, IntentFields

\* A process moves and changes nothing but where it stands.
LEMMA GotoRec ==
    ASSUME NEW r \in ProcRec, NEW x \in Phases
    PROVE  /\ [r EXCEPT !.at = x] \in ProcRec
           /\ [r EXCEPT !.at = x].at = x /\ [r EXCEPT !.at = x].id = r.id
           /\ [r EXCEPT !.at = x].seq = r.seq /\ [r EXCEPT !.at = x].suffix = r.suffix
           /\ [r EXCEPT !.at = x].todo = r.todo /\ [r EXCEPT !.at = x].pending = r.pending
           /\ [r EXCEPT !.at = x].tree = r.tree /\ [r EXCEPT !.at = x].hash = r.hash
  BY DEF ProcRec

\* A move keeps the types when the new place asks for nothing that is missing.
LEMMA GotoType ==
    ASSUME TypeInv, NEW p \in Procs, NEW x \in Phases, Goto(p, x), KeepLog, Quietly,
           worktree' \in Tree, trust' \in Trusts, faults' \in 0..MaxFaults,
           x \in {"idle", "admit", "restore"} => proc[p].pending = <<>>,
           x \in {"restore", "closing", "replay", "recheck", "conclude", "invalidate"} =>
              proc[p].suffix # {},
           x = "recheck" => proc[p].todo # {},
           x \in {"snapshot", "intent"} => Mutating(proc[p].id),
           x \in {"apply", "capture", "record", "rollback", "undone"} =>
              proc[p].seq \in Intents(events) /\ events[proc[p].seq].actionId = proc[p].id
    PROVE  TypeInv'
  <1> DEFINE r == [proc[p] EXCEPT !.at = x]
  <1>1. proc[p] \in ProcRec /\ ProcOK(proc[p], events) /\ proc \in [Procs -> ProcRec]
    BY DEF TypeInv
  <1>2. proc' = [proc EXCEPT ![p] = r]
    BY DEF Goto
  <1>3. /\ r \in ProcRec /\ r.at = x /\ r.id = proc[p].id /\ r.seq = proc[p].seq
        /\ r.suffix = proc[p].suffix /\ r.todo = proc[p].todo /\ r.pending = proc[p].pending
    BY <1>1, GotoRec
  <1> HIDE DEF r
  <1>4. ProcOK(r, events)
    BY <1>1, <1>3 DEF ProcOK
  <1>5. QED
    BY <1>2, <1>3, <1>4, TypeStep DEF KeepLog, Quietly

\* execute() returns: the types are kept.
LEMMA ReturnType ==
    ASSUME TypeInv, NEW p \in Procs, Return(p), KeepLog, Quietly,
           worktree' \in Tree, trust' \in Trusts, faults' \in 0..MaxFaults
    PROVE  TypeInv'
  BY IdleRec, TypeStep DEF Return, KeepLog, Quietly

\* execute() returns with an event: the types are kept.
LEMMA ReturnLogType ==
    ASSUME TypeInv, NEW p \in Procs, Return(p), NEW e, EventFits(events, e), Log(e), Quietly,
           worktree' \in Tree, trust' \in Trusts, faults' \in 0..MaxFaults
    PROVE  TypeInv'
  BY IdleRec, TypeLog DEF Return, Quietly

\* executeOnce() keeps the types.
LEMMA executeOnceType ==
    ASSUME TypeInv, NEW p \in Procs, NEW a \in Ids, executeOnce(p, a)
    PROVE  TypeInv'
  <1> DEFINE x == IF Mutating(a) THEN "admit" ELSE "gate"
             r == [proc[p] EXCEPT !.at = x, !.id = a]
  <1>1. proc[p] \in ProcRec /\ ProcOK(proc[p], events) /\ proc \in [Procs -> ProcRec]
    BY DEF TypeInv
  <1>2. proc' = [proc EXCEPT ![p] = r]
    BY <1>1 DEF executeOnce
  <1>3. x \in Phases /\ x \in {"admit", "gate"}
    BY DEF Phases
  <1>4. /\ r \in ProcRec /\ r.at = x /\ r.suffix = proc[p].suffix
        /\ r.todo = proc[p].todo /\ r.pending = proc[p].pending
    BY <1>1, <1>3 DEF ProcRec
  <1>5. proc[p].at = "idle"
    BY DEF executeOnce, At
  <1> HIDE DEF r, x
  <1>6. ProcOK(r, events)
    BY <1>1, <1>3, <1>4, <1>5 DEF ProcOK
  <1>7. QED
    BY <1>2, <1>4, <1>6, TypeStep, Here, Trusting, Faulty DEF executeOnce, KeepLog, KeepTree, Quietly

\* The boundary of a recovery, and the part of PlanRecovery that makes the plan.
Boundary(l) ==
    IF danglingMutatingIntents(l) # {} THEN RecoveryBoundary(l)
    ELSE l[LastOf(l, Identified(l))].intentSeq

Plans(p) ==
    /\ danglingMutatingIntents(events) # {} \/ Identified(events) # {}
    /\ \E x \in {"closing", "restore"}, f \in Flag :
          proc' = [proc EXCEPT ![p].at = x, ![p].mismatch = f,
                               ![p].suffix = SuffixFrom(events, Boundary(events)),
                               ![p].todo = SuffixFrom(events, Boundary(events))]

\* recoverWorktree() up to its first write: its five outcomes.
LEMMA PlanCases ==
    ASSUME NEW p, PlanRecovery(p)
    PROVE  /\ At(p, "admit") /\ KeepLog /\ Quietly /\ UNCHANGED worktree
           /\ \/ /\ danglingMutatingIntents(events) = {} /\ Identified(events) = {}
                 /\ Goto(p, "gate") /\ Unnoticed(p) /\ NoFault
              \/ /\ danglingMutatingIntents(events) = {} /\ worktree = AcceptedTree(events)
                 /\ Goto(p, "gate") /\ Known(p) /\ NoFault
              \/ /\ danglingMutatingIntents(events) = {}
                 /\ Plans(p) /\ Doubted(p) /\ (Fault \/ NoFault)
              \/ Return(p) /\ UNCHANGED trust /\ Fault
              \/ /\ danglingMutatingIntents(events) # {}
                 /\ Plans(p) /\ UNCHANGED trust /\ NoFault
  <1> DEFINE dangling == danglingMutatingIntents(events) # {}
             known == Identified(events) # {}
             last == LastOf(events, Identified(events))
             boundary == IF dangling THEN RecoveryBoundary(events) ELSE events[last].intentSeq
             suffix == SuffixFrom(events, boundary)
             ambiguous == \E g \in suffix : Cardinality(Terminals(events, g.intent)) > 1
             planned == proc' = [proc EXCEPT ![p].at = IF ambiguous THEN "closing" ELSE "restore",
                                             ![p].mismatch = ~dangling, ![p].suffix = suffix,
                                             ![p].todo = suffix]
  <1>1. /\ At(p, "admit") /\ KeepLog /\ Quietly /\ UNCHANGED worktree
        /\ \/ /\ ~dangling /\ ~known
              /\ Goto(p, "gate") /\ Unnoticed(p) /\ NoFault
           \/ /\ ~dangling /\ known /\ worktree = events[last].tree
              /\ \/ Goto(p, "gate") /\ Known(p) /\ NoFault
                 \/ planned /\ Doubted(p) /\ Fault
                 \/ Return(p) /\ UNCHANGED trust /\ Fault
           \/ /\ dangling \/ (known /\ worktree # events[last].tree)
              /\ planned /\ NoFault
              /\ IF dangling THEN UNCHANGED trust ELSE Doubted(p)
    BY DEF PlanRecovery
  <1>2. boundary = Boundary(events)
    BY DEF Boundary
  <1>3. (dangling \/ known) /\ planned => Plans(p)
    <2>1. ASSUME dangling \/ known, planned PROVE Plans(p)
      <3> DEFINE x == IF ambiguous THEN "closing" ELSE "restore"
                 f == ~dangling
      <3>1. x \in {"closing", "restore"} /\ f \in Flag
        BY DEF Flag
      <3>2. proc' = [proc EXCEPT ![p].at = x, ![p].mismatch = f,
                                 ![p].suffix = SuffixFrom(events, Boundary(events)),
                                 ![p].todo = SuffixFrom(events, Boundary(events))]
        BY <2>1, <1>2
      <3> HIDE DEF x, f
      <3>3. QED
        BY <2>1, <3>1, <3>2 DEF Plans
    <2>2. QED
      BY <2>1
  <1>4. known => AcceptedTree(events) = events[last].tree
    BY DEF AcceptedTree
  <1> HIDE DEF planned
  <1>5. QED
    BY <1>1, <1>3, <1>4

\* The suffix of a boundary holds every intent from there on with its first terminal.
LEMMA SuffixFacts ==
    ASSUME NEW l, LogShape(l), NEW b
    PROVE  /\ SuffixFrom(l, b) \in Steps
           /\ \A g \in SuffixFrom(l, b) :
                 /\ StepIn(l, g) /\ g.intent \in Intents(l) /\ g.intent >= b
                 /\ g = [intent |-> g.intent, terminal |-> FirstTerminal(l, g.intent)]
                 /\ g.terminal = 0 => g.intent \in danglingMutatingIntents(l)
           /\ \A i \in Intents(l) : i >= b =>
                 [intent |-> i, terminal |-> FirstTerminal(l, i)] \in SuffixFrom(l, b)
  <1>1. ASSUME NEW g \in SuffixFrom(l, b)
        PROVE  /\ g \in Step /\ StepIn(l, g) /\ g.intent \in Intents(l) /\ g.intent >= b
               /\ g = [intent |-> g.intent, terminal |-> FirstTerminal(l, g.intent)]
               /\ g.terminal = 0 => g.intent \in danglingMutatingIntents(l)
    <2>1. PICK i \in Intents(l) : i >= b /\ g = [intent |-> i, terminal |-> FirstTerminal(l, i)]
      BY DEF SuffixFrom
    <2>2. /\ i \in Nat
          /\ Terminals(l, i) = {} => FirstTerminal(l, i) = 0
          /\ Terminals(l, i) # {} => FirstTerminal(l, i) \in Terminals(l, i)
      BY IntentFields, TerminalFirst
    <2>3. \A j \in Terminals(l, i) : j \in Nat /\ j # 0
      BY EventFields DEF Terminals
    <2>4. QED
      BY <2>1, <2>2, <2>3 DEF Step, StepIn, danglingMutatingIntents
  <1>2. \A i \in Intents(l) : i >= b =>
           [intent |-> i, terminal |-> FirstTerminal(l, i)] \in SuffixFrom(l, b)
    BY DEF SuffixFrom
  <1>3. QED
    BY <1>1, <1>2 DEF Steps

\* The boundary is an intent of the log, so the suffix is not empty.
LEMMA BoundaryIn ==
    ASSUME NEW l, LogShape(l), danglingMutatingIntents(l) # {} \/ Identified(l) # {}
    PROVE  /\ Boundary(l) \in Intents(l)
           /\ SuffixFrom(l, Boundary(l)) # {}
  <1>1. ASSUME danglingMutatingIntents(l) # {} PROVE Boundary(l) \in Intents(l)
    <2> DEFINE S == {i \in Identified(l) : l[i].intentSeq # 0 /\ l[i].intentSeq < EarliestDangling(l)}
    <2>1. EarliestDangling(l) \in Intents(l)
      BY <1>1, DanglingFirst DEF danglingMutatingIntents
    <2>2. Boundary(l) = IF S = {} THEN EarliestDangling(l) ELSE l[LastOf(l, S)].intentSeq
      BY <1>1 DEF Boundary, RecoveryBoundary
    <2>3. S # {} => LastOf(l, S) \in Identified(l)
      <3>1. S \in SUBSET Identified(l)
        OBVIOUS
      <3> HIDE DEF S
      <3>2. QED
        BY <3>1, LastOfIn
    <2>4. S # {} => l[LastOf(l, S)].intentSeq \in Intents(l)
      BY <2>3, IdentifiedFields
    <2> HIDE DEF S
    <2>5. CASE S = {}
      <3>1. Boundary(l) = EarliestDangling(l)
        BY <2>2, <2>5
      <3>2. QED
        BY <2>1, <3>1
    <2>6. CASE S # {}
      <3>1. Boundary(l) = l[LastOf(l, S)].intentSeq
        BY <2>2, <2>6
      <3>2. QED
        BY <2>4, <2>6, <3>1
    <2>7. QED
      BY <2>5, <2>6
  <1>2. ASSUME danglingMutatingIntents(l) = {} PROVE Boundary(l) \in Intents(l)
    <2>1. LastOf(l, Identified(l)) \in Identified(l)
      BY <1>2, LastOfIn
    <2>2. Boundary(l) = l[LastOf(l, Identified(l))].intentSeq
      BY <1>2 DEF Boundary
    <2>3. l[LastOf(l, Identified(l))].intentSeq \in Intents(l)
      BY <2>1, IdentifiedFields
    <2>4. QED
      BY <2>2, <2>3
  <1>3. Boundary(l) \in Intents(l)
    BY <1>1, <1>2
  <1>4. Boundary(l) >= Boundary(l)
    BY <1>3, IntentFields
  <1>5. QED
    BY <1>3, <1>4, SuffixFacts

\* A plan is well formed.
LEMMA PlansType ==
    ASSUME TypeInv, NEW p \in Procs, Plans(p), At(p, "admit"), KeepLog, Quietly,
           worktree' \in Tree, trust' \in Trusts, faults' \in 0..MaxFaults
    PROVE  TypeInv'
  <1> DEFINE s == SuffixFrom(events, Boundary(events))
  <1>1. PICK x \in {"closing", "restore"}, f \in Flag :
           proc' = [proc EXCEPT ![p].at = x, ![p].mismatch = f, ![p].suffix = s, ![p].todo = s]
    BY DEF Plans
  <1> DEFINE r == [proc[p] EXCEPT !.at = x, !.mismatch = f, !.suffix = s, !.todo = s]
  <1>2. proc[p] \in ProcRec /\ ProcOK(proc[p], events) /\ proc \in [Procs -> ProcRec]
    BY DEF TypeInv
  <1>3. s \in Steps /\ s # {} /\ \A g \in s : StepIn(events, g)
    BY Here, SuffixFacts, BoundaryIn DEF Plans
  <1> HIDE DEF s
  <1>4. proc' = [proc EXCEPT ![p] = r]
    BY <1>1, <1>2
  <1>5. x \in Phases
    BY DEF Phases
  <1>6. /\ r \in ProcRec /\ r.at = x /\ r.suffix = s /\ r.todo = s /\ r.pending = proc[p].pending
    BY <1>2, <1>3, <1>5 DEF ProcRec
  <1>7. proc[p].pending = <<>>
    BY <1>2 DEF ProcOK, At
  <1>8. DOMAIN proc[p].pending = {}
    BY <1>7
  <1> HIDE DEF r
  <1>9. ProcOK(r, events)
    BY <1>3, <1>6, <1>7, <1>8 DEF ProcOK
  <1>10. QED
    BY <1>4, <1>6, <1>9, TypeStep DEF KeepLog, Quietly

\* PlanRecovery keeps the types.
LEMMA PlanRecoveryType ==
    ASSUME TypeInv, NEW p \in Procs, PlanRecovery(p)
    PROVE  TypeInv'
  <1>1. /\ worktree' \in Tree /\ trust' \in Trusts /\ faults' \in 0..MaxFaults
    BY PlanCases, Here, Trusting, Faulty
  <1>2. ASSUME Goto(p, "gate") PROVE TypeInv'
    <2>1. "gate" \in Phases
      BY DEF Phases
    <2>2. QED
      BY <1>1, <1>2, <2>1, PlanCases, GotoType
  <1>3. QED
    BY <1>1, <1>2, PlanCases, PlansType, ReturnType

\* restoreArtifactSnapshot keeps the types.
LEMMA restoreType ==
    ASSUME TypeInv, NEW p \in Procs, restoreArtifactSnapshot(p)
    PROVE  TypeInv'
  <1>1. proc[p].suffix # {}
    BY Here DEF restoreArtifactSnapshot, At, ProcOK
  <1>2. events[Earliest(proc[p].suffix).intent].tree \in Tree
    BY <1>1, BaseFields
  <1>3. "replay" \in Phases /\ "closing" \in Phases
    BY DEF Phases
  <1>4. KeepLog /\ Quietly /\ (Goto(p, "replay") \/ Goto(p, "closing"))
    BY DEF restoreArtifactSnapshot
  <1>5. worktree' \in Tree /\ trust' \in Trusts /\ faults' \in 0..MaxFaults
    <2>1. CASE Overwrite(p, events[Earliest(proc[p].suffix).intent].tree) /\ NoFault
      BY <2>1, <1>2, Here, Trusting, Faulty
    <2>2. CASE KeepTree /\ Fault
      BY <2>2, Here, Trusting, Faulty
    <2>3. QED
      BY <2>1, <2>2 DEF restoreArtifactSnapshot
  <1>6. QED
    BY <1>1, <1>3, <1>4, <1>5, GotoType

\* The current generation is done with, and perhaps a terminal is due for it.
LEMMA NextType ==
    ASSUME TypeInv, NEW p \in Procs, proc[p].todo # {}, NEW r \in ProcRec,
           r.at \in {"replay", "invalidate"}, r.suffix = proc[p].suffix,
           r.todo = proc[p].todo \ {Current(p)}, proc[p].at \in {"replay", "recheck", "invalidate"},
           r.at = "replay" => proc[p].at # "invalidate",
           \/ r.pending = proc[p].pending
           \/ \E t \in Tree \cup {Blob} :
                 r.pending = Append(proc[p].pending, [intent |-> Current(p).intent, tree |-> t])
    PROVE  ProcOK(r, events)
  <1>1. proc[p] \in ProcRec /\ ProcOK(proc[p], events)
    BY Here
  <1>2. proc[p].pending \in Seq(PendingStep)
    BY <1>1, FieldsOf DEF Pendings
  <1>3. \A n \in DOMAIN r.pending : r.pending[n].intent \in Intents(events)
    <2>1. CASE r.pending = proc[p].pending
      BY <2>1, <1>1 DEF ProcOK
    <2>2. ASSUME NEW t \in Tree \cup {Blob},
                 r.pending = Append(proc[p].pending, [intent |-> Current(p).intent, tree |-> t])
          PROVE  \A n \in DOMAIN r.pending : r.pending[n].intent \in Intents(events)
      <3> DEFINE s == proc[p].pending
                 e == [intent |-> Current(p).intent, tree |-> t]
      <3>1. e.intent \in Intents(events) /\ e \in PendingStep
        BY CurrentFields, IntentFields, Here DEF PendingStep
      <3>2. \A n \in DOMAIN s : s[n].intent \in Intents(events)
        BY <1>1 DEF ProcOK
      <3> HIDE DEF e, s
      <3>3. \A n \in DOMAIN Append(s, e) : Append(s, e)[n] = e \/ (n \in DOMAIN s /\ Append(s, e)[n] = s[n])
        BY <1>2, <3>1 DEF s
      <3>4. QED
        BY <2>2, <3>1, <3>2, <3>3 DEF s, e
    <2>3. QED
      BY <2>1, <2>2
  <1>4. r.todo \subseteq r.suffix
    BY CurrentFields
  <1>5. proc[p].suffix # {}
    BY <1>1 DEF ProcOK
  <1>6. QED
    BY <1>1, <1>3, <1>4, <1>5 DEF ProcOK

\* SkipRejected keeps the types.
LEMMA SkipRejectedType ==
    ASSUME TypeInv, NEW p \in Procs, SkipRejected(p)
    PROVE  TypeInv'
  <1> DEFINE s == proc[p].todo \ {Current(p)}
             r == [proc[p] EXCEPT !.todo = s]
  <1>1. proc[p] \in ProcRec /\ ProcOK(proc[p], events) /\ proc \in [Procs -> ProcRec]
    BY DEF TypeInv
  <1>2. proc[p].todo # {} /\ proc[p].at = "replay"
    BY DEF SkipRejected, At
  <1>3. proc' = [proc EXCEPT ![p] = r]
    BY <1>1 DEF SkipRejected
  <1>4. s \in Steps
    BY <1>2, CurrentFields
  <1> HIDE DEF s
  <1>5. r \in ProcRec /\ r.at = "replay" /\ r.todo = s /\ r.suffix = proc[p].suffix /\ r.pending = proc[p].pending
    BY <1>1, <1>2, <1>4 DEF ProcRec
  <1> HIDE DEF r
  <1>6. ProcOK(r, events)
    BY <1>2, <1>5, NextType DEF s
  <1>7. QED
    BY <1>3, <1>5, <1>6, TypeStep, Here, Trusting, Faulty DEF SkipRejected, KeepLog, Quietly

\* ReplayGeneration keeps the types.
LEMMA ReplayGenerationType ==
    ASSUME TypeInv, NEW p \in Procs, ReplayGeneration(p)
    PROVE  TypeInv'
  <1> DEFINE a == events[Current(p).intent].actionId
             effects == performApply(a, worktree)
             s == proc[p].todo \ {Current(p)}
             q == Append(proc[p].pending, [intent |-> Current(p).intent, tree |-> Blob])
             r == [proc[p] EXCEPT !.todo = s, !.pending = q]
  <1>1. proc[p] \in ProcRec /\ ProcOK(proc[p], events) /\ proc \in [Procs -> ProcRec]
    BY DEF TypeInv
  <1>2. proc[p].todo # {} /\ proc[p].at = "replay" /\ proc[p].suffix # {}
    BY <1>1 DEF ReplayGeneration, At, ProcOK
  <1>3. Current(p).intent \in Intents(events) /\ s \in Steps
    BY <1>2, CurrentFields
  <1>4. events[Current(p).intent].tree \in Tree /\ a \in Ids
    BY <1>3, Here, IntentFields
  <1>5. \A t \in effects : t \in Tree
    BY <1>4, Here, Applying
  <1>6. worktree' \in Tree /\ trust' \in Trusts /\ faults' \in 0..MaxFaults
    <2>1. ASSUME NEW t \in effects, worktree' = t, trust' = "lost" \/ Overwrite(p, t), NoFault
          PROVE  worktree' \in Tree /\ trust' \in Trusts /\ faults' \in 0..MaxFaults
      <3>1. "lost" \in Trusts
        BY DEF Trusts
      <3>2. QED
        BY <2>1, <3>1, <1>5, Here, Trusting, Faulty
    <2>2. ASSUME Overwrite(p, events[Current(p).intent].tree), Fault
          PROVE  worktree' \in Tree /\ trust' \in Trusts /\ faults' \in 0..MaxFaults
      BY <2>2, <1>4, Here, Trusting, Faulty
    <2>3. ASSUME KeepTree, Fault \/ NoFault
          PROVE  worktree' \in Tree /\ trust' \in Trusts /\ faults' \in 0..MaxFaults
      BY <2>3, Here, Trusting, Faulty
    <2>4. QED
      BY <2>1, <2>2, <2>3 DEF ReplayGeneration, Overwrite
  <1>7. KeepLog /\ Quietly
    BY DEF ReplayGeneration
  <1>8. \/ Goto(p, "recheck")
        \/ Goto(p, "closing")
        \/ proc' = [proc EXCEPT ![p].todo = @ \ {Current(p)},
                                ![p].pending = Append(@, [intent |-> Current(p).intent, tree |-> Blob])]
    BY DEF ReplayGeneration
  <1>9. "recheck" \in Phases /\ "closing" \in Phases
    BY DEF Phases
  <1>10. CASE proc' = [proc EXCEPT ![p].todo = @ \ {Current(p)},
                                  ![p].pending = Append(@, [intent |-> Current(p).intent, tree |-> Blob])]
    <2>1. proc' = [proc EXCEPT ![p] = r]
      BY <1>1, <1>10
    <2>2. q \in Pendings
      <3>1. proc[p].pending \in Seq(PendingStep)
        BY <1>1, FieldsOf DEF Pendings
      <3>2. [intent |-> Current(p).intent, tree |-> Blob] \in PendingStep
        BY <1>3, Here, IntentFields DEF PendingStep
      <3>3. QED
        BY <3>1, <3>2 DEF Pendings
    <2> HIDE DEF s, q
    <2>3. r \in ProcRec /\ r.at = "replay" /\ r.todo = s /\ r.suffix = proc[p].suffix /\ r.pending = q
      BY <1>1, <1>2, <1>3, <2>2 DEF ProcRec
    <2> HIDE DEF r
    <2>4. ProcOK(r, events)
      BY <1>2, <2>3, NextType DEF s, q
    <2>5. QED
      BY <1>6, <1>7, <2>1, <2>3, <2>4, TypeStep DEF KeepLog, Quietly
  <1>11. QED
    BY <1>2, <1>6, <1>7, <1>8, <1>9, <1>10, GotoType

\* RecheckGeneration keeps the types.
LEMMA RecheckGenerationType ==
    ASSUME TypeInv, NEW p \in Procs, RecheckGeneration(p)
    PROVE  TypeInv'
  <1> DEFINE s == proc[p].todo \ {Current(p)}
             e == [intent |-> Current(p).intent, tree |-> worktree]
             q == IF Accepted(p) THEN proc[p].pending ELSE Append(proc[p].pending, e)
             r == [proc[p] EXCEPT !.at = "replay", !.todo = s, !.hash = worktree,
                                  !.replayed = TRUE, !.pending = q]
  <1>1. proc[p] \in ProcRec /\ ProcOK(proc[p], events) /\ proc \in [Procs -> ProcRec]
    BY DEF TypeInv
  <1>2. proc[p].todo # {} /\ proc[p].at = "recheck" /\ proc[p].suffix # {}
    BY <1>1 DEF RecheckGeneration, At, ProcOK
  <1>3. worktree' \in Tree /\ trust' \in Trusts /\ faults' \in 0..MaxFaults /\ KeepLog /\ Quietly
    BY Here, Trusting, Faulty DEF RecheckGeneration
  <1>4. "closing" \in Phases /\ "replay" \in Phases /\ TRUE \in Flag
    BY DEF Phases, Flag
  <1>5. CASE proc' = [proc EXCEPT
                        ![p].at = "replay", ![p].todo = @ \ {Current(p)}, ![p].hash = worktree,
                        ![p].replayed = TRUE,
                        ![p].pending = IF Accepted(p) THEN @
                                       ELSE Append(@, [intent |-> Current(p).intent,
                                                       tree |-> worktree])]
    <2>1. proc' = [proc EXCEPT ![p] = r]
      BY <1>1, <1>5
    <2>2. s \in Steps /\ worktree \in Tree
      BY <1>2, CurrentFields, Here
    <2>3. e \in PendingStep
      BY <1>2, CurrentFields, IntentFields, Here DEF PendingStep
    <2>4. q \in Pendings
      <3> HIDE DEF e
      <3>1. proc[p].pending \in Seq(PendingStep)
        BY <1>1, FieldsOf DEF Pendings
      <3>2. QED
        BY <2>3, <3>1 DEF Pendings
    <2>5. \/ q = proc[p].pending
          \/ \E t \in Tree \cup {Blob} :
                q = Append(proc[p].pending, [intent |-> Current(p).intent, tree |-> t])
      BY <2>2
    <2> HIDE DEF s, q
    <2>6. r \in ProcRec /\ r.at = "replay" /\ r.todo = s /\ r.suffix = proc[p].suffix /\ r.pending = q
      BY <1>1, <1>4, <2>2, <2>4 DEF ProcRec
    <2> HIDE DEF r
    <2>7. ProcOK(r, events)
      BY <1>2, <2>5, <2>6, NextType DEF s
    <2>8. QED
      BY <1>3, <2>1, <2>6, <2>7, TypeStep DEF KeepLog, Quietly
  <1>6. QED
    BY <1>2, <1>3, <1>4, <1>5, GotoType DEF RecheckGeneration

\* FinalIdentity keeps the types.
LEMMA FinalIdentityType ==
    ASSUME TypeInv, NEW p \in Procs, FinalIdentity(p)
    PROVE  TypeInv'
  <1>1. proc[p].suffix # {}
    BY Here DEF FinalIdentity, At, ProcOK
  <1>2. worktree' \in Tree /\ trust' \in Trusts /\ faults' \in 0..MaxFaults /\ KeepLog /\ Quietly
    BY Here, Trusting, Faulty DEF FinalIdentity
  <1>3. "closing" \in Phases /\ "conclude" \in Phases
    BY DEF Phases
  <1>4. Goto(p, "closing") \/ Goto(p, "conclude")
    BY DEF FinalIdentity
  <1>5. QED
    BY <1>1, <1>2, <1>3, <1>4, GotoType

\* FailClosed keeps the types.
LEMMA FailClosedType ==
    ASSUME TypeInv, NEW p \in Procs, FailClosed(p)
    PROVE  TypeInv'
  <1> DEFINE r == [proc[p] EXCEPT !.at = "invalidate", !.todo = proc[p].suffix]
  <1>1. proc[p] \in ProcRec /\ ProcOK(proc[p], events) /\ proc \in [Procs -> ProcRec]
    BY DEF TypeInv
  <1>2. proc[p].suffix # {}
    BY Here DEF FailClosed, At, ProcOK
  <1>3. events[Earliest(proc[p].suffix).intent].tree \in Tree
    BY <1>2, BaseFields
  <1>4. worktree' \in Tree /\ trust' \in Trusts /\ faults' \in 0..MaxFaults /\ KeepLog /\ Quietly
    BY <1>3, Here, Trusting, Faulty DEF FailClosed
  <1>5. CASE proc' = [proc EXCEPT ![p].at = "invalidate", ![p].todo = proc[p].suffix]
    <2>1. proc' = [proc EXCEPT ![p] = r]
      BY <1>1, <1>5
    <2>2. "invalidate" \in Phases
      BY DEF Phases
    <2>3. /\ r \in ProcRec /\ r.at = "invalidate" /\ r.todo = proc[p].suffix
          /\ r.suffix = proc[p].suffix /\ r.pending = proc[p].pending
      BY <1>1, <2>2 DEF ProcRec
    <2> HIDE DEF r
    <2>4. ProcOK(r, events)
      BY <1>1, <1>2, <2>3 DEF ProcOK
    <2>5. QED
      BY <1>4, <2>1, <2>3, <2>4, TypeStep DEF KeepLog, Quietly
  <1>6. QED
    BY <1>4, <1>5, ReturnType DEF FailClosed

\* createActionSnapshot keeps the types.
LEMMA createActionSnapshotType ==
    ASSUME TypeInv, NEW p \in Procs, createActionSnapshot(p)
    PROVE  TypeInv'
  <1> DEFINE r == [proc[p] EXCEPT !.at = "intent", !.tree = worktree]
  <1>1. proc[p] \in ProcRec /\ ProcOK(proc[p], events) /\ proc \in [Procs -> ProcRec] /\ worktree \in Tree
    BY DEF TypeInv
  <1>2. worktree' \in Tree /\ trust' \in Trusts /\ faults' \in 0..MaxFaults /\ KeepLog /\ Quietly
    BY Here, Trusting, Faulty DEF createActionSnapshot
  <1>3. CASE proc' = [proc EXCEPT ![p].at = "intent", ![p].tree = worktree]
    <2>1. proc' = [proc EXCEPT ![p] = r]
      BY <1>1, <1>3
    <2>2. "intent" \in Phases
      BY DEF Phases
    <2>3. /\ r \in ProcRec /\ r.at = "intent" /\ r.id = proc[p].id /\ r.todo = proc[p].todo
          /\ r.suffix = proc[p].suffix /\ r.pending = proc[p].pending
      BY <1>1, <2>2 DEF ProcRec
    <2> HIDE DEF r
    <2>4. Mutating(proc[p].id)
      BY <1>1 DEF createActionSnapshot, At, ProcOK
    <2>5. ProcOK(r, events)
      BY <1>1, <2>3, <2>4 DEF ProcOK
    <2>6. QED
      BY <1>2, <2>1, <2>3, <2>5, TypeStep DEF KeepLog, Quietly
  <1>4. QED
    BY <1>2, <1>3, ReturnType DEF createActionSnapshot

\* Apply keeps the types.
LEMMA ApplyType ==
    ASSUME TypeInv, NEW p \in Procs, Apply(p)
    PROVE  TypeInv'
  <1>1. /\ proc[p].seq \in Intents(events) /\ events[proc[p].seq].actionId = proc[p].id
        /\ proc[p].id \in Ids /\ worktree \in Tree
    BY Here, FieldsOf DEF Apply, At, ProcOK
  <1>2. \A t \in performApply(proc[p].id, worktree) : t \in Tree
    BY <1>1, Applying
  <1>3. worktree' \in Tree /\ trust' \in Trusts /\ faults' \in 0..MaxFaults
    <2>1. ASSUME NEW t \in performApply(proc[p].id, worktree), Overwrite(p, t), NoFault
          PROVE  worktree' \in Tree /\ trust' \in Trusts /\ faults' \in 0..MaxFaults
      BY <2>1, <1>2, Here, Trusting, Faulty
    <2>2. ASSUME KeepTree, Fault \/ NoFault
          PROVE  worktree' \in Tree /\ trust' \in Trusts /\ faults' \in 0..MaxFaults
      BY <2>2, Here, Trusting, Faulty
    <2>3. QED
      BY <2>1, <2>2 DEF Apply
  <1>4. KeepLog /\ Quietly /\ (Goto(p, "capture") \/ Goto(p, "rollback"))
    BY DEF Apply
  <1>5. "capture" \in Phases /\ "rollback" \in Phases
    BY DEF Phases
  <1>6. QED
    BY <1>1, <1>3, <1>4, <1>5, GotoType

\* captureArtifactState keeps the types.
LEMMA captureType ==
    ASSUME TypeInv, NEW p \in Procs, captureArtifactState(p)
    PROVE  TypeInv'
  <1> DEFINE r == [proc[p] EXCEPT !.at = "record", !.hash = worktree]
  <1>1. proc[p] \in ProcRec /\ ProcOK(proc[p], events) /\ proc \in [Procs -> ProcRec] /\ worktree \in Tree
    BY DEF TypeInv
  <1>2. worktree' \in Tree /\ trust' \in Trusts /\ faults' \in 0..MaxFaults /\ KeepLog /\ Quietly
    BY Here, Trusting, Faulty DEF captureArtifactState
  <1>3. proc[p].seq \in Intents(events) /\ events[proc[p].seq].actionId = proc[p].id
    BY <1>1 DEF captureArtifactState, At, ProcOK
  <1>4. "record" \in Phases /\ "rollback" \in Phases
    BY DEF Phases
  <1>5. CASE proc' = [proc EXCEPT ![p].at = "record", ![p].hash = worktree]
    <2>1. proc' = [proc EXCEPT ![p] = r]
      BY <1>1, <1>5
    <2>2. /\ r \in ProcRec /\ r.at = "record" /\ r.id = proc[p].id /\ r.todo = proc[p].todo
          /\ r.suffix = proc[p].suffix /\ r.pending = proc[p].pending /\ r.seq = proc[p].seq
      BY <1>1, <1>4 DEF ProcRec
    <2> HIDE DEF r
    <2>3. ProcOK(r, events)
      BY <1>1, <1>3, <2>2 DEF ProcOK
    <2>4. QED
      BY <1>2, <2>1, <2>2, <2>3, TypeStep DEF KeepLog, Quietly
  <1>6. QED
    BY <1>2, <1>3, <1>4, <1>5, GotoType DEF captureArtifactState

\* Rollback keeps the types.
LEMMA RollbackType ==
    ASSUME TypeInv, NEW p \in Procs, Rollback(p)
    PROVE  TypeInv'
  <1>1. proc[p].seq \in Intents(events) /\ events[proc[p].seq].actionId = proc[p].id /\ proc[p].tree \in Tree
    BY Here, FieldsOf DEF Rollback, At, ProcOK
  <1>2. worktree' \in Tree /\ trust' \in Trusts /\ faults' \in 0..MaxFaults /\ KeepLog /\ Quietly
    BY <1>1, Here, Trusting, Faulty DEF Rollback
  <1>3. "undone" \in Phases
    BY DEF Phases
  <1>4. QED
    BY <1>1, <1>2, <1>3, GotoType, ReturnType DEF Rollback

\* CrashInjected keeps the types.
LEMMA CrashInjectedType ==
    ASSUME TypeInv, NEW p \in Procs, CrashInjected(p)
    PROVE  TypeInv'
  <1>1. worktree' \in Tree /\ trust' \in Trusts /\ faults' \in 0..MaxFaults
    BY Here, Faulty DEF CrashInjected, Trusts
  <1>2. QED
    BY <1>1, ReturnType DEF CrashInjected

\* TakeLease keeps the types.
LEMMA TakeLeaseType ==
    ASSUME TypeInv, NEW p \in Procs, TakeLease(p)
    PROVE  TypeInv'
  <1>1. worktree' \in Tree /\ trust' \in Trusts /\ faults' \in 0..MaxFaults
    BY Here, Trusting, Faulty DEF TakeLease
  <1>2. QED
    BY <1>1 DEF TakeLease, TypeInv, KeepLog

\* WriteByOthers keeps the types.
LEMMA WriteByOthersType ==
    ASSUME TypeInv, WriteByOthers
    PROVE  TypeInv'
  <1>1. trust' \in Trusts /\ faults' \in 0..MaxFaults
    BY Trusting, Faulty DEF WriteByOthers, TypeInv
  <1>2. worktree' \in Tree
    BY DEF WriteByOthers, TypeInv, Tree
  <1>3. QED
    BY <1>1, <1>2 DEF WriteByOthers, TypeInv, KeepLog, Quietly

EventTypes == {"ACTION_INTENT", "ACTION_APPLIED", "ACTION_REJECTED"}
Artifact == Tree \cup {Blob}

\* An appended event is an Event.
LEMMA AppendedIn ==
    ASSUME NEW type, type \in {"ACTION_INTENT", "ACTION_APPLIED", "ACTION_REJECTED"},
           NEW a \in Ids, NEW i \in Nat, NEW t, t \in Tree \cup {Blob}, NEW dup \in BOOLEAN,
           NEW v \in Nat
    PROVE  appended(type, a, i, t, dup, v) \in Event
  <1>1. Event = [type : EventTypes, actionId : Ids, intentSeq : Nat, tree : Artifact,
                 duplicate : Flag, invalidates : Nat]
    BY DEF Event, EventTypes, Artifact, Flag
  <1>2. type \in EventTypes /\ t \in Artifact /\ dup \in Flag
    BY DEF EventTypes, Artifact, Flag
  <1>3. QED
    BY <1>1, <1>2 DEF appended

\* A rejection that names an intent of the log, or none, may be appended.
LEMMA RejectionFits ==
    ASSUME NEW l, LogShape(l), NEW a \in Ids, NEW i \in Nat, NEW v \in Nat,
           i # 0 => i \in Intents(l) /\ l[i].actionId = a
    PROVE  EventFits(l, appended("ACTION_REJECTED", a, i, Blob, FALSE, v))
  <1> DEFINE e == appended("ACTION_REJECTED", a, i, Blob, FALSE, v)
  <1>1. /\ e.type = "ACTION_REJECTED" /\ e.actionId = a /\ e.intentSeq = i /\ e.tree = Blob
        /\ e.duplicate = FALSE /\ e.invalidates = v
    BY DEF appended
  <1>2. e \in Event
    BY AppendedIn
  <1> HIDE DEF e
  <1>3. e.intentSeq # 0 => e.intentSeq \in Intents(l) /\ l[e.intentSeq].actionId = e.actionId
    BY <1>1
  <1>4. EventFits(l, e)
    BY <1>1, <1>2, <1>3 DEF EventFits
  <1>5. QED
    BY <1>4 DEF e

\* An acceptance of an intent of the log may be appended.
LEMMA AcceptanceFits ==
    ASSUME NEW l, LogShape(l), NEW a \in Ids, NEW i \in Intents(l), l[i].actionId = a, NEW t \in Tree
    PROVE  EventFits(l, appended("ACTION_APPLIED", a, i, t, FALSE, 0))
  <1> DEFINE e == appended("ACTION_APPLIED", a, i, t, FALSE, 0)
  <1>0. i \in Nat /\ i # 0 /\ t # Blob
    BY IntentFields, ExecutorAssumption
  <1>1. /\ e.type = "ACTION_APPLIED" /\ e.actionId = a /\ e.intentSeq = i /\ e.tree = t
        /\ e.duplicate = FALSE /\ e.invalidates = 0
    BY DEF appended
  <1>2. e \in Event
    BY <1>0, AppendedIn
  <1> HIDE DEF e
  <1>3. e.intentSeq # 0 => e.intentSeq \in Intents(l) /\ l[e.intentSeq].actionId = e.actionId
    BY <1>1
  <1>4. e.tree # Blob /\ e.intentSeq # 0 /\ ~e.duplicate
    BY <1>0, <1>1
  <1>5. EventFits(l, e)
    BY <1>1, <1>2, <1>3, <1>4 DEF EventFits
  <1>6. QED
    BY <1>5 DEF e

\* ConcludeRecovery keeps the types.
LEMMA ConcludeRecoveryType ==
    ASSUME TypeInv, NEW p \in Procs, ConcludeRecovery(p)
    PROVE  TypeInv'
  <1> DEFINE next == Head(proc[p].pending)
             a == events[next.intent].actionId
             type == IF next.tree = Blob THEN "ACTION_REJECTED" ELSE "ACTION_APPLIED"
             e == appended(type, a, next.intent, next.tree, FALSE, 0)
             q == Tail(proc[p].pending)
             r == [proc[p] EXCEPT !.pending = q]
  <1>1. proc[p] \in ProcRec /\ ProcOK(proc[p], events) /\ proc \in [Procs -> ProcRec] /\ LogShape(events)
    BY DEF TypeInv
  <1>2. proc[p].at = "conclude" /\ Quietly
    BY DEF ConcludeRecovery, At
  <1>3. worktree' \in Tree /\ trust' \in Trusts /\ faults' \in 0..MaxFaults
    <2>1. faults' \in 0..MaxFaults /\ worktree' \in Tree
      BY Here, Faulty DEF ConcludeRecovery
    <2>2. Unfenced(p) \/ Known(p) \/ UNCHANGED trust
      BY DEF ConcludeRecovery
    <2>3. QED
      BY <2>1, <2>2, Here, Trusting
  <1>4. ASSUME proc[p].pending # <<>>, Log(e), proc' = [proc EXCEPT ![p].pending = Tail(@)]
        PROVE  TypeInv'
    <2>1. proc[p].pending \in Seq(PendingStep)
      BY <1>1, FieldsOf DEF Pendings
    <2>2. next \in PendingStep /\ q \in Seq(PendingStep) /\ next = proc[p].pending[1]
          /\ 1 \in DOMAIN proc[p].pending /\ \A n \in DOMAIN q : q[n] = proc[p].pending[n + 1] /\ n + 1 \in DOMAIN proc[p].pending
      BY <1>4, <2>1
    <2> HIDE DEF q
    <2>3. next.intent \in Intents(events) /\ (\A n \in DOMAIN q : q[n].intent \in Intents(events))
      BY <1>1, <2>2 DEF ProcOK
    <2>4. next.tree \in Tree \cup {Blob}
      BY <2>2 DEF PendingStep
    <2>5. a \in Ids
      BY <2>3, <1>1, IntentFields
    <2>6. EventFits(events, e)
      <3>1. CASE next.tree = Blob
        <4>1. e = appended("ACTION_REJECTED", a, next.intent, Blob, FALSE, 0)
          BY <3>1
        <4>2. next.intent \in Nat
          BY <2>3, <1>1, IntentFields
        <4>3. QED
          BY <4>1, <4>2, <2>3, <2>5, <1>1, RejectionFits
      <3>2. CASE next.tree # Blob
        <4>1. e = appended("ACTION_APPLIED", a, next.intent, next.tree, FALSE, 0)
          BY <3>2
        <4>2. QED
          BY <4>1, <3>2, <2>3, <2>4, <2>5, <1>1, AcceptanceFits
      <3>3. QED
        BY <3>1, <3>2
    <2> HIDE DEF e
    <2>7. proc' = [proc EXCEPT ![p] = r]
      BY <1>1, <1>4 DEF q
    <2>8. /\ r \in ProcRec /\ r.at = "conclude" /\ r.suffix = proc[p].suffix
          /\ r.todo = proc[p].todo /\ r.pending = q
      BY <1>1, <1>2, <2>2 DEF ProcRec, Pendings
    <2> HIDE DEF r
    <2>9. ProcOK(r, events)
      BY <1>1, <1>2, <2>3, <2>8 DEF ProcOK
    <2>10. ProcOK(r, events')
      BY <1>1, <1>4, <2>6, <2>9, Appending, ProcGrows DEF Log
    <2>11. QED
      BY <1>2, <1>3, <1>4, <2>6, <2>7, <2>8, <2>10, TypeLog DEF Quietly
  <1>5. ASSUME KeepLog, Goto(p, "gate") \/ Goto(p, "closing") PROVE TypeInv'
    <2>1. "gate" \in Phases /\ "closing" \in Phases
      BY DEF Phases
    <2>2. proc[p].suffix # {}
      BY <1>1, <1>2 DEF ProcOK
    <2>3. CASE Goto(p, "gate")
      BY <1>2, <1>3, <1>5, <2>1, <2>3, GotoType
    <2>4. CASE Goto(p, "closing")
      BY <1>2, <1>3, <1>5, <2>1, <2>2, <2>4, GotoType
    <2>5. QED
      BY <1>5, <2>3, <2>4
  <1>6. QED
    BY <1>2, <1>3, <1>4, <1>5, ReturnType DEF ConcludeRecovery

\* InvalidateSuffix keeps the types.
LEMMA InvalidateSuffixType ==
    ASSUME TypeInv, NEW p \in Procs, InvalidateSuffix(p)
    PROVE  TypeInv'
  <1> DEFINE a == events[Current(p).intent].actionId
             s == proc[p].todo \ {Current(p)}
             r == [proc[p] EXCEPT !.todo = s]
  <1>1. proc[p] \in ProcRec /\ ProcOK(proc[p], events) /\ proc \in [Procs -> ProcRec] /\ LogShape(events)
    BY DEF TypeInv
  <1>2. proc[p].at = "invalidate" /\ Quietly
    BY DEF InvalidateSuffix, At
  <1>3. worktree' \in Tree /\ trust' \in Trusts /\ faults' \in 0..MaxFaults
    <2>1. faults' \in 0..MaxFaults /\ worktree' \in Tree
      BY Here, Faulty DEF InvalidateSuffix
    <2>2. Unfenced(p) \/ Known(p)
      BY DEF InvalidateSuffix
    <2>3. QED
      BY <2>1, <2>2, Here, Trusting
  <1>4. ASSUME proc[p].todo # {}, proc' = [proc EXCEPT ![p].todo = @ \ {Current(p)}],
               \/ Log(appended("ACTION_REJECTED", a, 0, Blob, FALSE, Current(p).terminal))
               \/ Log(appended("ACTION_REJECTED", a, Current(p).intent, Blob, FALSE, 0))
               \/ KeepLog
        PROVE  TypeInv'
    <2>1. /\ Current(p) \in Step /\ Current(p).intent \in Intents(events) /\ s \in Steps
      BY <1>4, CurrentFields
    <2>2. Current(p).intent \in Nat /\ Current(p).terminal \in Nat /\ a \in Ids
      BY <1>1, <2>1, IntentFields DEF Step
    <2>3. EventFits(events, appended("ACTION_REJECTED", a, 0, Blob, FALSE, Current(p).terminal))
      BY <1>1, <2>2, RejectionFits
    <2>4. EventFits(events, appended("ACTION_REJECTED", a, Current(p).intent, Blob, FALSE, 0))
      BY <1>1, <2>1, <2>2, RejectionFits
    <2>5. proc' = [proc EXCEPT ![p] = r]
      BY <1>1, <1>4
    <2> HIDE DEF s
    <2>6. /\ r \in ProcRec /\ r.at = "invalidate" /\ r.suffix = proc[p].suffix
          /\ r.todo = s /\ r.pending = proc[p].pending
      BY <1>1, <1>2, <2>1 DEF ProcRec
    <2> HIDE DEF r
    <2>7. ProcOK(r, events)
      BY <1>2, <1>4, <2>6, NextType DEF s
    <2>8. CASE KeepLog
      BY <1>2, <1>3, <2>5, <2>6, <2>7, <2>8, TypeStep DEF KeepLog, Quietly
    <2>9. ASSUME NEW e, EventFits(events, e), Log(e) PROVE TypeInv'
      <3>1. ProcOK(r, events')
        BY <1>1, <2>7, <2>9, Appending, ProcGrows DEF Log
      <3>2. QED
        BY <1>2, <1>3, <2>5, <2>6, <2>9, <3>1, TypeLog DEF Quietly
    <2>10. QED
      BY <1>4, <2>3, <2>4, <2>8, <2>9
  <1>5. QED
    BY <1>2, <1>3, <1>4, ReturnType DEF InvalidateSuffix

\* AfterAdmission keeps the types.
LEMMA AfterAdmissionType ==
    ASSUME TypeInv, NEW p \in Procs, AfterAdmission(p)
    PROVE  TypeInv'
  <1> DEFINE a == proc[p].id
             duplicate == alreadyApplied(events, a)
             e == appended("ACTION_APPLIED", a, 0, Blob, duplicate, 0)
  <1>1. worktree' \in Tree /\ trust' \in Trusts /\ faults' \in 0..MaxFaults /\ Quietly
    BY Here, Trusting, Faulty DEF AfterAdmission
  <1>2. a \in Ids /\ duplicate \in BOOLEAN
    BY Here, FieldsOf DEF alreadyApplied
  <1>3. EventFits(events, e)
    <2>1. /\ e.type = "ACTION_APPLIED" /\ e.tree = Blob /\ e.intentSeq = 0
      BY DEF appended
    <2>2. e \in Event
      BY <1>2, AppendedIn
    <2> HIDE DEF e
    <2>3. QED
      BY <2>1, <2>2 DEF EventFits
  <1>4. ASSUME Goto(p, "snapshot"), KeepLog, Mutating(a) PROVE TypeInv'
    <2>1. "snapshot" \in Phases
      BY DEF Phases
    <2>2. QED
      BY <1>1, <1>4, <2>1, GotoType
  <1>5. \/ Log(e) /\ Return(p)
        \/ Mutating(a) /\ Goto(p, "snapshot") /\ KeepLog
        \/ Return(p) /\ KeepLog
    BY DEF AfterAdmission
  <1> HIDE DEF e
  <1>6. QED
    BY <1>1, <1>3, <1>4, <1>5, ReturnType, ReturnLogType

\* AppendIntent keeps the types.
LEMMA AppendIntentType ==
    ASSUME TypeInv, NEW p \in Procs, AppendIntent(p)
    PROVE  TypeInv'
  <1> DEFINE e == appended("ACTION_INTENT", proc[p].id, 0, proc[p].tree, FALSE, 0)
             n == Len(events) + 1
             r == [proc[p] EXCEPT !.at = "apply", !.seq = n]
  <1>1. proc[p] \in ProcRec /\ ProcOK(proc[p], events) /\ proc \in [Procs -> ProcRec] /\ LogShape(events)
    BY DEF TypeInv
  <1>2. worktree' \in Tree /\ trust' \in Trusts /\ faults' \in 0..MaxFaults /\ Quietly
    BY Here, Trusting, Faulty DEF AppendIntent
  <1>3. proc[p].id \in Ids /\ proc[p].tree \in Tree /\ Mutating(proc[p].id)
    BY <1>1, FieldsOf DEF AppendIntent, At, ProcOK
  <1>4. EventFits(events, e) /\ e.type = "ACTION_INTENT" /\ e.actionId = proc[p].id
    <2>1. /\ e.type = "ACTION_INTENT" /\ e.tree = proc[p].tree /\ e.intentSeq = 0 /\ e.actionId = proc[p].id
      BY DEF appended
    <2>2. e \in Event
      BY <1>3, AppendedIn
    <2> HIDE DEF e
    <2>3. QED
      BY <1>3, <2>1, <2>2 DEF EventFits
  <1> HIDE DEF e
  <1>5. ASSUME Log(e), proc' = [proc EXCEPT ![p].at = "apply", ![p].seq = Len(events) + 1]
        PROVE  TypeInv'
    <2>1. Grown(events, events', Len(events)) /\ events'[n] = e /\ Len(events) \in Nat
      BY <1>1, <1>4, <1>5, Appending DEF Log
    <2>2. n \in Nat /\ "apply" \in Phases
      BY <2>1 DEF Phases
    <2>3. n \in Intents(events') /\ events'[n].actionId = proc[p].id
      BY <1>4, <2>1, GrownBasics DEF Intents
    <2>4. proc' = [proc EXCEPT ![p] = r]
      BY <1>1, <1>5
    <2> HIDE DEF n
    <2>5. /\ r \in ProcRec /\ r.at = "apply" /\ r.suffix = proc[p].suffix /\ r.id = proc[p].id
          /\ r.todo = proc[p].todo /\ r.pending = proc[p].pending /\ r.seq = n
      BY <1>1, <2>2 DEF ProcRec
    <2>6. ProcOK(proc[p], events')
      BY <1>1, <2>1, ProcGrows
    <2> HIDE DEF r
    <2>7. ProcOK(r, events')
      BY <2>3, <2>5, <2>6 DEF ProcOK
    <2>8. QED
      BY <1>2, <1>4, <1>5, <2>4, <2>5, <2>7, TypeLog DEF Quietly
  <1>6. QED
    BY <1>2, <1>5, ReturnType DEF AppendIntent, e

\* AppendApplied keeps the types.
LEMMA AppendAppliedType ==
    ASSUME TypeInv, NEW p \in Procs, AppendApplied(p)
    PROVE  TypeInv'
  <1> DEFINE e == appended("ACTION_APPLIED", proc[p].id, proc[p].seq, proc[p].hash, FALSE, 0)
  <1>1. worktree' \in Tree /\ trust' \in Trusts /\ faults' \in 0..MaxFaults /\ Quietly
    BY Here, Trusting, Faulty DEF AppendApplied
  <1>2. proc[p].seq \in Intents(events) /\ events[proc[p].seq].actionId = proc[p].id
    BY Here DEF AppendApplied, At, ProcOK
  <1>3. EventFits(events, e)
    BY <1>2, Here, FieldsOf, AcceptanceFits
  <1>4. ASSUME Goto(p, "rollback"), KeepLog PROVE TypeInv'
    <2>1. "rollback" \in Phases
      BY DEF Phases
    <2>2. QED
      BY <1>1, <1>2, <1>4, <2>1, GotoType
  <1>5. (Log(e) /\ Return(p)) \/ (Goto(p, "rollback") /\ KeepLog)
    BY DEF AppendApplied
  <1> HIDE DEF e
  <1>6. QED
    BY <1>1, <1>3, <1>4, <1>5, ReturnLogType

\* RejectUndone keeps the types.
LEMMA RejectUndoneType ==
    ASSUME TypeInv, NEW p \in Procs, RejectUndone(p)
    PROVE  TypeInv'
  <1> DEFINE e == appended("ACTION_REJECTED", proc[p].id, proc[p].seq, Blob, FALSE, 0)
  <1>1. worktree' \in Tree /\ trust' \in Trusts /\ faults' \in 0..MaxFaults /\ Quietly
    BY Here, Trusting, Faulty DEF RejectUndone
  <1>2. proc[p].seq \in Intents(events) /\ events[proc[p].seq].actionId = proc[p].id
    BY Here DEF RejectUndone, At, ProcOK
  <1>3. EventFits(events, e)
    BY <1>2, Here, FieldsOf, RejectionFits
  <1>4. Log(e) /\ Return(p)
    BY DEF RejectUndone
  <1> HIDE DEF e
  <1>5. QED
    BY <1>1, <1>3, <1>4, ReturnLogType

\* The types hold at the start.
LEMMA TypeInvInit == ASSUME ExecutorInit PROVE TypeInv
  <1>1. LogShape(events)
    BY DEF ExecutorInit, LogShape
  <1>2. worktree \in Tree /\ trust \in Trusts /\ faults \in 0..MaxFaults
    BY ExecutorAssumption DEF ExecutorInit, EmptyTree, Tree, Trusts
  <1>3. proc \in [Procs -> ProcRec] /\ \A p \in Procs : ProcOK(proc[p], events)
    BY IdleRec DEF ExecutorInit
  <1>4. QED
    BY <1>1, <1>2, <1>3 DEF TypeInv, ExecutorInit

\* Every step of any process, a crash, a takeover and a foreign write keep the types.
LEMMA TypeInvNext == ASSUME TypeInv, [ExecutorNext]_executorVars PROVE TypeInv'
  <1>1. ASSUME NEW p \in Procs, NEW a \in Ids, executeOnce(p, a) PROVE TypeInv'
    BY <1>1, executeOnceType
  <1>2. ASSUME NEW p \in Procs,
               \/ PlanRecovery(p) \/ restoreArtifactSnapshot(p) \/ SkipRejected(p)
               \/ ReplayGeneration(p) \/ RecheckGeneration(p) \/ FinalIdentity(p)
               \/ ConcludeRecovery(p) \/ FailClosed(p) \/ InvalidateSuffix(p)
        PROVE  TypeInv'
    BY <1>2, PlanRecoveryType, restoreType, SkipRejectedType, ReplayGenerationType,
       RecheckGenerationType, FinalIdentityType, ConcludeRecoveryType, FailClosedType,
       InvalidateSuffixType
  <1>3. ASSUME NEW p \in Procs,
               \/ AfterAdmission(p) \/ createActionSnapshot(p) \/ AppendIntent(p) \/ Apply(p)
               \/ captureArtifactState(p) \/ AppendApplied(p) \/ Rollback(p) \/ RejectUndone(p)
               \/ CrashInjected(p) \/ TakeLease(p)
        PROVE  TypeInv'
    BY <1>3, AfterAdmissionType, createActionSnapshotType, AppendIntentType, ApplyType,
       captureType, AppendAppliedType, RollbackType, RejectUndoneType, CrashInjectedType,
       TakeLeaseType
  <1>4. CASE UNCHANGED executorVars
    BY <1>4 DEF executorVars, TypeInv
  <1>5. QED
    BY <1>1, <1>2, <1>3, <1>4, WriteByOthersType DEF ExecutorNext

\* The inductive type invariant gives ExecutorTypeOK.
LEMMA TypeInvGives == ASSUME TypeInv PROVE ExecutorTypeOK
  <1>1. \A p \in Procs : proc[p] \in ProcRec /\ ProcOK(proc[p], events)
    BY Here
  <1>2. events \in Seq(Event)
    BY DEF TypeInv, LogShape
  <1>3. QED
    BY <1>1, <1>2, FieldsOf DEF TypeInv, ExecutorTypeOK, ProcOK, Steps, Trusts

------------------------------------------------------------------------------
(* The owner against the log and the worktree *)

\* The owner's plan is the one the log still asks for.
Planned(r, l, t) ==
    /\ danglingMutatingIntents(l) # {} \/ Identified(l) # {}
    /\ r.suffix = SuffixFrom(l, Boundary(l))
    /\ t = "settled" => danglingMutatingIntents(l) # {}
\* The intents of the generations in T, and the snapshot the plan starts from.
Rest(T) == {g.intent : g \in T}
BaseTree(r, l) == l[Earliest(r.suffix).intent].tree
\* The dangling generation was replayed: its terminal is due and says what is
\* in the worktree.
Replayed(r, l, w, d) ==
    \E x \in {w, Blob} :
        /\ r.pending = <<[intent |-> d, tree |-> x]>>
        /\ IF x = Blob THEN w = AcceptedTree(l)
           ELSE w \in performApply(l[d].actionId, AcceptedTree(l))
\* Between two generations of the replay: at the boundary, at the accepted tree,
\* or behind the dangling one.
ReplayState(r, l, w) ==
    \/ r.todo = r.suffix /\ w = BaseTree(r, l) /\ r.pending = <<>>
    \/ /\ r.todo # r.suffix /\ danglingMutatingIntents(l) \subseteq Rest(r.todo)
       /\ w = AcceptedTree(l) /\ r.pending = <<>>
    \/ r.todo = {} /\ \E d \in danglingMutatingIntents(l) : Replayed(r, l, w, d)
\* A generation was applied again, its identity is not yet compared.
RecheckState(r, l, w) ==
    LET g == Earliest(r.todo)
    IN  /\ r.pending = <<>> /\ danglingMutatingIntents(l) \subseteq Rest(r.todo)
        /\ g.intent \in danglingMutatingIntents(l) =>
              w \in performApply(l[g.intent].actionId, AcceptedTree(l))
        /\ g.intent \notin danglingMutatingIntents(l) => g.terminal \in Identified(l)
\* Between two rejections of a failed recovery, the worktree at the boundary.
InvalidateState(r, l, w, t) ==
    /\ w = BaseTree(r, l)
    /\ \/ r.todo = r.suffix /\ Planned(r, l, t)
       \/ /\ r.todo # r.suffix
          /\ w = AcceptedTree(l)
          /\ danglingMutatingIntents(l) \subseteq Rest(r.todo)
          /\ \A g \in r.todo : IF g.terminal = 0 THEN g.intent \in danglingMutatingIntents(l)
                               ELSE g.terminal \notin Identified(l)
\* What a settled worktree holds; Ready: and nothing dangles; Underway: the
\* owner's own action dangles and its snapshot is the accepted tree.
Clean(l, w, t) == t = "settled" /\ danglingMutatingIntents(l) = {} => w = AcceptedTree(l)
Ready(l, w) == danglingMutatingIntents(l) = {} /\ w = AcceptedTree(l)
Underway(r, l) ==
    /\ danglingMutatingIntents(l) = {r.seq} /\ r.tree = AcceptedTree(l) /\ l[r.seq].actionId = r.id
HalfOf(r) == r.at = "invalidate" /\ r.todo \notin {{}, r.suffix}

\* Where the owner stands against the log and the worktree, phase by phase.
OwnerState(r, l, w, t) ==
    /\ r.at \in {"idle", "admit", "gate"} => Clean(l, w, t)
    /\ r.at = "gate" /\ Mutating(r.id) => Ready(l, w)
    /\ r.at \in {"snapshot", "intent"} => Ready(l, w) /\ r.id \notin AppliedIds(l)
    /\ r.at = "intent" => r.tree = w
    /\ r.at \in {"apply", "capture", "record", "rollback", "undone"} => Underway(r, l)
    /\ r.at \in {"apply", "undone"} => w = r.tree
    /\ r.at \in {"capture", "record"} => w \in performApply(r.id, r.tree)
    /\ r.at = "record" => r.hash = w
    /\ r.at \in {"restore", "closing", "replay", "recheck"} => Planned(r, l, t)
    /\ r.at = "restore" => r.todo = r.suffix
    /\ r.at = "replay" => ReplayState(r, l, w)
    /\ r.at = "recheck" => RecheckState(r, l, w)
    /\ r.at = "conclude" =>
          \/ Ready(l, w) /\ r.pending = <<>>
          \/ \E d \in danglingMutatingIntents(l) : Replayed(r, l, w, d)
    /\ r.at = "invalidate" => InvalidateState(r, l, w, t)

\* The invariant of a run that did not lose track: the log is Good, what dangles
\* fits unless the rejections are half out, and the owner is where it should be.
Core(r, l, w, t) == Good(l) /\ (HalfOf(r) \/ DanglingFits(l)) /\ OwnerState(r, l, w, t)

SoundInv == OnTrack => Core(proc[owner], events, worktree, trust)

\* An owner that leaves anywhere but between two rejections leaves a worktree
\* that is the accepted one if nothing dangles.
LEMMA CoreClean ==
    ASSUME NEW r, r.at \in Phases, NEW l, NEW w, NEW t, Core(r, l, w, t), ~HalfOf(r)
    PROVE  Clean(l, w, t)
  <1>1. OwnerState(r, l, w, t)
    BY DEF Core
  <1>2. Planned(r, l, t) => Clean(l, w, t)
    BY DEF Planned, Clean
  <1>3. Underway(r, l) => Clean(l, w, t)
    BY DEF Underway, Clean
  <1>4. Ready(l, w) => Clean(l, w, t)
    BY DEF Ready, Clean
  <1>5. InvalidateState(r, l, w, t) => Clean(l, w, t)
    BY <1>2 DEF InvalidateState, Clean
  <1>6. (\E d \in danglingMutatingIntents(l) : Replayed(r, l, w, d)) => Clean(l, w, t)
    BY DEF Clean
  <1>7. QED
    BY <1>1, <1>2, <1>3, <1>4, <1>5, <1>6 DEF OwnerState, Phases

\* The two shapes of a plan: the dangling intent alone, when nothing was accepted
\* yet, or led by the last accepted generation.
Alone(S, l) ==
    /\ Identified(l) = {} /\ S = {Earliest(S)} /\ Earliest(S).terminal = 0
    /\ Earliest(S).intent \in danglingMutatingIntents(l)
    /\ l[Earliest(S).intent].tree = AcceptedTree(l)
Led(S, l) ==
    /\ Identified(l) # {} /\ Earliest(S).terminal = LastOf(l, Identified(l))
    /\ Earliest(S).terminal \in Identified(l)
    /\ Earliest(S).intent = l[Earliest(S).terminal].intentSeq
    /\ Earliest(S).intent \notin danglingMutatingIntents(l)

\* RecoveryBoundary is the intent of the last accepted generation, else of the
\* dangling one.
LEMMA BoundaryIs ==
    ASSUME NEW l, LogShape(l), Good(l)
    PROVE  /\ Identified(l) # {} => Boundary(l) = l[LastOf(l, Identified(l))].intentSeq
           /\ Identified(l) = {} /\ danglingMutatingIntents(l) # {} =>
                 Boundary(l) = EarliestDangling(l)
  <1>1. CASE danglingMutatingIntents(l) = {}
    BY <1>1 DEF Boundary
  <1>2. CASE danglingMutatingIntents(l) # {}
    <2> DEFINE S == {i \in Identified(l) : l[i].intentSeq # 0 /\ l[i].intentSeq < EarliestDangling(l)}
    <2>1. EarliestDangling(l) \in danglingMutatingIntents(l)
      BY <1>2, DanglingFirst
    <2>2. ASSUME NEW k \in Identified(l)
          PROVE  l[k].intentSeq # 0 /\ l[k].intentSeq < EarliestDangling(l)
      BY <2>1, IdentifiedBefore, IdentifiedFields DEF Good
    <2>3. S = Identified(l)
      BY <2>2
    <2>4. Boundary(l) = IF S = {} THEN EarliestDangling(l) ELSE l[LastOf(l, S)].intentSeq
      BY <1>2 DEF Boundary, RecoveryBoundary
    <2> HIDE DEF S
    <2>5. QED
      BY <2>3, <2>4
  <1>3. QED
    BY <1>1, <1>2

\* A plan has one of the two shapes; it holds what dangles, and only its first
\* generation stands as accepted.
LEMMA PlanShape ==
    ASSUME NEW l, LogShape(l), Good(l), DanglingFits(l),
           danglingMutatingIntents(l) # {} \/ Identified(l) # {},
           NEW S, S = SuffixFrom(l, Boundary(l))
    PROVE  /\ S \in Steps /\ S # {} /\ Earliest(S) \in S
           /\ Alone(S, l) \/ Led(S, l)
           /\ danglingMutatingIntents(l) \subseteq Rest(S)
           /\ \A g \in S : \/ g.terminal = 0 /\ g.intent \in danglingMutatingIntents(l)
                           \/ g.terminal \in Terminals(l, g.intent)
           /\ \A g \in S \ {Earliest(S)} : g.terminal \notin Identified(l)
  <1> DEFINE b == Boundary(l)
             e == Earliest(S)
  <1>1. b \in Intents(l) /\ S # {} /\ S \in Steps
    BY BoundaryIn, SuffixFacts
  <1>2. e \in S /\ \A g \in S : e.intent <= g.intent
    BY <1>1, EarliestIn DEF Steps
  <1>3. \A g \in S : /\ g.intent \in Intents(l) /\ g.intent >= b /\ g.intent \in Nat
                     /\ g = [intent |-> g.intent, terminal |-> FirstTerminal(l, g.intent)]
                     /\ (g.terminal = 0 => g.intent \in danglingMutatingIntents(l))
                     /\ (g.terminal # 0 => g.terminal \in Terminals(l, g.intent))
    BY SuffixFacts, IntentFields DEF StepIn
  <1>4. b \in Nat /\ \A i \in Intents(l) : i \in Nat
    BY <1>1, IntentFields
  <1>5. e.intent = b
    <2> DEFINE g == [intent |-> b, terminal |-> FirstTerminal(l, b)]
    <2>1. g \in S /\ g.intent = b
      BY <1>1, <1>4, SuffixFacts
    <2>2. e.intent <= b /\ e.intent >= b /\ e.intent \in Nat
      BY <1>2, <1>3, <2>1
    <2>3. QED
      BY <2>2, <1>4
  <1>6. ASSUME NEW g \in S, g.intent = b PROVE g = e
    BY <1>2, <1>3, <1>5, <1>6
  <1>7. danglingMutatingIntents(l) \subseteq Rest(S)
    <2>1. ASSUME NEW d \in danglingMutatingIntents(l) PROVE d \in Rest(S)
      <3>1. d >= b /\ d \in Intents(l)
        BY <1>1, <1>4 DEF Good, OneDangling, danglingMutatingIntents
      <3>2. [intent |-> d, terminal |-> FirstTerminal(l, d)] \in S
        BY <3>1, SuffixFacts
      <3>3. QED
        BY <3>2 DEF Rest
    <2>2. QED
      BY <2>1
  <1>8. CASE Identified(l) # {}
    <2> DEFINE k == LastOf(l, Identified(l))
    <2>1. k \in Identified(l) /\ (\A j \in Identified(l) : l[j].intentSeq <= l[k].intentSeq) /\ b = l[k].intentSeq
      BY <1>8, LastOfIn, BoundaryIs
    <2> HIDE DEF k
    <2>2. l[k].intentSeq \in Intents(l) /\ k \in Terminals(l, l[k].intentSeq)
      BY <2>1, IdentifiedFields
    <2>3. e.intent \notin danglingMutatingIntents(l) /\ e.terminal \in Terminals(l, e.intent)
      BY <1>2, <1>3, <1>5, <2>1, <2>2 DEF danglingMutatingIntents
    <2>4. e.terminal = k
      BY <1>5, <2>1, <2>2, <2>3 DEF Good, OneTerminal
    <2>5. ASSUME NEW g \in S, g.terminal \in Identified(l) PROVE g = e
      <3>1. g.terminal \in DOMAIN l /\ l[g.terminal].intentSeq \in Nat /\ g.terminal # 0
        BY <2>5, IdentifiedFields, EventFields
      <3>2. l[g.terminal].intentSeq = g.intent
        BY <1>3, <3>1 DEF Terminals
      <3>3. g.intent <= b
        BY <2>1, <2>5, <3>2
      <3>4. g.intent = b
        BY <3>3, <1>3, <1>4
      <3>5. QED
        BY <3>4, <1>6
    <2>6. Led(S, l)
      BY <1>8, <2>1, <2>3, <2>4, <1>5 DEF Led, k
    <2>7. QED
      BY <1>1, <1>2, <1>3, <1>7, <2>5, <2>6
  <1>9. CASE Identified(l) = {}
    <2>1. b = EarliestDangling(l) /\ b \in danglingMutatingIntents(l)
      BY <1>9, BoundaryIs, DanglingFirst
    <2>2. ASSUME NEW g \in S PROVE g = e
      <3>1. g.intent <= b
        BY <2>1, <1>3 DEF Good, OneDangling
      <3>2. g.intent = b
        BY <3>1, <1>3, <1>4
      <3>3. QED
        BY <3>2, <1>6
    <2>3. S = {e}
      BY <1>2, <2>2
    <2>4. e.terminal = 0
      BY <1>2, <1>3, <1>5, <2>1 DEF danglingMutatingIntents
    <2>5. l[b].tree = AcceptedTree(l)
      BY <2>1 DEF DanglingFits
    <2>6. Alone(S, l)
      BY <1>5, <1>9, <2>1, <2>3, <2>4, <2>5 DEF Alone
    <2>7. QED
      BY <1>1, <1>2, <1>3, <1>7, <1>9, <2>6
  <1>10. QED
    BY <1>8, <1>9

------------------------------------------------------------------------------
(* Processes that do not own the lease *)

\* A step that the owner and the log do not notice: at most the worktree is
\* suspect, which the owner's next admission looks at.
Harmless ==
    /\ events' = events /\ owner' = owner /\ proc'[owner] = proc[owner]
    /\ \/ worktree' = worktree /\ trust' = trust
       \/ trust' = "suspect" /\ proc[owner].at \in {"idle", "admit"}

\* A harmless step keeps the invariant.
LEMMA HarmlessSound ==
    ASSUME SoundInv, OnTrack, Harmless
    PROVE  SoundInv'
  <1>1. Core(proc[owner], events, worktree, trust)
    BY DEF SoundInv
  <1>2. proc'[owner'] = proc[owner] /\ events' = events
    BY DEF Harmless
  <1>3. Core(proc[owner], events, worktree', trust')
    <2>1. CASE worktree' = worktree /\ trust' = trust
      BY <1>1, <2>1
    <2>2. CASE trust' = "suspect" /\ proc[owner].at \in {"idle", "admit"}
      BY <1>1, <2>2 DEF Core, OwnerState, HalfOf, Clean
    <2>3. QED
      BY <2>1, <2>2 DEF Harmless
  <1>4. QED
    BY <1>2, <1>3 DEF SoundInv

\* What a process that does not own the lease may do to the trust.
LEMMA StrangerTrust ==
    ASSUME NEW p, p # owner, trust' \notin {"lost", "halved"}
    PROVE  /\ ~Unfenced(p)
           /\ (Known(p) \/ Doubted(p) \/ Unnoticed(p)) => trust' = trust
           /\ \A t : Overwrite(p, t) =>
                 \/ worktree' = worktree /\ trust' = trust
                 \/ trust' = "suspect" /\ ~Beyond /\ proc[owner].at \in {"idle", "admit"}
           /\ trust' = Worse =>
                 trust' = "suspect" /\ ~Beyond /\ proc[owner].at \in {"idle", "admit"}
  BY DEF Unfenced, Known, Doubted, Unnoticed, Overwrite, Worse

\* A step of a process that does not own the lease is harmless, or the run lost track.
LEMMA StrangerStep ==
    ASSUME TypeInv, NEW p \in Procs, p # owner, OnTrack', KeepLog, Quietly,
           NEW r, proc' = [proc EXCEPT ![p] = r],
           \/ worktree' = worktree /\ trust' = trust
           \/ trust' = "suspect" /\ ~Beyond /\ proc[owner].at \in {"idle", "admit"},
           ~HalfInvalidated(p)
    PROVE  OnTrack /\ Harmless
  <1>1. proc \in [Procs -> ProcRec]
    BY DEF TypeInv
  <1>2. proc'[owner] = proc[owner] /\ \A q \in Procs \ {p} : proc'[q] = proc[q]
    BY <1>1 DEF TypeInv
  <1>3. Harmless
    BY <1>2 DEF Harmless, KeepLog, Quietly
  <1>4. ~Beyond
    BY DEF OnTrack, Beyond
  <1>5. ASSUME NEW q \in Procs \ {owner} PROVE ~HalfInvalidated(q)
    <2>1. CASE q = p
      BY <2>1
    <2>2. CASE q # p
      <3>1. ~HalfInvalidated(q)'
        BY DEF OnTrack, Quietly
      <3>2. QED
        BY <3>1, <2>2, <1>2 DEF HalfInvalidated, At
    <2>3. QED
      BY <2>1, <2>2
  <1>6. QED
    BY <1>3, <1>4, <1>5 DEF OnTrack

\* A plan changes one process only.
LEMMA PlansRec ==
    ASSUME TypeInv, NEW p \in Procs, Plans(p)
    PROVE  \E r : proc' = [proc EXCEPT ![p] = r]
  <1> DEFINE s == SuffixFrom(events, Boundary(events))
  <1>1. PICK x \in {"closing", "restore"}, f \in Flag :
           proc' = [proc EXCEPT ![p].at = x, ![p].mismatch = f, ![p].suffix = s, ![p].todo = s]
    BY DEF Plans
  <1> DEFINE r == [proc[p] EXCEPT !.at = x, !.mismatch = f, !.suffix = s, !.todo = s]
  <1> HIDE DEF s
  <1>2. proc' = [proc EXCEPT ![p] = r]
    BY <1>1 DEF TypeInv
  <1>3. QED
    BY <1>2

\* The steps of a fenced-out process that append nothing and replay nothing.
LEMMA StrangerSimple ==
    ASSUME TypeInv, NEW p \in Procs, p # owner, OnTrack',
           \/ PlanRecovery(p) \/ restoreArtifactSnapshot(p) \/ SkipRejected(p)
           \/ RecheckGeneration(p) \/ FinalIdentity(p) \/ FailClosed(p)
           \/ createActionSnapshot(p) \/ Apply(p) \/ captureArtifactState(p) \/ Rollback(p)
    PROVE  OnTrack /\ Harmless
  <1>1. proc \in [Procs -> ProcRec] /\ proc[p] \in ProcRec
    BY DEF TypeInv
  <1>2. trust' \notin {"lost", "halved"}
    BY DEF OnTrack, Beyond
  <1>3. KeepLog /\ Quietly
    BY DEF PlanRecovery, restoreArtifactSnapshot, SkipRejected, RecheckGeneration, FinalIdentity,
       FailClosed, createActionSnapshot, Apply, captureArtifactState, Rollback
  <1>4. ~HalfInvalidated(p)
    BY DEF PlanRecovery, restoreArtifactSnapshot, SkipRejected, RecheckGeneration, FinalIdentity,
       FailClosed, createActionSnapshot, Apply, captureArtifactState, Rollback, At, HalfInvalidated
  <1>5. \/ worktree' = worktree /\ trust' = trust
        \/ trust' = "suspect" /\ ~Beyond /\ proc[owner].at \in {"idle", "admit"}
    <2>1. CASE PlanRecovery(p)
      BY <2>1, <1>2, PlanCases, StrangerTrust
    <2>2. CASE restoreArtifactSnapshot(p)
      BY <2>2, <1>2, StrangerTrust DEF restoreArtifactSnapshot, KeepTree
    <2>3. CASE SkipRejected(p) \/ RecheckGeneration(p) \/ FinalIdentity(p) \/ createActionSnapshot(p)
               \/ captureArtifactState(p)
      BY <2>3 DEF SkipRejected, RecheckGeneration, FinalIdentity, createActionSnapshot,
         captureArtifactState, KeepTree
    <2>4. CASE FailClosed(p)
      BY <2>4, <1>2, StrangerTrust DEF FailClosed, KeepTree
    <2>5. CASE Apply(p)
      BY <2>5, <1>2, StrangerTrust DEF Apply, KeepTree
    <2>6. CASE Rollback(p)
      BY <2>6, <1>2, StrangerTrust DEF Rollback, KeepTree
    <2>7. QED
      BY <2>1, <2>2, <2>3, <2>4, <2>5, <2>6
  <1>6. \E r : proc' = [proc EXCEPT ![p] = r]
    <2>1. \A x : Goto(p, x) => \E r : proc' = [proc EXCEPT ![p] = r]
      BY DEF Goto
    <2>2. Return(p) => \E r : proc' = [proc EXCEPT ![p] = r]
      BY DEF Return
    <2>3. CASE PlanRecovery(p)
      BY <2>3, <2>1, <2>2, PlanCases, PlansRec, <1>1
    <2>4. CASE SkipRejected(p)
      <3> DEFINE r == [proc[p] EXCEPT !.todo = @ \ {Current(p)}]
      <3>1. proc' = [proc EXCEPT ![p] = r]
        BY <2>4, <1>1 DEF SkipRejected
      <3>2. QED
        BY <3>1
    <2>5. CASE RecheckGeneration(p)
      <3> DEFINE r == [proc[p] EXCEPT
                        !.at = "replay", !.todo = @ \ {Current(p)}, !.hash = worktree,
                        !.replayed = TRUE,
                        !.pending = IF Accepted(p) THEN @
                                       ELSE Append(@, [intent |-> Current(p).intent,
                                                       tree |-> worktree])]
      <3>1. proc' = [proc EXCEPT ![p] = r] \/ Goto(p, "closing")
        BY <2>5, <1>1 DEF RecheckGeneration
      <3>2. QED
        BY <3>1, <2>1
    <2>6. CASE FailClosed(p)
      <3> DEFINE r == [proc[p] EXCEPT !.at = "invalidate", !.todo = proc[p].suffix]
      <3>1. proc' = [proc EXCEPT ![p] = r] \/ Return(p)
        BY <2>6, <1>1 DEF FailClosed
      <3>2. QED
        BY <3>1, <2>2
    <2>7. CASE createActionSnapshot(p)
      <3> DEFINE r == [proc[p] EXCEPT !.at = "intent", !.tree = worktree]
      <3>1. proc' = [proc EXCEPT ![p] = r] \/ Return(p)
        BY <2>7, <1>1 DEF createActionSnapshot
      <3>2. QED
        BY <3>1, <2>2
    <2>8. CASE captureArtifactState(p)
      <3> DEFINE r == [proc[p] EXCEPT !.at = "record", !.hash = worktree]
      <3>1. proc' = [proc EXCEPT ![p] = r] \/ Goto(p, "rollback")
        BY <2>8, <1>1 DEF captureArtifactState
      <3>2. QED
        BY <3>1, <2>1
    <2>9. CASE restoreArtifactSnapshot(p) \/ FinalIdentity(p) \/ Apply(p) \/ Rollback(p)
      BY <2>9, <2>1, <2>2 DEF restoreArtifactSnapshot, FinalIdentity, Apply, Rollback
    <2>10. QED
      BY <2>3, <2>4, <2>5, <2>6, <2>7, <2>8, <2>9
  <1>7. QED
    BY <1>3, <1>4, <1>5, <1>6, StrangerStep

\* A fenced-out process replays a generation.
LEMMA StrangerReplay ==
    ASSUME TypeInv, NEW p \in Procs, p # owner, OnTrack', ReplayGeneration(p)
    PROVE  OnTrack /\ Harmless
  <1> DEFINE s == proc[p].todo \ {Current(p)}
             q == Append(proc[p].pending, [intent |-> Current(p).intent, tree |-> Blob])
             r == [proc[p] EXCEPT !.todo = s, !.pending = q]
  <1>1. proc \in [Procs -> ProcRec] /\ proc[p] \in ProcRec
    BY DEF TypeInv
  <1>2. trust' \notin {"lost", "halved"}
    BY DEF OnTrack, Beyond
  <1>3. KeepLog /\ Quietly /\ ~HalfInvalidated(p)
    BY DEF ReplayGeneration, At, HalfInvalidated
  <1>4. \/ worktree' = worktree /\ trust' = trust
        \/ trust' = "suspect" /\ ~Beyond /\ proc[owner].at \in {"idle", "admit"}
    <2>1. (\E t : Overwrite(p, t)) \/ KeepTree
      BY <1>2 DEF ReplayGeneration
    <2>2. QED
      BY <2>1, <1>2, StrangerTrust DEF KeepTree
  <1>5. \E x : proc' = [proc EXCEPT ![p] = x]
    <2>1. \A x : Goto(p, x) => \E y : proc' = [proc EXCEPT ![p] = y]
      BY DEF Goto
    <2>2. CASE proc' = [proc EXCEPT ![p].todo = @ \ {Current(p)},
                                  ![p].pending = Append(@, [intent |-> Current(p).intent, tree |-> Blob])]
      <3>1. proc' = [proc EXCEPT ![p] = r]
        BY <2>2, <1>1
      <3>2. QED
        BY <3>1
    <2>3. QED
      BY <2>1, <2>2 DEF ReplayGeneration
  <1>6. QED
    BY <1>3, <1>4, <1>5, StrangerStep

\* The steps of a fenced-out process that would append: the fence stops them, or
\* the rejection that nothing fences loses track.
LEMMA StrangerLog ==
    ASSUME TypeInv, NEW p \in Procs, p # owner, OnTrack',
           \/ ConcludeRecovery(p) \/ InvalidateSuffix(p) \/ AfterAdmission(p) \/ AppendIntent(p)
           \/ AppendApplied(p) \/ RejectUndone(p) \/ CrashInjected(p)
    PROVE  OnTrack /\ Harmless
  <1>1. trust' \notin {"lost", "halved"} /\ ~Unfenced(p)
    BY StrangerTrust DEF OnTrack, Beyond
  <1>2. Quietly
    BY DEF ConcludeRecovery, InvalidateSuffix, AfterAdmission, AppendIntent, AppendApplied,
       RejectUndone, CrashInjected
  <1>3. KeepLog
    BY <1>1 DEF ConcludeRecovery, InvalidateSuffix, AfterAdmission, AppendIntent, AppendApplied,
       RejectUndone, CrashInjected
  <1>4. ~HalfInvalidated(p)
    <2>1. CASE InvalidateSuffix(p)
      BY <2>1, <1>1 DEF InvalidateSuffix, HalfInvalidated
    <2>2. CASE CrashInjected(p)
      BY <2>2, <1>1 DEF CrashInjected
    <2>3. QED
      BY <2>1, <2>2 DEF ConcludeRecovery, AfterAdmission, AppendIntent, AppendApplied,
         RejectUndone, At, HalfInvalidated
  <1>5. worktree' = worktree /\ trust' = trust
    <2>1. CASE ConcludeRecovery(p) \/ InvalidateSuffix(p)
      BY <2>1, <1>1, StrangerTrust DEF ConcludeRecovery, InvalidateSuffix
    <2>2. CASE AfterAdmission(p) \/ AppendIntent(p) \/ AppendApplied(p)
      BY <2>2 DEF AfterAdmission, AppendIntent, AppendApplied, KeepTree
    <2>3. CASE CrashInjected(p)
      BY <2>3, <1>1 DEF CrashInjected
    <2>4. CASE RejectUndone(p)
      BY <2>4, <1>1 DEF RejectUndone
    <2>5. QED
      BY <2>1, <2>2, <2>3, <2>4
  <1>6. \E r : proc' = [proc EXCEPT ![p] = r]
    <2>1. (\E x : Goto(p, x)) \/ Return(p)
      <3>1. CASE ConcludeRecovery(p)
        BY <3>1, <1>1 DEF ConcludeRecovery
      <3>2. CASE InvalidateSuffix(p)
        BY <3>2, <1>1 DEF InvalidateSuffix
      <3>3. CASE AfterAdmission(p) \/ AppendApplied(p) \/ RejectUndone(p) \/ CrashInjected(p)
        BY <3>3 DEF AfterAdmission, AppendApplied, RejectUndone, CrashInjected
      <3>4. CASE AppendIntent(p)
        BY <3>4 DEF AppendIntent
      <3>5. QED
        BY <3>1, <3>2, <3>3, <3>4
    <2>2. QED
      BY <2>1 DEF Goto, Return
  <1>7. QED
    BY <1>2, <1>3, <1>4, <1>5, <1>6, StrangerStep

\* A foreign write is harmless when the owner's next admission will compare.
LEMMA OthersWriteOnly ==
    ASSUME TypeInv, OnTrack', WriteByOthers
    PROVE  OnTrack /\ Harmless
  <1>1. trust' = "suspect" /\ ~Beyond /\ proc[owner].at \in {"idle", "admit"}
    BY DEF WriteByOthers, Worse, OnTrack, Beyond
  <1>2. Harmless
    BY <1>1 DEF Harmless, WriteByOthers, KeepLog, Quietly
  <1>3. OnTrack
    BY <1>1 DEF OnTrack, HalfInvalidated, At, WriteByOthers, Quietly
  <1>4. QED
    BY <1>2, <1>3

\* A step of the owner: what held before, and what is to be shown.
LEMMA OwnerStep ==
    ASSUME TypeInv, SoundInv, NEW p \in Procs, p = owner, OnTrack', Quietly, Beyond => Beyond',
           NEW r, proc' = [proc EXCEPT ![p] = r]
    PROVE  /\ OnTrack /\ Core(proc[p], events, worktree, trust)
           /\ Core(r, events', worktree', trust') => SoundInv'
  <1>1. proc \in [Procs -> ProcRec]
    BY DEF TypeInv
  <1>2. proc'[p] = r /\ \A q \in Procs \ {p} : proc'[q] = proc[q]
    BY <1>1
  <1>3. OnTrack
    <2>1. ~Beyond
      BY DEF OnTrack
    <2>2. ASSUME NEW q \in Procs \ {owner} PROVE ~HalfInvalidated(q)
      <3>1. ~HalfInvalidated(q)'
        BY DEF OnTrack, Quietly
      <3>2. QED
        BY <3>1, <1>2 DEF HalfInvalidated, At
    <2>3. QED
      BY <2>1, <2>2 DEF OnTrack
  <1>4. proc'[owner'] = r
    BY <1>2 DEF Quietly
  <1>5. QED
    BY <1>3, <1>4 DEF SoundInv

\* How the owner's own steps move the trust.
LEMMA OwnerTrust ==
    ASSUME TypeInv, NEW p, p = owner
    PROVE  /\ Unfenced(p) => trust' = trust
           /\ \A t : Overwrite(p, t) => trust' = trust /\ worktree' = t
           /\ (Known(p) \/ Doubted(p) \/ Unnoticed(p)) => (Beyond => Beyond')
           /\ trust' = trust => (Beyond => Beyond')
           /\ Known(p) /\ ~Beyond => trust' = "settled"
           /\ Doubted(p) /\ ~Beyond => trust' = "suspect"
           /\ Unnoticed(p) /\ ~Beyond /\ ~Beyond' => trust' = "settled" /\ trust = "settled"
  BY DEF Unfenced, Known, Doubted, Unnoticed, Overwrite, Beyond, TypeInv, Trusts

\* An owner without an action needs a clean worktree.
LEMMA IdleCore ==
    ASSUME NEW l, NEW w, NEW t, Good(l), DanglingFits(l), Clean(l, w, t)
    PROVE  Core(Idle, l, w, t)
  <1>1. Idle.at = "idle"
    BY DEF Idle
  <1>2. QED
    BY <1>1 DEF Core, OwnerState, HalfOf

\* The owner leaves with what it found.
LEMMA OwnerReturns ==
    ASSUME TypeInv, SoundInv, NEW p \in Procs, p = owner, OnTrack', Quietly, KeepLog,
           Return(p), KeepTree, ~HalfInvalidated(p)
    PROVE  SoundInv'
  <1>1. Beyond => Beyond'
    BY OwnerTrust DEF KeepTree
  <1>2. Core(proc[p], events, worktree, trust) /\ (Core(Idle, events', worktree', trust') => SoundInv')
    BY <1>1, OwnerStep DEF Return
  <1>3. proc[p].at \in Phases
    BY Here, FieldsOf
  <1>4. ~HalfOf(proc[p])
    BY DEF HalfOf, HalfInvalidated, At
  <1>5. Clean(events, worktree, trust)
    BY <1>2, <1>3, <1>4, CoreClean
  <1>6. Good(events) /\ DanglingFits(events)
    BY <1>2, <1>4 DEF Core
  <1>7. QED
    BY <1>2, <1>5, <1>6, IdleCore DEF KeepLog, KeepTree

\* A move of the owner that leaves the rest of its record as it is.
Moved(r, p, x) ==
    /\ r.at = x /\ r.id = proc[p].id /\ r.seq = proc[p].seq /\ r.suffix = proc[p].suffix
    /\ r.todo = proc[p].todo /\ r.pending = proc[p].pending /\ r.tree = proc[p].tree
    /\ r.hash = proc[p].hash

\* A step of the owner that only moves it.
LEMMA OwnerGoto ==
    ASSUME TypeInv, SoundInv, NEW p \in Procs, p = owner, OnTrack', Quietly, Beyond => Beyond',
           NEW x \in Phases, Goto(p, x)
    PROVE  /\ OnTrack /\ Core(proc[p], events, worktree, trust)
           /\ \E r : Moved(r, p, x) /\ (Core(r, events', worktree', trust') => SoundInv')
  <1> DEFINE r == [proc[p] EXCEPT !.at = x]
  <1>1. proc' = [proc EXCEPT ![p] = r]
    BY DEF Goto
  <1>2. Moved(r, p, x)
    BY Here, GotoRec DEF Moved
  <1> HIDE DEF r
  <1>3. QED
    BY <1>1, <1>2, OwnerStep

\* executeOnce by the owner keeps the invariant.
LEMMA executeOnceSound ==
    ASSUME TypeInv, SoundInv, NEW p \in Procs, p = owner, OnTrack', NEW a \in Ids, executeOnce(p, a)
    PROVE  SoundInv'
  <1> DEFINE x == IF Mutating(a) THEN "admit" ELSE "gate"
             r == [proc[p] EXCEPT !.at = x, !.id = a]
  <1>1. proc[p] \in ProcRec /\ proc \in [Procs -> ProcRec]
    BY DEF TypeInv
  <1>2. proc' = [proc EXCEPT ![p] = r]
    BY <1>1 DEF executeOnce
  <1>3. r.at = x /\ r.id = a
    BY <1>1 DEF ProcRec
  <1>4. x = "gate" => ~Mutating(a)
    OBVIOUS
  <1>5. x \in {"admit", "gate"}
    OBVIOUS
  <1>6. proc[p].at = "idle" /\ Quietly /\ events' = events /\ worktree' = worktree /\ trust' = trust
    BY DEF executeOnce, At, KeepLog, KeepTree
  <1> HIDE DEF r, x
  <1>7. Core(proc[p], events, worktree, trust) /\ (Core(r, events', worktree', trust') => SoundInv')
    BY <1>2, <1>6, OwnerTrust, OwnerStep
  <1>8. Good(events) /\ DanglingFits(events) /\ Clean(events, worktree, trust)
    BY <1>6, <1>7 DEF Core, HalfOf, OwnerState
  <1>9. Core(r, events, worktree, trust)
    BY <1>3, <1>4, <1>5, <1>8 DEF Core, OwnerState
  <1>10. QED
    BY <1>6, <1>7, <1>9

\* The admission of a mutating action finds the worktree clean or plans its recovery.
LEMMA PlanRecoverySound ==
    ASSUME TypeInv, SoundInv, NEW p \in Procs, p = owner, OnTrack', PlanRecovery(p)
    PROVE  SoundInv'
  <1>1. /\ proc[p].at = "admit" /\ KeepLog /\ Quietly /\ worktree' = worktree
        /\ proc[p] \in ProcRec /\ proc \in [Procs -> ProcRec] /\ events' = events
    BY PlanCases, Here DEF At, TypeInv, KeepLog
  <1>2. Beyond => Beyond'
    BY PlanCases, OwnerTrust
  <1>3. \E r : proc' = [proc EXCEPT ![p] = r]
    BY <1>1, PlanCases, PlansRec DEF Goto, Return
  <1>4. OnTrack /\ Core(proc[p], events, worktree, trust)
    BY <1>1, <1>2, <1>3, OwnerStep
  <1>5. /\ Good(events) /\ DanglingFits(events) /\ Clean(events, worktree, trust)
        /\ ~Beyond /\ ~Beyond' /\ trust \in Trusts
    BY <1>1, <1>4, Here DEF Core, HalfOf, OwnerState, OnTrack
  <1>6. ASSUME Goto(p, "gate"), Ready(events, worktree) PROVE SoundInv'
    <2>1. "gate" \in Phases
      BY DEF Phases
    <2>2. PICK r : Moved(r, p, "gate") /\ (Core(r, events', worktree', trust') => SoundInv')
      BY <1>1, <1>2, <1>6, <2>1, OwnerGoto
    <2>3. Core(r, events, worktree, trust')
      BY <1>5, <1>6, <2>2 DEF Moved, Core, OwnerState, Clean, Ready
    <2>4. QED
      BY <1>1, <2>2, <2>3
  <1>7. ASSUME Plans(p), trust' = "settled" => danglingMutatingIntents(events) # {} PROVE SoundInv'
    <2> DEFINE s == SuffixFrom(events, Boundary(events))
    <2>1. PICK x \in {"closing", "restore"}, f \in Flag :
             proc' = [proc EXCEPT ![p].at = x, ![p].mismatch = f, ![p].suffix = s, ![p].todo = s]
      BY <1>7 DEF Plans
    <2>2. danglingMutatingIntents(events) # {} \/ Identified(events) # {}
      BY <1>7 DEF Plans
    <2> DEFINE r == [proc[p] EXCEPT !.at = x, !.mismatch = f, !.suffix = s, !.todo = s]
    <2> HIDE DEF s
    <2>3. proc' = [proc EXCEPT ![p] = r]
      BY <1>1, <2>1
    <2>4. /\ r.at = x /\ r.suffix = s /\ r.todo = s
      BY <1>1 DEF ProcRec
    <2> HIDE DEF r
    <2>5. Planned(r, events, trust')
      BY <1>7, <2>2, <2>4 DEF Planned, s
    <2>6. Core(r, events, worktree, trust')
      BY <1>5, <2>1, <2>4, <2>5 DEF Core, OwnerState
    <2>7. QED
      BY <1>1, <1>2, <2>3, <2>6, OwnerStep
  <1>8. CASE /\ danglingMutatingIntents(events) = {} /\ Identified(events) = {}
             /\ Goto(p, "gate") /\ Unnoticed(p)
    <2>1. trust = "settled"
      BY <1>5, <1>8, OwnerTrust
    <2>2. Ready(events, worktree)
      BY <1>5, <1>8, <2>1 DEF Clean, Ready
    <2>3. QED
      BY <1>6, <1>8, <2>2
  <1>9. CASE /\ danglingMutatingIntents(events) = {} /\ worktree = AcceptedTree(events)
             /\ Goto(p, "gate")
    BY <1>6, <1>9 DEF Ready
  <1>10. CASE danglingMutatingIntents(events) = {} /\ Plans(p) /\ Doubted(p)
    BY <1>5, <1>7, <1>10, OwnerTrust
  <1>11. CASE danglingMutatingIntents(events) # {} /\ Plans(p)
    BY <1>7, <1>11
  <1>12. CASE Return(p) /\ UNCHANGED trust
    BY <1>1, <1>12, OwnerReturns DEF KeepTree, HalfInvalidated, At
  <1>13. QED
    BY <1>8, <1>9, <1>10, <1>11, <1>12, PlanCases

\* The worktree is back at the boundary.
LEMMA restoreSound ==
    ASSUME TypeInv, SoundInv, NEW p \in Procs, p = owner, OnTrack', restoreArtifactSnapshot(p)
    PROVE  SoundInv'
  <1>1. /\ proc[p].at = "restore" /\ KeepLog /\ Quietly /\ events' = events
        /\ proc[p].pending = <<>> /\ trust' = trust /\ (Beyond => Beyond')
    BY Here, OwnerTrust DEF restoreArtifactSnapshot, At, KeepLog, ProcOK, KeepTree
  <1>2. "replay" \in Phases /\ "closing" \in Phases
    BY DEF Phases
  <1>3. \E x : x \in Phases /\ Goto(p, x)
    BY <1>2 DEF restoreArtifactSnapshot
  <1>4. Core(proc[p], events, worktree, trust)
    BY <1>1, <1>3, OwnerGoto
  <1>5. /\ Good(events) /\ DanglingFits(events) /\ Planned(proc[p], events, trust)
        /\ proc[p].todo = proc[p].suffix
    BY <1>1, <1>4 DEF Core, OwnerState, HalfOf
  <1>6. CASE Overwrite(p, BaseTree(proc[p], events)) /\ Goto(p, "replay")
    <2>1. worktree' = BaseTree(proc[p], events)
      BY <1>6, OwnerTrust
    <2>2. PICK r : Moved(r, p, "replay") /\ (Core(r, events', worktree', trust') => SoundInv')
      BY <1>1, <1>2, <1>6, OwnerGoto
    <2>3. Planned(r, events, trust) /\ BaseTree(r, events) = BaseTree(proc[p], events)
      BY <1>5, <2>2 DEF Moved, Planned, BaseTree
    <2>4. ReplayState(r, events, worktree')
      BY <1>1, <1>5, <2>1, <2>2, <2>3 DEF Moved, ReplayState
    <2>5. Core(r, events, worktree', trust)
      BY <1>5, <2>2, <2>3, <2>4 DEF Moved, Core, OwnerState
    <2>6. QED
      BY <1>1, <2>2, <2>5
  <1>7. CASE Goto(p, "closing") /\ KeepTree
    <2>1. PICK r : Moved(r, p, "closing") /\ (Core(r, events', worktree', trust') => SoundInv')
      BY <1>1, <1>2, <1>7, OwnerGoto
    <2>2. Planned(r, events, trust)
      BY <1>5, <2>1 DEF Moved, Planned
    <2>3. Core(r, events, worktree', trust)
      BY <1>5, <2>1, <2>2 DEF Moved, Core, OwnerState
    <2>4. QED
      BY <1>1, <2>1, <2>3
  <1>8. QED
    BY <1>6, <1>7 DEF restoreArtifactSnapshot, BaseTree

\* The generation that is next, and the dangling one: when it is its turn it is
\* the last of the suffix.
LEMMA CurrentMeets ==
    ASSUME TypeInv, NEW p \in Procs, proc[p].todo # {}, Good(events)
    PROVE  /\ Current(p) \in proc[p].todo /\ Current(p) \in proc[p].suffix
           /\ Current(p).intent \in Intents(events)
           /\ proc[p].todo \ {Current(p)} # proc[p].suffix
           /\ Current(p).intent \in danglingMutatingIntents(events) =>
                 Current(p).terminal = 0 /\ proc[p].todo = {Current(p)}
           /\ Current(p).intent \notin danglingMutatingIntents(events) =>
                 (danglingMutatingIntents(events) \subseteq Rest(proc[p].todo) =>
                  danglingMutatingIntents(events) \subseteq Rest(proc[p].todo \ {Current(p)}))
           /\ Current(p).terminal # 0 =>
                 /\ Current(p).terminal \in Terminals(events, Current(p).intent)
                 /\ Current(p).intent \notin danglingMutatingIntents(events)
                 /\ Accepted(p) \/ Rejected(p)
  <1> DEFINE g == Current(p)
             T == proc[p].todo
             D == danglingMutatingIntents(events)
  <1>1. /\ T \in SUBSET Step /\ proc[p].todo \subseteq proc[p].suffix /\ LogShape(events)
        /\ \A h \in T : StepIn(events, h)
    BY Here, FieldsOf DEF Steps, ProcOK
  <1>2. g \in T /\ (\A h \in T : g.intent <= h.intent) /\ g \in proc[p].suffix
    BY <1>1, EarliestIn DEF Current
  <1> HIDE DEF g
  <1>3. ASSUME NEW h \in T
        PROVE  /\ h.intent \in Intents(events) /\ h.intent \in Nat
               /\ h.terminal # 0 => h.terminal \in Terminals(events, h.intent) /\ h.intent \notin D
    BY <1>1, <1>3, IntentFields DEF StepIn, danglingMutatingIntents
  <1>4. ASSUME g.intent \in D PROVE g.terminal = 0 /\ T = {g}
    <2>1. ASSUME NEW h \in T PROVE h = g
      <3>1. h.intent <= g.intent
        BY <1>3, <1>4 DEF Good, OneDangling
      <3>2. h.intent = g.intent
        BY <3>1, <1>2, <1>3
      <3>3. h.terminal = 0 /\ g.terminal = 0
        BY <1>2, <1>3, <1>4, <3>2
      <3>4. QED
        BY <1>1, <1>2, <3>2, <3>3 DEF Step
    <2>2. QED
      BY <1>2, <1>3, <1>4, <2>1
  <1>5. ASSUME g.intent \notin D, D \subseteq Rest(T) PROVE D \subseteq Rest(T \ {g})
    BY <1>5 DEF Rest
  <1>6. ASSUME g.terminal # 0
        PROVE  /\ g.terminal \in Terminals(events, g.intent) /\ g.intent \notin D
               /\ events[g.terminal].type \in {"ACTION_APPLIED", "ACTION_REJECTED"}
    BY <1>2, <1>3, <1>6 DEF Terminals
  <1>7. QED
    BY <1>2, <1>3, <1>4, <1>5, <1>6 DEF Accepted, Rejected, g

\* The generation that is next, and the plan: only the first one stands as accepted,
\* and its identity is the accepted tree.
LEMMA PlannedMeets ==
    ASSUME TypeInv, NEW p \in Procs, proc[p].todo # {}, Good(events), DanglingFits(events), NEW t,
           Planned(proc[p], events, t)
    PROVE  /\ Alone(proc[p].suffix, events) \/ Led(proc[p].suffix, events)
           /\ proc[p].todo = proc[p].suffix => Current(p) = Earliest(proc[p].suffix)
           /\ danglingMutatingIntents(events) \subseteq Rest(proc[p].suffix)
           /\ Current(p).terminal = 0 => Current(p).intent \in danglingMutatingIntents(events)
           /\ Current(p).terminal \in Identified(events) =>
                 Led(proc[p].suffix, events) /\ Current(p) = Earliest(proc[p].suffix)
           /\ Accepted(p) =>
                 /\ Current(p).terminal \in activeAppliedEvents(events) =>
                       Current(p).terminal \in Identified(events)
           /\ Accepted(p) /\ Current(p).terminal \in Identified(events) =>
                 events[Current(p).terminal].tree = AcceptedTree(events)
  <1> DEFINE g == Current(p)
             S == proc[p].suffix
             e == Earliest(S)
  <1>1. /\ S \in Steps /\ S # {} /\ e \in S
        /\ Alone(S, events) \/ Led(S, events)
        /\ danglingMutatingIntents(events) \subseteq Rest(S)
        /\ \A h \in S : \/ h.terminal = 0 /\ h.intent \in danglingMutatingIntents(events)
                        \/ h.terminal \in Terminals(events, h.intent)
        /\ \A h \in S \ {e} : h.terminal \notin Identified(events)
    BY Here, PlanShape DEF Planned
  <1>2. g \in S /\ LogShape(events) /\ g.intent \in Intents(events)
    BY CurrentMeets, Here
  <1>3. proc[p].todo = S => g = e
    BY DEF Current
  <1>4. \A h \in S : 0 \notin Terminals(events, h.intent)
    BY <1>2, EventFields DEF Terminals
  <1>5. g.terminal \in Identified(events) => Led(S, events) /\ g = e
    <2>1. ASSUME g.terminal \in Identified(events) PROVE Identified(events) # {} /\ g = e
      BY <2>1, <1>1, <1>2
    <2>2. QED
      BY <2>1, <1>1 DEF Alone
  <1>6. ASSUME Accepted(p), g.terminal \in activeAppliedEvents(events) PROVE g.terminal \in Identified(events)
    <2>1. g.terminal # 0 /\ events[g.terminal].type = "ACTION_APPLIED" /\ g.terminal \in Terminals(events, g.intent)
      BY <1>6, <1>1, <1>2 DEF Accepted
    <2>2. g.terminal \in DOMAIN events /\ events[g.terminal].intentSeq = g.intent
      BY <2>1 DEF Terminals
    <2>3. g.intent # 0
      BY <1>2, IntentFields
    <2>4. events[g.terminal].tree # Blob
      BY <1>2, <2>1, <2>2, <2>3 DEF LogShape
    <2>5. QED
      BY <1>6, <2>4 DEF Identified
  <1>7. Led(S, events) => events[e.terminal].tree = AcceptedTree(events)
    BY DEF Led, AcceptedTree
  <1> HIDE DEF g, S, e
  <1>8. g.terminal = 0 => g.intent \in danglingMutatingIntents(events)
    BY <1>1, <1>2, <1>4
  <1>9. QED
    BY <1>1, <1>3, <1>5, <1>6, <1>7, <1>8 DEF g, S, e

\* A rejected generation is skipped; it is never the first.
LEMMA SkipRejectedSound ==
    ASSUME TypeInv, SoundInv, NEW p \in Procs, p = owner, OnTrack', SkipRejected(p)
    PROVE  SoundInv'
  <1> DEFINE s == proc[p].todo \ {Current(p)}
             r == [proc[p] EXCEPT !.todo = s]
  <1>1. /\ proc[p].at = "replay" /\ Quietly /\ events' = events /\ proc[p] \in ProcRec
        /\ proc[p].todo # {} /\ Rejected(p) /\ proc \in [Procs -> ProcRec]
        /\ worktree' = worktree /\ trust' = trust
    BY Here DEF SkipRejected, At, KeepLog, KeepTree, TypeInv
  <1>2. proc' = [proc EXCEPT ![p] = r]
    BY <1>1 DEF SkipRejected
  <1> HIDE DEF s
  <1>3. /\ r.at = "replay" /\ r.suffix = proc[p].suffix /\ r.todo = s /\ r.pending = proc[p].pending
    BY <1>1 DEF ProcRec
  <1> HIDE DEF r
  <1>4. Core(proc[p], events, worktree, trust) /\ (Core(r, events', worktree', trust') => SoundInv')
    BY <1>1, <1>2, OwnerTrust, OwnerStep
  <1>5. /\ Good(events) /\ DanglingFits(events) /\ Planned(proc[p], events, trust)
        /\ ReplayState(proc[p], events, worktree)
    BY <1>1, <1>4 DEF Core, OwnerState, HalfOf
  <1>6. Current(p).terminal # 0 /\ events[Current(p).terminal].type = "ACTION_REJECTED"
    BY <1>1 DEF Rejected
  <1>7. proc[p].todo # proc[p].suffix
    <2>1. ASSUME proc[p].todo = proc[p].suffix PROVE FALSE
      <3>1. Current(p) = Earliest(proc[p].suffix)
        BY <2>1, <1>1, <1>5, PlannedMeets
      <3>2. Led(proc[p].suffix, events)
        BY <3>1, <1>1, <1>5, <1>6, PlannedMeets DEF Alone
      <3>3. Current(p).terminal \in Identified(events)
        BY <3>1, <3>2 DEF Led
      <3>4. QED
        BY <3>3, <1>1, <1>6, IdentifiedFields, Here
    <2>2. QED
      BY <2>1
  <1>8. /\ danglingMutatingIntents(events) \subseteq Rest(proc[p].todo)
        /\ worktree = AcceptedTree(events) /\ proc[p].pending = <<>>
    BY <1>1, <1>5, <1>7 DEF ReplayState
  <1>9. danglingMutatingIntents(events) \subseteq Rest(s) /\ s # proc[p].suffix
    BY <1>1, <1>5, <1>6, <1>8, CurrentMeets DEF s
  <1>10. ReplayState(r, events, worktree) /\ Planned(r, events, trust)
    BY <1>3, <1>5, <1>8, <1>9 DEF ReplayState, Planned
  <1>11. Core(r, events, worktree, trust)
    BY <1>3, <1>5, <1>10 DEF Core, OwnerState
  <1>12. QED
    BY <1>1, <1>4, <1>11

\* The suffix is replayed: nothing dangles, or the terminal that is due says
\* what is in the worktree.
LEMMA FinalIdentitySound ==
    ASSUME TypeInv, SoundInv, NEW p \in Procs, p = owner, OnTrack', FinalIdentity(p)
    PROVE  SoundInv'
  <1>1. /\ proc[p].at = "replay" /\ Quietly /\ events' = events
        /\ proc[p].todo = {} /\ proc[p].suffix # {}
        /\ worktree' = worktree /\ trust' = trust
    BY Here DEF FinalIdentity, At, KeepLog, KeepTree, ProcOK
  <1>2. "closing" \in Phases /\ "conclude" \in Phases
    BY DEF Phases
  <1>3. PICK x \in {"closing", "conclude"} : Goto(p, x)
    BY DEF FinalIdentity
  <1>4. Core(proc[p], events, worktree, trust)
    BY <1>1, <1>2, <1>3, OwnerTrust, OwnerGoto
  <1>5. PICK r : Moved(r, p, x) /\ (Core(r, events', worktree', trust') => SoundInv')
    BY <1>1, <1>2, <1>3, OwnerTrust, OwnerGoto
  <1>6. /\ Good(events) /\ DanglingFits(events) /\ Planned(proc[p], events, trust)
        /\ ReplayState(proc[p], events, worktree)
    BY <1>1, <1>4 DEF Core, OwnerState, HalfOf
  <1>7. Planned(r, events, trust)
    BY <1>5, <1>6 DEF Moved, Planned
  <1>8. \/ Ready(events, worktree) /\ proc[p].pending = <<>>
        \/ \E d \in danglingMutatingIntents(events) : Replayed(proc[p], events, worktree, d)
    <2>1. Rest({}) = {}
      BY DEF Rest
    <2>2. QED
      BY <1>1, <1>6, <2>1 DEF ReplayState, Ready
  <1>9. \/ Ready(events, worktree) /\ r.pending = <<>>
        \/ \E d \in danglingMutatingIntents(events) : Replayed(r, events, worktree, d)
    BY <1>5, <1>8 DEF Moved, Replayed
  <1>10. Core(r, events, worktree, trust)
    BY <1>5, <1>6, <1>7, <1>9 DEF Moved, Core, OwnerState
  <1>11. QED
    BY <1>1, <1>5, <1>10

\* The owner stands at a generation to replay.
LEMMA AtReplay ==
    ASSUME TypeInv, NEW p \in Procs, proc[p].at = "replay", proc[p].todo # {},
           Core(proc[p], events, worktree, trust)
    PROVE  /\ Good(events) /\ DanglingFits(events) /\ Planned(proc[p], events, trust)
           /\ proc[p].pending = <<>>
           /\ danglingMutatingIntents(events) \subseteq Rest(proc[p].todo)
           /\ Current(p).intent \in danglingMutatingIntents(events) => worktree = AcceptedTree(events)
  <1>1. /\ Good(events) /\ DanglingFits(events) /\ Planned(proc[p], events, trust)
        /\ ReplayState(proc[p], events, worktree)
    BY DEF Core, OwnerState, HalfOf
  <1>2. CASE proc[p].todo = proc[p].suffix /\ worktree = BaseTree(proc[p], events) /\ proc[p].pending = <<>>
    <2>1. /\ Current(p) = Earliest(proc[p].suffix) /\ danglingMutatingIntents(events) \subseteq Rest(proc[p].suffix)
          /\ Alone(proc[p].suffix, events) \/ Led(proc[p].suffix, events)
      BY <1>1, <1>2, PlannedMeets
    <2>2. QED
      BY <1>1, <1>2, <2>1 DEF Alone, Led, BaseTree
  <1>3. QED
    BY <1>1, <1>2 DEF ReplayState

\* A generation is applied again, or its replay is given up and undone.
LEMMA ReplayGenerationSound ==
    ASSUME TypeInv, SoundInv, NEW p \in Procs, p = owner, OnTrack', ReplayGeneration(p)
    PROVE  SoundInv'
  <1> DEFINE g == Current(p)
             a == events[Current(p).intent].actionId
             s == proc[p].todo \ {Current(p)}
             e == [intent |-> Current(p).intent, tree |-> Blob]
             q == Append(proc[p].pending, e)
             r == [proc[p] EXCEPT !.todo = s, !.pending = q]
             D == danglingMutatingIntents(events)
             invalidated == Accepted(p) /\ Current(p).terminal \notin activeAppliedEvents(events)
  <1>1. /\ proc[p].at = "replay" /\ Quietly /\ events' = events /\ proc[p] \in ProcRec
        /\ proc[p].todo # {} /\ ~Rejected(p) /\ proc \in [Procs -> ProcRec]
    BY Here DEF ReplayGeneration, At, KeepLog, TypeInv
  <1>2. "recheck" \in Phases /\ "closing" \in Phases
    BY DEF Phases
  <1>3. trust' \notin {"lost", "halved"}
    BY DEF OnTrack, Beyond
  <1>4. trust' = trust
    <2>1. (\E t : Overwrite(p, t)) \/ KeepTree
      BY <1>3 DEF ReplayGeneration
    <2>2. QED
      BY <2>1, <1>1, OwnerTrust DEF KeepTree
  <1>5. \E y : proc' = [proc EXCEPT ![p] = y]
    <2>1. \A x : Goto(p, x) => \E y : proc' = [proc EXCEPT ![p] = y]
      BY DEF Goto
    <2>2. CASE proc' = [proc EXCEPT ![p].todo = @ \ {Current(p)},
                                  ![p].pending = Append(@, [intent |-> Current(p).intent, tree |-> Blob])]
      <3>1. proc' = [proc EXCEPT ![p] = r]
        BY <2>2, <1>1
      <3>2. QED
        BY <3>1
    <2>3. QED
      BY <2>1, <2>2 DEF ReplayGeneration
  <1>6. Core(proc[p], events, worktree, trust)
    BY <1>1, <1>4, <1>5, OwnerTrust, OwnerStep
  <1>7. /\ Good(events) /\ DanglingFits(events) /\ Planned(proc[p], events, trust)
        /\ proc[p].pending = <<>> /\ D \subseteq Rest(proc[p].todo)
        /\ g.intent \in D => worktree = AcceptedTree(events)
    BY <1>1, <1>6, AtReplay
  <1>8. /\ g.terminal = 0 => g.intent \in D
        /\ g.intent \in D => g.terminal = 0 /\ proc[p].todo = {g}
        /\ g.terminal # 0 => Accepted(p)
        /\ g.intent \in Intents(events) /\ s # proc[p].suffix
        /\ Accepted(p) /\ ~invalidated => g.terminal \in Identified(events)
    BY <1>1, <1>7, CurrentMeets, PlannedMeets
  <1>9. ASSUME Goto(p, "closing") PROVE SoundInv'
    <2>1. PICK y : Moved(y, p, "closing") /\ (Core(y, events', worktree', trust') => SoundInv')
      BY <1>1, <1>2, <1>4, <1>9, OwnerTrust, OwnerGoto
    <2>2. Planned(y, events, trust)
      BY <1>7, <2>1 DEF Moved, Planned
    <2>3. Core(y, events, worktree', trust)
      BY <1>7, <2>1, <2>2 DEF Moved, Core, OwnerState
    <2>4. QED
      BY <1>1, <1>4, <2>1, <2>3
  <1>10. ASSUME NEW t \in performApply(a, worktree), Goto(p, "recheck"),
                Overwrite(p, t), ~invalidated
         PROVE  SoundInv'
    <2>1. PICK y : Moved(y, p, "recheck") /\ (Core(y, events', worktree', trust') => SoundInv')
      BY <1>1, <1>2, <1>4, <1>10, OwnerTrust, OwnerGoto
    <2>2. worktree' = t
      BY <1>1, <1>10, OwnerTrust
    <2>3. Planned(y, events, trust)
      BY <1>7, <2>1 DEF Moved, Planned
    <2>4. RecheckState(y, events, worktree')
      <3>1. Earliest(y.todo) = g /\ y.pending = <<>> /\ D \subseteq Rest(y.todo)
        BY <1>7, <2>1 DEF Moved, Current
      <3>2. g.intent \in D => worktree' \in performApply(a, AcceptedTree(events))
        BY <1>7, <1>10, <2>2
      <3>3. g.intent \notin D => g.terminal \in Identified(events)
        BY <1>8, <1>10
      <3> HIDE DEF g
      <3>4. QED
        BY <3>1, <3>2, <3>3 DEF RecheckState, g
    <2>5. Core(y, events, worktree', trust)
      BY <1>7, <2>1, <2>3, <2>4 DEF Moved, Core, OwnerState
    <2>6. QED
      BY <1>1, <1>4, <2>1, <2>5
  <1>11. ASSUME proc' = [proc EXCEPT ![p].todo = @ \ {Current(p)},
                                  ![p].pending = Append(@, [intent |-> Current(p).intent, tree |-> Blob])],
                ~Accepted(p), KeepTree \/ Overwrite(p, events[Current(p).intent].tree)
         PROVE  SoundInv'
    <2>1. g.intent \in D /\ proc[p].todo = {g}
      BY <1>8, <1>11
    <2>2. worktree' = AcceptedTree(events)
      <3>1. CASE KeepTree
        BY <3>1, <2>1, <1>7 DEF KeepTree
      <3>2. CASE Overwrite(p, events[Current(p).intent].tree)
        BY <3>2, <1>1, <1>7, <2>1, OwnerTrust DEF DanglingFits
      <3>3. QED
        BY <1>11, <3>1, <3>2
    <2>3. proc' = [proc EXCEPT ![p] = r]
      BY <1>1, <1>11
    <2>4. q = <<e>> /\ s = {}
      BY <1>7, <2>1
    <2>5. e.intent = g.intent /\ e.tree = Blob
      OBVIOUS
    <2> HIDE DEF q, s
    <2>6. r.at = "replay" /\ r.todo = {} /\ r.pending = <<e>> /\ r.suffix = proc[p].suffix
      <3>1. r.at = "replay" /\ r.todo = s /\ r.pending = q /\ r.suffix = proc[p].suffix
        BY <1>1 DEF ProcRec
      <3>2. QED
        BY <3>1, <2>4
    <2> HIDE DEF r
    <2>7. Replayed(r, events, worktree', g.intent)
      BY <2>2, <2>6 DEF Replayed
    <2>8. ReplayState(r, events, worktree')
      BY <2>1, <2>6, <2>7 DEF ReplayState
    <2>9. Planned(r, events, trust)
      BY <1>7, <2>6 DEF Planned
    <2>10. Core(r, events, worktree', trust)
      BY <1>7, <2>6, <2>8, <2>9 DEF Core, OwnerState
    <2>11. QED
      BY <1>1, <1>4, <2>3, <2>10, OwnerTrust, OwnerStep
  <1>12. QED
    BY <1>3, <1>9, <1>10, <1>11 DEF ReplayGeneration

\* The identity after the replay is the recorded one, so the worktree is the
\* accepted tree; or there was none, and it becomes the terminal that is due.
LEMMA RecheckGenerationSound ==
    ASSUME TypeInv, SoundInv, NEW p \in Procs, p = owner, OnTrack', RecheckGeneration(p)
    PROVE  SoundInv'
  <1> DEFINE g == Current(p)
             s == proc[p].todo \ {Current(p)}
             e == [intent |-> Current(p).intent, tree |-> worktree]
             q == IF Accepted(p) THEN proc[p].pending ELSE Append(proc[p].pending, e)
             r == [proc[p] EXCEPT !.at = "replay", !.todo = s, !.hash = worktree,
                                  !.replayed = TRUE, !.pending = q]
             D == danglingMutatingIntents(events)
  <1>1. /\ proc[p].at = "recheck" /\ Quietly /\ events' = events /\ proc[p] \in ProcRec
        /\ proc[p].todo # {} /\ proc \in [Procs -> ProcRec]
        /\ worktree' = worktree /\ trust' = trust /\ worktree \in Tree
    BY Here DEF RecheckGeneration, At, KeepLog, TypeInv, ProcOK, KeepTree
  <1>2. "replay" \in Phases /\ "closing" \in Phases
    BY DEF Phases
  <1>3. CASE Goto(p, "closing")
    <2>1. PICK y : Moved(y, p, "closing") /\ (Core(y, events', worktree', trust') => SoundInv')
      BY <1>1, <1>2, <1>3, OwnerTrust, OwnerGoto
    <2>2. Core(proc[p], events, worktree, trust)
      BY <1>1, <1>2, <1>3, OwnerTrust, OwnerGoto
    <2>3. Good(events) /\ DanglingFits(events) /\ Planned(proc[p], events, trust)
      BY <1>1, <2>2 DEF Core, OwnerState, HalfOf
    <2>4. Planned(y, events, trust)
      BY <2>1, <2>3 DEF Moved, Planned
    <2>5. Core(y, events, worktree, trust)
      BY <2>1, <2>3, <2>4 DEF Moved, Core, OwnerState
    <2>6. QED
      BY <1>1, <2>1, <2>5
  <1>4. CASE /\ Agrees(p)
             /\ proc' = [proc EXCEPT
                        ![p].at = "replay", ![p].todo = @ \ {Current(p)}, ![p].hash = worktree,
                        ![p].replayed = TRUE,
                        ![p].pending = IF Accepted(p) THEN @
                                       ELSE Append(@, [intent |-> Current(p).intent,
                                                       tree |-> worktree])]
    <2>1. proc' = [proc EXCEPT ![p] = r]
      BY <1>1, <1>4
    <2>2. Core(proc[p], events, worktree, trust)
      BY <1>1, <2>1, OwnerTrust, OwnerStep
    <2>3. /\ Good(events) /\ DanglingFits(events) /\ Planned(proc[p], events, trust)
          /\ RecheckState(proc[p], events, worktree)
      BY <1>1, <2>2 DEF Core, OwnerState, HalfOf
    <2>4. /\ proc[p].pending = <<>> /\ D \subseteq Rest(proc[p].todo)
          /\ g.intent \in D => worktree \in performApply(events[g.intent].actionId, AcceptedTree(events))
          /\ g.intent \notin D => g.terminal \in Identified(events)
      BY <2>3 DEF RecheckState, Current
    <2>5. /\ g.intent \in D => g.terminal = 0 /\ proc[p].todo = {g}
          /\ s # proc[p].suffix
          /\ g.intent \notin D => D \subseteq Rest(s)
      BY <1>1, <2>3, <2>4, CurrentMeets
    <2>6. r.at = "replay" /\ r.todo = s /\ r.pending = q /\ r.suffix = proc[p].suffix
      <3> HIDE DEF s, q
      <3>1. QED
        BY <1>1 DEF ProcRec
    <2>7. Planned(r, events, trust)
      <3> HIDE DEF r
      <3>1. QED
        BY <2>3, <2>6 DEF Planned
    <2>8. CASE g.intent \notin D
      <3>1. g.terminal \in Identified(events) /\ D \subseteq Rest(s)
        BY <2>4, <2>5, <2>8
      <3>2. Accepted(p)
        BY <3>1, Here, IdentifiedFields, EventFields DEF Accepted
      <3>3. worktree = AcceptedTree(events)
        BY <1>1, <1>4, <2>3, <3>1, <3>2, PlannedMeets DEF Agrees
      <3>4. q = <<>>
        BY <2>4, <3>2
      <3> HIDE DEF q, r, s
      <3>5. ReplayState(r, events, worktree)
        BY <2>5, <2>6, <3>1, <3>3, <3>4 DEF ReplayState
      <3>6. Core(r, events, worktree, trust)
        BY <2>3, <2>6, <2>7, <3>5 DEF Core, OwnerState
      <3>7. QED
        BY <1>1, <2>1, <3>6, OwnerTrust, OwnerStep
    <2>9. CASE g.intent \in D
      <3>1. ~Accepted(p)
        BY <2>5, <2>9 DEF Accepted
      <3>2. q = <<e>> /\ s = {}
        BY <2>4, <2>5, <2>9, <3>1
      <3>3. worktree # Blob
        BY <1>1, ExecutorAssumption
      <3> HIDE DEF q, r, s
      <3>4. r.todo = {} /\ r.pending = <<e>>
        BY <2>6, <3>2
      <3>5. Replayed(r, events, worktree, g.intent)
        BY <2>4, <2>9, <3>3, <3>4 DEF Replayed
      <3>6. ReplayState(r, events, worktree)
        BY <2>9, <3>4, <3>5 DEF ReplayState
      <3>7. Core(r, events, worktree, trust)
        BY <2>3, <2>6, <2>7, <3>6 DEF Core, OwnerState
      <3>8. QED
        BY <1>1, <2>1, <3>7, OwnerTrust, OwnerStep
    <2>10. QED
      BY <2>8, <2>9
  <1>5. QED
    BY <1>3, <1>4 DEF RecheckGeneration

\* The terminal of the dangling generation goes out and says what the worktree holds:
\* the ledger stays, or grows by what was applied.
LEMMA Concluded ==
    ASSUME TypeInv, NEW p \in Procs, NEW e, EventFits(events, e), Log(e),
           Good(events), DanglingFits(events), NEW d \in danglingMutatingIntents(events),
           e.intentSeq = d, e.actionId = events[d].actionId, ~e.duplicate, e.invalidates = 0,
           \/ e.type = "ACTION_REJECTED" /\ worktree = AcceptedTree(events)
           \/ /\ e.type = "ACTION_APPLIED" /\ e.tree = worktree
              /\ worktree \in performApply(events[d].actionId, AcceptedTree(events))
    PROVE  /\ Good(events') /\ DanglingFits(events') /\ Ready(events', worktree)
           /\ LedgerMoves(events, events')
  <1> DEFINE n == Len(events)
             m == events'
  <1>1. LogShape(events) /\ Grown(events, m, n) /\ m[n + 1] = e
    BY Appending, Here DEF Log
  <1>2. danglingMutatingIntents(events) = {d} /\ d \in Intents(events) /\ d # 0
    BY <1>1, OnlyDangling, IntentFields DEF Good, danglingMutatingIntents
  <1> HIDE DEF n, m
  <1>3. CASE e.type = "ACTION_REJECTED" /\ worktree = AcceptedTree(events)
    <2>1. \A k \in DOMAIN events : ~Withdraws(m[n + 1], events, k)
      BY <1>1, EventFields DEF Withdraws
    <2>2. Good(m) /\ danglingMutatingIntents(m) = {} /\ AcceptedTree(m) = AcceptedTree(events)
      <3>1. \A k \in Identified(events) : ~Withdraws(m[n + 1], events, k)
        BY <1>1, <2>1, IdentifiedFields
      <3>2. QED
        BY <1>1, <1>2, <1>3, <3>1, RejectionGrows
    <2>3. KeepsLedger(events, m)
      BY <1>1, <1>3, <2>1, LedgerKept DEF activeAppliedEvents
    <2>4. QED
      BY <1>3, <2>2, <2>3 DEF DanglingFits, Ready, LedgerMoves, m
  <1>4. CASE /\ e.type = "ACTION_APPLIED" /\ e.tree = worktree
             /\ worktree \in performApply(events[d].actionId, AcceptedTree(events))
    <2>1. Good(m) /\ danglingMutatingIntents(m) = {} /\ AcceptedTree(m) = worktree
      BY <1>1, <1>4, AppliedGrows
    <2>2. worktree # Blob
      BY ExecutorAssumption DEF TypeInv
    <2>3. AcceptsEntry(events, m)
      BY <1>1, <1>4, <2>2, LedgerAccepts DEF Good
    <2>4. QED
      BY <2>1, <2>3 DEF DanglingFits, Ready, LedgerMoves, m
  <1>5. QED
    BY <1>3, <1>4

\* The recovery logs its terminal and lets the action through.
LEMMA ConcludeRecoverySound ==
    ASSUME TypeInv, SoundInv, NEW p \in Procs, p = owner, OnTrack', ConcludeRecovery(p)
    PROVE  SoundInv' /\ LedgerMoves(events, events')
  <1> DEFINE next == Head(proc[p].pending)
             a == events[next.intent].actionId
             type == IF next.tree = Blob THEN "ACTION_REJECTED" ELSE "ACTION_APPLIED"
             e == appended(type, a, next.intent, next.tree, FALSE, 0)
             q == Tail(proc[p].pending)
             r == [proc[p] EXCEPT !.pending = q]
             D == danglingMutatingIntents(events)
  <1>1. /\ proc[p].at = "conclude" /\ Quietly /\ proc[p] \in ProcRec
        /\ proc \in [Procs -> ProcRec] /\ worktree' = worktree /\ worktree \in Tree
        /\ LogShape(events)
    BY Here DEF ConcludeRecovery, At, TypeInv
  <1>2. Beyond => Beyond'
    BY <1>1, OwnerTrust DEF ConcludeRecovery
  <1>3. \E y : proc' = [proc EXCEPT ![p] = y]
    <2>1. CASE proc' = [proc EXCEPT ![p].pending = Tail(@)]
      <3>1. proc' = [proc EXCEPT ![p] = r]
        BY <2>1, <1>1
      <3>2. QED
        BY <3>1
    <2>2. QED
      BY <2>1 DEF ConcludeRecovery, Goto, Return
  <1>4. OnTrack /\ Core(proc[p], events, worktree, trust)
    BY <1>1, <1>2, <1>3, OwnerStep
  <1>5. /\ Good(events) /\ DanglingFits(events) /\ ~Beyond
        /\ \/ Ready(events, worktree) /\ proc[p].pending = <<>>
           \/ \E d \in D : Replayed(proc[p], events, worktree, d)
    BY <1>1, <1>4 DEF Core, OwnerState, HalfOf, OnTrack
  <1>6. CASE proc[p].pending = <<>>
    <2>1. Ready(events, worktree)
      <3>1. ASSUME NEW d \in D, Replayed(proc[p], events, worktree, d) PROVE FALSE
        <4>1. PICK x \in {worktree, Blob} : proc[p].pending = <<[intent |-> d, tree |-> x]>>
          BY <3>1 DEF Replayed
        <4>2. Len(proc[p].pending) = 1 /\ Len(<<>>) = 0
          BY <4>1
        <4>3. QED
          BY <1>6, <4>2
      <3>2. QED
        BY <1>5, <3>1
    <2>2. events' = events /\ trust' = "settled" /\ Goto(p, "gate")
      BY <1>1, <1>5, <1>6, <2>1, OwnerTrust DEF ConcludeRecovery, KeepLog, Ready
    <2>3. "gate" \in Phases
      BY DEF Phases
    <2>4. PICK y : Moved(y, p, "gate") /\ (Core(y, events', worktree', trust') => SoundInv')
      BY <1>1, <1>2, <2>2, <2>3, OwnerGoto
    <2>5. Core(y, events, worktree, trust')
      BY <1>5, <2>1, <2>4 DEF Moved, Core, OwnerState, Clean, Ready
    <2>6. QED
      BY <1>1, <2>2, <2>4, <2>5, LedgerStays
  <1>7. CASE proc[p].pending # <<>>
    <2>1. PICK d \in D : Replayed(proc[p], events, worktree, d)
      BY <1>5, <1>7
    <2>2. PICK x \in {worktree, Blob} :
             /\ proc[p].pending = <<[intent |-> d, tree |-> x]>>
             /\ IF x = Blob THEN worktree = AcceptedTree(events)
                ELSE worktree \in performApply(events[d].actionId, AcceptedTree(events))
      BY <2>1 DEF Replayed
    <2>3. next = [intent |-> d, tree |-> x] /\ q = <<>>
      BY <2>2
    <2>4. next.intent = d /\ next.tree = x
      BY <2>3
    <2>5. /\ Log(e) /\ proc' = [proc EXCEPT ![p].pending = Tail(@)]
          /\ Unfenced(p)
      BY <1>1, <1>7 DEF ConcludeRecovery
    <2>6. /\ d \in Intents(events) /\ d \in Nat /\ events[d].actionId \in Ids /\ x \in Tree \cup {Blob}
      BY <1>1, <2>1, IntentFields DEF danglingMutatingIntents
    <2>7. /\ e.type = type /\ e.intentSeq = d /\ e.actionId = events[d].actionId /\ e.duplicate = FALSE
          /\ e.invalidates = 0 /\ e.tree = x
      BY <2>4 DEF appended
    <2>8. EventFits(events, e)
      <3>1. CASE x = Blob
        BY <3>1, <1>1, <2>4, <2>6, RejectionFits
      <3>2. CASE x # Blob
        BY <3>2, <1>1, <2>4, <2>6, AcceptanceFits
      <3>3. QED
        BY <3>1, <3>2
    <2>9. type = IF x = Blob THEN "ACTION_REJECTED" ELSE "ACTION_APPLIED"
      BY <2>4
    <2> HIDE DEF e, type, next
    <2>10. /\ Good(events') /\ DanglingFits(events') /\ Ready(events', worktree)
           /\ LedgerMoves(events, events')
      <3>1. CASE x = Blob
        BY <1>5, <2>2, <2>5, <2>7, <2>8, <2>9, <3>1, Concluded
      <3>2. CASE x # Blob
        BY <1>5, <2>2, <2>5, <2>7, <2>8, <2>9, <3>2, Concluded
      <3>3. QED
        BY <3>1, <3>2
    <2>11. proc' = [proc EXCEPT ![p] = r]
      BY <1>1, <2>5
    <2>12. r.at = "conclude" /\ r.pending = <<>>
      <3>1. r.at = "conclude" /\ r.pending = q
        BY <1>1 DEF ProcRec
      <3>2. QED
        BY <3>1, <2>3
    <2> HIDE DEF r
    <2>13. Core(r, events', worktree, trust')
      BY <2>10, <2>12 DEF Core, OwnerState
    <2>14. QED
      BY <1>1, <1>2, <2>10, <2>11, <2>13, OwnerStep
  <1>8. QED
    BY <1>6, <1>7

\* The catch of the recovery puts the worktree back at the boundary.
LEMMA FailClosedSound ==
    ASSUME TypeInv, SoundInv, NEW p \in Procs, p = owner, OnTrack', FailClosed(p)
    PROVE  SoundInv'
  <1> DEFINE r == [proc[p] EXCEPT !.at = "invalidate", !.todo = proc[p].suffix]
  <1>1. /\ proc[p].at = "closing" /\ Quietly /\ KeepLog /\ proc[p] \in ProcRec /\ events' = events
        /\ proc \in [Procs -> ProcRec] /\ proc[p].suffix # {}
    BY Here DEF FailClosed, At, TypeInv, KeepLog, ProcOK
  <1>2. CASE Return(p) /\ KeepTree
    BY <1>1, <1>2, OwnerReturns DEF HalfInvalidated, At
  <1>3. CASE /\ Overwrite(p, events[Earliest(proc[p].suffix).intent].tree)
             /\ proc' = [proc EXCEPT ![p].at = "invalidate", ![p].todo = proc[p].suffix]
    <2>1. proc' = [proc EXCEPT ![p] = r]
      BY <1>1, <1>3
    <2>2. r.at = "invalidate" /\ r.todo = proc[p].suffix /\ r.suffix = proc[p].suffix
      BY <1>1 DEF ProcRec
    <2> HIDE DEF r
    <2>3. worktree' = BaseTree(proc[p], events) /\ trust' = trust
      BY <1>1, <1>3, OwnerTrust DEF BaseTree
    <2>4. Core(proc[p], events, worktree, trust) /\ (Core(r, events', worktree', trust') => SoundInv')
      BY <1>1, <2>1, <2>3, OwnerTrust, OwnerStep
    <2>5. Good(events) /\ DanglingFits(events) /\ Planned(proc[p], events, trust)
      BY <1>1, <2>4 DEF Core, OwnerState, HalfOf
    <2>6. Planned(r, events, trust) /\ worktree' = BaseTree(r, events)
      BY <2>2, <2>3, <2>5 DEF Planned, BaseTree
    <2>7. InvalidateState(r, events, worktree', trust)
      BY <2>2, <2>6 DEF InvalidateState
    <2>8. Core(r, events, worktree', trust)
      BY <2>2, <2>5, <2>7 DEF Core, OwnerState
    <2>9. QED
      BY <1>1, <2>3, <2>4, <2>8
  <1>4. QED
    BY <1>2, <1>3 DEF FailClosed

\* What is left of the suffix after a rejection of the current generation.
LEMMA RestAfter ==
    ASSUME TypeInv, NEW p \in Procs, NEW r, NEW m, NEW t, r.at = "invalidate",
           r.suffix = proc[p].suffix, Good(m), BaseTree(r, m) = worktree,
           r.todo # r.suffix, worktree = AcceptedTree(m),
           danglingMutatingIntents(m) \subseteq Rest(r.todo),
           \A g \in r.todo : IF g.terminal = 0 THEN g.intent \in danglingMutatingIntents(m)
                             ELSE g.terminal \notin Identified(m)
    PROVE  Core(r, m, worktree, t)
  <1>1. InvalidateState(r, m, worktree, t)
    BY DEF InvalidateState
  <1>2. HalfOf(r) \/ DanglingFits(m)
    <2>1. ASSUME r.todo = {} PROVE DanglingFits(m)
      BY <2>1 DEF Rest, DanglingFits
    <2>2. QED
      BY <2>1 DEF HalfOf
  <1>3. QED
    BY <1>1, <1>2 DEF Core, OwnerState

\* A rejection leaves the snapshot of the boundary where it was.
LEMMA BaseGrows ==
    ASSUME TypeInv, NEW p \in Procs, proc[p].suffix # {}, NEW n, Grown(events, events', n),
           NEW r, r.suffix = proc[p].suffix
    PROVE  BaseTree(r, events') = BaseTree(proc[p], events)
  <1>1. Earliest(proc[p].suffix).intent \in DOMAIN events
    BY BaseFields DEF Intents
  <1>2. QED
    BY <1>1, GrownBasics DEF BaseTree

\* The first generation of the suffix is rejected: the accepted one that led
\* the recovery is withdrawn, or the dangling one is all there is.
LEMMA FirstRejection ==
    ASSUME TypeInv, NEW p \in Procs, Good(events), DanglingFits(events), NEW t, NEW u,
           proc[p].todo # {}, proc[p].todo = proc[p].suffix, Planned(proc[p], events, t),
           worktree = BaseTree(proc[p], events),
           NEW r, r.at = "invalidate", r.suffix = proc[p].suffix,
           r.todo = proc[p].todo \ {Current(p)},
           NEW e, EventFits(events, e), Log(e), e.type = "ACTION_REJECTED",
           e.actionId = events[Current(p).intent].actionId,
           IF Accepted(p) THEN e.intentSeq = 0 /\ e.invalidates = Current(p).terminal
           ELSE e.intentSeq = Current(p).intent /\ e.invalidates = 0,
           ~Rejected(p)
    PROVE  Core(r, events', worktree, u) /\ LedgerMoves(events, events')
  <1> DEFINE n == Len(events)
             m == events'
             g == Current(p)
             S == proc[p].suffix
             D == danglingMutatingIntents(events)
  <1>1. LogShape(events) /\ Grown(events, m, n) /\ m[n + 1] = e
    BY Appending, Here DEF Log
  <1>2. S # {} /\ BaseTree(r, m) = worktree
    BY <1>1, BaseGrows
  <1>3. /\ Alone(S, events) \/ Led(S, events)
        /\ g = Earliest(S) /\ D \subseteq Rest(S)
    BY PlannedMeets
  <1>4. /\ g \in S /\ r.todo # r.suffix
        /\ g.intent \notin D => D \subseteq Rest(r.todo)
    BY <1>3, CurrentMeets
  <1>5. \A h \in S \ {g} : h.terminal \notin Identified(events)
    BY <1>1, <1>3, PlanShape DEF Planned
  <1>6. \A h \in S : h.terminal = 0 => h.intent \in D
    BY <1>1, SuffixFacts DEF Planned
  <1> HIDE DEF m, n
  <1>7. CASE Alone(S, events)
    <2>1. g.terminal = 0 /\ g.intent \in D /\ S = {g} /\ events[g.intent].tree = AcceptedTree(events)
      BY <1>3, <1>7 DEF Alone
    <2>2. e.intentSeq = g.intent /\ e.invalidates = 0
      BY <2>1 DEF Accepted
    <2>3. /\ \A k \in DOMAIN events : ~Withdraws(e, events, k)
          /\ \A k \in Identified(events) : ~Withdraws(e, events, k)
      BY <1>1, <2>2, IdentifiedFields, EventFields DEF Withdraws
    <2>4. D = {g.intent}
      BY <1>1, <2>1, OnlyDangling DEF Good
    <2>5. Good(m) /\ danglingMutatingIntents(m) = {} /\ AcceptedTree(m) = AcceptedTree(events)
      BY <1>1, <2>1, <2>2, <2>3, <2>4, RejectionGrows
    <2>6. r.todo = {}
      BY <2>1
    <2>7. worktree = AcceptedTree(m)
      BY <1>3, <2>1, <2>5 DEF BaseTree
    <2>8. KeepsLedger(events, m)
      BY <1>1, <2>3, LedgerKept DEF activeAppliedEvents
    <2>9. Core(r, m, worktree, u)
      BY <1>2, <1>4, <2>5, <2>6, <2>7, RestAfter DEF m
    <2>10. QED
      BY <2>8, <2>9 DEF LedgerMoves, m
  <1>8. CASE Led(S, events)
    <2> DEFINE k == g.terminal
    <2>1. /\ k = LastOf(events, Identified(events)) /\ k \in Identified(events)
          /\ g.intent = events[k].intentSeq /\ g.intent \notin D
      BY <1>3, <1>8 DEF Led
    <2>2. Accepted(p) /\ events[k].actionId = events[g.intent].actionId
      BY <1>1, <2>1, IdentifiedFields, EventFields DEF Accepted, LogShape
    <2>3. e.intentSeq = 0 /\ e.invalidates = k /\ e.actionId = events[k].actionId
      BY <2>2
    <2> HIDE DEF k
    <2>4. /\ Good(m) /\ Identified(m) = Identified(events) \ {k}
          /\ danglingMutatingIntents(m) = D /\ AcceptedTree(m) = events[events[k].intentSeq].tree
      BY <1>1, <2>1, <2>3, WithdrawalGrows
    <2>5. worktree = AcceptedTree(m)
      BY <1>3, <2>1, <2>4 DEF BaseTree
    <2>6. danglingMutatingIntents(m) \subseteq Rest(r.todo)
      BY <1>4, <2>1, <2>4
    <2>7. \A h \in r.todo : IF h.terminal = 0 THEN h.intent \in danglingMutatingIntents(m)
                            ELSE h.terminal \notin Identified(m)
      BY <1>5, <1>6, <2>4
    <2>8. WithdrawsEntry(events, m)
      BY <1>1, <2>1, <2>3, LedgerWithdraws DEF Good
    <2>9. Core(r, m, worktree, u)
      BY <1>2, <1>4, <2>4, <2>5, <2>6, <2>7, RestAfter DEF m
    <2>10. QED
      BY <2>8, <2>9 DEF LedgerMoves, m
  <1>9. QED
    BY <1>3, <1>7, <1>8

\* A later generation of the suffix is rejected.
LEMMA LaterRejection ==
    ASSUME TypeInv, NEW p \in Procs, Good(events), NEW u,
           proc[p].todo # {}, proc[p].todo # proc[p].suffix,
           worktree = BaseTree(proc[p], events), worktree = AcceptedTree(events),
           danglingMutatingIntents(events) \subseteq Rest(proc[p].todo),
           \A g \in proc[p].todo : IF g.terminal = 0 THEN g.intent \in danglingMutatingIntents(events)
                                   ELSE g.terminal \notin Identified(events),
           NEW r, r.at = "invalidate", r.suffix = proc[p].suffix,
           r.todo = proc[p].todo \ {Current(p)},
           NEW e, EventFits(events, e), Log(e), e.type = "ACTION_REJECTED",
           e.actionId = events[Current(p).intent].actionId,
           IF Accepted(p) THEN e.intentSeq = 0 /\ e.invalidates = Current(p).terminal
           ELSE e.intentSeq = Current(p).intent /\ e.invalidates = 0,
           ~Rejected(p)
    PROVE  Core(r, events', worktree, u) /\ LedgerMoves(events, events')
  <1> DEFINE n == Len(events)
             m == events'
             g == Current(p)
             T == proc[p].todo
             D == danglingMutatingIntents(events)
  <1>1. LogShape(events) /\ Grown(events, m, n) /\ m[n + 1] = e
    BY Appending, Here DEF Log
  <1>2. /\ g \in T /\ g \in proc[p].suffix /\ r.todo # r.suffix
        /\ g.intent \in D => g.terminal = 0 /\ T = {g}
        /\ g.intent \notin D => D \subseteq Rest(r.todo)
        /\ g.terminal # 0 => g.intent \notin D /\ Accepted(p)
    BY CurrentMeets
  <1>3. BaseTree(r, m) = worktree
    BY <1>1, <1>2, BaseGrows
  <1> HIDE DEF m, n, g
  <1>4. CASE g.terminal = 0
    <2>1. g.intent \in D /\ T = {g} /\ ~Accepted(p)
      BY <1>2, <1>4 DEF Accepted, g
    <2>2. e.intentSeq = g.intent /\ e.invalidates = 0
      BY <2>1 DEF g
    <2>3. /\ \A k \in DOMAIN events : ~Withdraws(e, events, k)
          /\ \A k \in Identified(events) : ~Withdraws(e, events, k)
      BY <1>1, <2>2, IdentifiedFields, EventFields DEF Withdraws
    <2>4. D = {g.intent}
      BY <1>1, <2>1, OnlyDangling DEF Good
    <2>5. Good(m) /\ danglingMutatingIntents(m) = {} /\ AcceptedTree(m) = AcceptedTree(events)
      BY <1>1, <2>1, <2>2, <2>3, <2>4, RejectionGrows
    <2>6. r.todo = {}
      BY <2>1 DEF g
    <2>7. KeepsLedger(events, m)
      BY <1>1, <2>3, LedgerKept DEF activeAppliedEvents
    <2>8. Core(r, m, worktree, u)
      BY <1>2, <1>3, <2>5, <2>6, RestAfter DEF m
    <2>9. QED
      BY <2>7, <2>8 DEF LedgerMoves, m
  <1>5. CASE g.terminal # 0
    <2>1. e.intentSeq = 0 /\ e.invalidates = g.terminal /\ g.intent \notin D
      BY <1>2, <1>5 DEF g
    <2>2. g.terminal \notin Identified(events)
      BY <1>2, <1>5
    <2>3. \A k \in Identified(events) : ~Withdraws(e, events, k)
      BY <2>1, <2>2 DEF Withdraws
    <2>4. /\ Good(m) /\ danglingMutatingIntents(m) = D \ {0} /\ AcceptedTree(m) = AcceptedTree(events)
          /\ Identified(m) = Identified(events)
      BY <1>1, <2>1, <2>3, RejectionGrows
    <2>5. 0 \notin D
      BY <1>1, EventFields DEF danglingMutatingIntents, Intents
    <2>6. danglingMutatingIntents(m) = D
      BY <2>4, <2>5
    <2>7. \A h \in r.todo : IF h.terminal = 0 THEN h.intent \in danglingMutatingIntents(m)
                            ELSE h.terminal \notin Identified(m)
      BY <2>4, <2>6
    <2>8. Core(r, m, worktree, u)
      BY <1>2, <1>3, <2>1, <2>4, <2>6, <2>7, RestAfter DEF m
    <2>9. g.terminal \notin activeAppliedEvents(events)
      <3>1. g \in Step /\ g.terminal \in Terminals(events, g.intent) /\ g.intent \in Intents(events)
        BY <1>5, CurrentFields DEF g, StepIn
      <3>2. g.terminal \in DOMAIN events /\ events[g.terminal].intentSeq # 0
        BY <1>1, <3>1, EventFields DEF Terminals, Intents
      <3>3. events[g.terminal].type = "ACTION_APPLIED" => events[g.terminal].tree # Blob
        BY <1>1, <3>2 DEF LogShape
      <3>4. QED
        BY <2>2, <3>3 DEF Identified, activeAppliedEvents
    <2>10. \A k \in activeAppliedEvents(events) : ~Withdraws(e, events, k)
      BY <2>1, <2>9 DEF Withdraws
    <2>11. KeepsLedger(events, m)
      BY <1>1, <2>10, LedgerKept
    <2>12. QED
      BY <2>8, <2>11 DEF LedgerMoves, m
  <1>6. QED
    BY <1>4, <1>5

\* The rejections of a failed recovery: from the first one on the worktree is what
\* the log accepts.
LEMMA InvalidateSuffixSound ==
    ASSUME TypeInv, SoundInv, NEW p \in Procs, p = owner, OnTrack', InvalidateSuffix(p)
    PROVE  SoundInv' /\ LedgerMoves(events, events')
  <1> DEFINE a == events[Current(p).intent].actionId
             s == proc[p].todo \ {Current(p)}
             r == [proc[p] EXCEPT !.todo = s]
             e1 == appended("ACTION_REJECTED", a, 0, Blob, FALSE, Current(p).terminal)
             e2 == appended("ACTION_REJECTED", a, Current(p).intent, Blob, FALSE, 0)
  <1>1. /\ proc[p].at = "invalidate" /\ Quietly /\ proc[p] \in ProcRec /\ worktree' = worktree
        /\ proc \in [Procs -> ProcRec] /\ proc[p].suffix # {} /\ LogShape(events)
    BY Here DEF InvalidateSuffix, At, TypeInv, ProcOK
  <1>2. Beyond => Beyond'
    BY <1>1, OwnerTrust DEF InvalidateSuffix
  <1>3. \E y : proc' = [proc EXCEPT ![p] = y]
    <2>1. CASE proc' = [proc EXCEPT ![p].todo = @ \ {Current(p)}]
      <3>1. proc' = [proc EXCEPT ![p] = r]
        BY <2>1, <1>1
      <3>2. QED
        BY <3>1
    <2>2. QED
      BY <2>1 DEF InvalidateSuffix, Return
  <1>4. OnTrack /\ Core(proc[p], events, worktree, trust)
    BY <1>1, <1>2, <1>3, OwnerStep
  <1>5. /\ Good(events) /\ (HalfOf(proc[p]) \/ DanglingFits(events))
        /\ InvalidateState(proc[p], events, worktree, trust) /\ ~Beyond
    BY <1>1, <1>4 DEF Core, OwnerState, OnTrack
  <1>6. CASE proc[p].todo = {}
    <2>1. events' = events /\ Return(p)
      BY <1>6 DEF InvalidateSuffix, KeepLog
    <2>2. worktree = AcceptedTree(events) /\ DanglingFits(events)
      BY <1>1, <1>5, <1>6 DEF InvalidateState, HalfOf
    <2>3. Clean(events, worktree, trust')
      BY <2>2 DEF Clean
    <2>4. Core(Idle, events, worktree, trust')
      BY <1>5, <2>2, <2>3, IdleCore
    <2>5. QED
      BY <1>1, <1>2, <2>1, <2>4, OwnerStep, LedgerStays DEF Return
  <1>7. CASE proc[p].todo # {}
    <2>1. /\ proc' = [proc EXCEPT ![p].todo = @ \ {Current(p)}] /\ trust' = trust
          /\ IF Accepted(p) THEN Log(e1) ELSE IF Rejected(p) THEN KeepLog ELSE Log(e2)
      BY <1>1, <1>7, OwnerTrust DEF InvalidateSuffix
    <2>2. proc' = [proc EXCEPT ![p] = r]
      BY <1>1, <2>1
    <2>3. r.at = "invalidate" /\ r.todo = s /\ r.suffix = proc[p].suffix
      <3> HIDE DEF s
      <3>1. QED
        BY <1>1 DEF ProcRec
    <2> HIDE DEF r
    <2>4. /\ Current(p).intent \in Intents(events) /\ Current(p).intent \in Nat /\ a \in Ids
          /\ Current(p).terminal \in Nat
      BY <1>1, <1>7, CurrentFields, IntentFields DEF Step
    <2>5. EventFits(events, e1) /\ EventFits(events, e2)
      BY <1>1, <2>4, RejectionFits
    <2>6. /\ e1.type = "ACTION_REJECTED" /\ e1.actionId = a /\ e1.intentSeq = 0
          /\ e1.invalidates = Current(p).terminal
          /\ e2.type = "ACTION_REJECTED" /\ e2.actionId = a /\ e2.intentSeq = Current(p).intent
          /\ e2.invalidates = 0
      BY DEF appended
    <2> HIDE DEF e1, e2
    <2>7. Accepted(p) => ~Rejected(p)
      BY DEF Accepted, Rejected
    <2>8. CASE Rejected(p)
      <3>1. events' = events /\ Current(p).terminal # 0
        BY <2>1, <2>7, <2>8 DEF KeepLog, Rejected
      <3>2. proc[p].todo # proc[p].suffix
        <4>1. ASSUME proc[p].todo = proc[p].suffix PROVE FALSE
          <5>1. Planned(proc[p], events, trust) /\ DanglingFits(events)
            BY <4>1, <1>5 DEF InvalidateState, HalfOf
          <5>2. /\ Current(p) = Earliest(proc[p].suffix)
                /\ Alone(proc[p].suffix, events) \/ Led(proc[p].suffix, events)
            BY <4>1, <5>1, <1>5, <1>7, PlannedMeets
          <5>3. Current(p).terminal \in Identified(events)
            BY <5>2, <3>1 DEF Led, Alone
          <5>4. QED
            BY <5>3, <1>1, <2>8, IdentifiedFields DEF Rejected
        <4>2. QED
          BY <4>1
      <3>3. /\ worktree = BaseTree(proc[p], events) /\ worktree = AcceptedTree(events)
            /\ danglingMutatingIntents(events) \subseteq Rest(proc[p].todo)
            /\ \A g \in proc[p].todo :
                  IF g.terminal = 0 THEN g.intent \in danglingMutatingIntents(events)
                  ELSE g.terminal \notin Identified(events)
        BY <1>5, <3>2 DEF InvalidateState
      <3>4. s # proc[p].suffix /\ danglingMutatingIntents(events) \subseteq Rest(s)
        BY <1>5, <1>7, <3>1, <3>3, CurrentMeets
      <3>5. BaseTree(r, events) = worktree
        BY <2>3, <3>3 DEF BaseTree
      <3>6. Core(r, events, worktree, trust)
        BY <1>5, <2>3, <3>3, <3>4, <3>5, RestAfter
      <3>7. QED
        BY <1>1, <1>2, <2>1, <2>2, <3>1, <3>6, OwnerStep, LedgerStays
    <2>9. CASE ~Rejected(p)
      <3>1. PICK e : /\ EventFits(events, e) /\ Log(e) /\ e.type = "ACTION_REJECTED" /\ e.actionId = a
                     /\ IF Accepted(p) THEN e.intentSeq = 0 /\ e.invalidates = Current(p).terminal
                        ELSE e.intentSeq = Current(p).intent /\ e.invalidates = 0
        BY <2>1, <2>5, <2>6, <2>9
      <3>2. Core(r, events', worktree, trust) /\ LedgerMoves(events, events')
        <4>1. CASE proc[p].todo = proc[p].suffix
          <5>1. Planned(proc[p], events, trust) /\ DanglingFits(events) /\ worktree = BaseTree(proc[p], events)
            BY <4>1, <1>5 DEF InvalidateState, HalfOf
          <5>2. QED
            BY <1>5, <1>7, <2>3, <2>9, <3>1, <4>1, <5>1, FirstRejection
        <4>2. CASE proc[p].todo # proc[p].suffix
          <5>1. /\ worktree = BaseTree(proc[p], events) /\ worktree = AcceptedTree(events)
                /\ danglingMutatingIntents(events) \subseteq Rest(proc[p].todo)
                /\ \A g \in proc[p].todo :
                      IF g.terminal = 0 THEN g.intent \in danglingMutatingIntents(events)
                      ELSE g.terminal \notin Identified(events)
            BY <1>5, <4>2 DEF InvalidateState
          <5>2. QED
            BY <1>5, <1>7, <2>3, <2>9, <3>1, <4>2, <5>1, LaterRejection
        <4>3. QED
          BY <4>1, <4>2
      <3>3. QED
        BY <1>1, <1>2, <2>1, <2>2, <3>2, OwnerStep
    <2>10. QED
      BY <2>8, <2>9
  <1>8. QED
    BY <1>6, <1>7

\* A duplicate is skipped, a read recorded, a mutating action let through clean.
LEMMA AfterAdmissionSound ==
    ASSUME TypeInv, SoundInv, NEW p \in Procs, p = owner, OnTrack', AfterAdmission(p)
    PROVE  SoundInv' /\ LedgerMoves(events, events')
  <1> DEFINE a == proc[p].id
             duplicate == alreadyApplied(events, a)
             e == appended("ACTION_APPLIED", a, 0, Blob, duplicate, 0)
             n == Len(events)
             m == events'
  <1>1. /\ proc[p].at = "gate" /\ Quietly /\ worktree' = worktree /\ trust' = trust
        /\ LogShape(events) /\ a \in Ids /\ duplicate \in BOOLEAN
    BY Here, FieldsOf DEF AfterAdmission, At, KeepTree, alreadyApplied
  <1>2. "snapshot" \in Phases
    BY DEF Phases
  <1>3. Core(proc[p], events, worktree, trust)
    BY <1>1, <1>2, OwnerTrust, OwnerStep DEF AfterAdmission, Goto, Return
  <1>4. /\ Good(events) /\ DanglingFits(events) /\ Clean(events, worktree, trust)
        /\ Mutating(a) => Ready(events, worktree)
    BY <1>1, <1>3 DEF Core, OwnerState, HalfOf
  <1>5. CASE Log(e) /\ Return(p) /\ (duplicate \/ Shape[a].type = "READ_FILE")
    <2>1. /\ e.type = "ACTION_APPLIED" /\ e.tree = Blob /\ e.intentSeq = 0 /\ e.duplicate = duplicate
          /\ e.actionId = a
      BY DEF appended
    <2>2. EventFits(events, e)
      <3>1. e \in Event
        BY <1>1, AppendedIn
      <3> HIDE DEF e
      <3>2. QED
        BY <2>1, <3>1 DEF EventFits
    <2> HIDE DEF e
    <2>3. Grown(events, m, n) /\ m[n + 1] = e
      BY <1>1, <1>5, <2>2, Appending DEF Log
    <2>4. /\ Good(m) /\ danglingMutatingIntents(m) = danglingMutatingIntents(events)
          /\ AcceptedTree(m) = AcceptedTree(events)
          /\ AppliedIds(m) \subseteq AppliedIds(events) \cup (IF duplicate THEN {} ELSE {a})
      BY <1>4, <2>1, <2>3, BlobGrows
    <2>5. DanglingFits(m)
      <3>1. ASSUME NEW d \in danglingMutatingIntents(events)
            PROVE  m[d].tree = AcceptedTree(m) /\ m[d].actionId \notin AppliedIds(m)
        <4>1. d \in Intents(events)
          BY DEF danglingMutatingIntents
        <4>2. m[d] = events[d] /\ Mutating(events[d].actionId)
          BY <1>1, <2>3, <4>1, IntentFields, GrownBasics
        <4>3. ~duplicate => events[d].actionId # a
          BY <1>5, <4>2 DEF Mutating
        <4>4. QED
          BY <1>4, <2>4, <4>2, <4>3 DEF DanglingFits
      <3>2. QED
        BY <2>4, <3>1 DEF DanglingFits
    <2>6. Clean(m, worktree, trust)
      BY <1>4, <2>4 DEF Clean
    <2>7. Core(Idle, m, worktree, trust)
      BY <2>4, <2>5, <2>6, IdleCore
    <2>8. LedgerMoves(events, m)
      <3>1. CASE duplicate
        <4>1. \A i \in activeAppliedEvents(events) : ~Withdraws(e, events, i)
          BY <2>1 DEF Withdraws
        <4>2. QED
          BY <2>1, <2>3, <3>1, <4>1, LedgerKept DEF LedgerMoves
      <3>2. CASE ~duplicate
        <4>1. a \notin AppliedIds(events)
          BY <3>2 DEF alreadyApplied, AppliedIds
        <4>2. QED
          BY <2>1, <2>3, <3>2, <4>1, LedgerReads DEF LedgerMoves
      <3>3. QED
        BY <3>1, <3>2
    <2>9. QED
      BY <1>1, <1>5, <2>7, <2>8, OwnerTrust, OwnerStep DEF Return
  <1>6. CASE Goto(p, "snapshot") /\ KeepLog /\ ~duplicate /\ Mutating(a)
    <2>1. PICK r : Moved(r, p, "snapshot") /\ (Core(r, events', worktree', trust') => SoundInv')
      BY <1>1, <1>2, <1>6, OwnerTrust, OwnerGoto
    <2>2. a \notin AppliedIds(events)
      BY <1>6 DEF alreadyApplied, AppliedIds
    <2>3. Core(r, events, worktree, trust)
      BY <1>4, <1>6, <2>1, <2>2 DEF Moved, Core, OwnerState
    <2>4. QED
      BY <1>1, <1>6, <2>1, <2>3, LedgerStays DEF KeepLog
  <1>7. CASE Return(p) /\ KeepLog
    BY <1>1, <1>7, OwnerReturns, LedgerStays DEF KeepLog, KeepTree, HalfInvalidated, At
  <1>8. \/ Log(e) /\ Return(p) /\ (duplicate \/ Shape[a].type = "READ_FILE")
        \/ Goto(p, "snapshot") /\ KeepLog /\ ~duplicate /\ Mutating(a)
        \/ Return(p) /\ KeepLog
    BY DEF AfterAdmission
  <1>9. QED
    BY <1>5, <1>6, <1>7, <1>8

\* The snapshot of the action is the accepted tree.
LEMMA createActionSnapshotSound ==
    ASSUME TypeInv, SoundInv, NEW p \in Procs, p = owner, OnTrack', createActionSnapshot(p)
    PROVE  SoundInv'
  <1> DEFINE r == [proc[p] EXCEPT !.at = "intent", !.tree = worktree]
  <1>1. /\ proc[p].at = "snapshot" /\ Quietly /\ worktree' = worktree /\ trust' = trust /\ KeepTree
        /\ events' = events /\ KeepLog /\ proc[p] \in ProcRec /\ proc \in [Procs -> ProcRec]
    BY Here DEF createActionSnapshot, At, KeepTree, KeepLog, TypeInv
  <1>2. CASE Return(p)
    BY <1>1, <1>2, OwnerReturns DEF HalfInvalidated, At
  <1>3. CASE proc' = [proc EXCEPT ![p].at = "intent", ![p].tree = worktree]
    <2>1. proc' = [proc EXCEPT ![p] = r]
      BY <1>1, <1>3
    <2>2. r.at = "intent" /\ r.tree = worktree /\ r.id = proc[p].id
      BY <1>1 DEF ProcRec
    <2> HIDE DEF r
    <2>3. Core(proc[p], events, worktree, trust) /\ (Core(r, events', worktree', trust') => SoundInv')
      BY <1>1, <2>1, OwnerTrust, OwnerStep
    <2>4. Core(r, events, worktree, trust)
      BY <1>1, <2>2, <2>3 DEF Core, OwnerState, HalfOf
    <2>5. QED
      BY <1>1, <2>3, <2>4
  <1>4. QED
    BY <1>2, <1>3 DEF createActionSnapshot

\* ACTION_INTENT: what dangles from here on is the action under way.
LEMMA AppendIntentSound ==
    ASSUME TypeInv, SoundInv, NEW p \in Procs, p = owner, OnTrack', AppendIntent(p)
    PROVE  SoundInv' /\ LedgerMoves(events, events')
  <1> DEFINE e == appended("ACTION_INTENT", proc[p].id, 0, proc[p].tree, FALSE, 0)
             n == Len(events)
             m == events'
             r == [proc[p] EXCEPT !.at = "apply", !.seq = n + 1]
  <1>1. /\ proc[p].at = "intent" /\ Quietly /\ worktree' = worktree /\ trust' = trust
        /\ proc[p] \in ProcRec /\ proc \in [Procs -> ProcRec] /\ LogShape(events)
        /\ proc[p].id \in Ids /\ proc[p].tree \in Tree /\ Mutating(proc[p].id)
    BY Here, FieldsOf DEF AppendIntent, At, KeepTree, TypeInv, ProcOK
  <1>2. Log(e) /\ proc' = [proc EXCEPT ![p].at = "apply", ![p].seq = n + 1]
    BY DEF AppendIntent
  <1>3. proc' = [proc EXCEPT ![p] = r]
    BY <1>1, <1>2
  <1>4. Core(proc[p], events, worktree, trust)
    BY <1>1, <1>3, OwnerTrust, OwnerStep
  <1>5. /\ Good(events) /\ Ready(events, worktree) /\ proc[p].tree = worktree
        /\ proc[p].id \notin AppliedIds(events)
    BY <1>1, <1>4 DEF Core, OwnerState
  <1>6. /\ e.type = "ACTION_INTENT" /\ e.actionId = proc[p].id /\ e.tree = proc[p].tree /\ e.intentSeq = 0
    BY DEF appended
  <1>7. EventFits(events, e)
    <2>1. e \in Event
      BY <1>1, AppendedIn
    <2> HIDE DEF e
    <2>2. QED
      BY <1>1, <1>6, <2>1 DEF EventFits
  <1> HIDE DEF e
  <1>8. Grown(events, m, n) /\ m[n + 1] = e /\ n \in Nat
    BY <1>1, <1>2, <1>7, Appending DEF Log
  <1>9. /\ r.at = "apply" /\ r.seq = n + 1 /\ r.tree = proc[p].tree /\ r.id = proc[p].id
    BY <1>1 DEF ProcRec
  <1> HIDE DEF r
  <1>10. /\ Good(m) /\ AppliedIds(m) \subseteq AppliedIds(events)
         /\ danglingMutatingIntents(m) = {n + 1} /\ AcceptedTree(m) = AcceptedTree(events)
    BY <1>5, <1>6, <1>8, IntentGrows DEF Ready
  <1>11. m[n + 1].tree = AcceptedTree(m) /\ m[n + 1].actionId \notin AppliedIds(m)
    BY <1>5, <1>6, <1>8, <1>10 DEF Ready
  <1>12. DanglingFits(m)
    BY <1>10, <1>11 DEF DanglingFits
  <1>13. Underway(r, m) /\ worktree = r.tree
    BY <1>5, <1>6, <1>8, <1>9, <1>10 DEF Underway, Ready
  <1>14. Core(r, m, worktree, trust)
    BY <1>9, <1>10, <1>12, <1>13 DEF Core, OwnerState
  <1>15. LedgerMoves(events, m)
    BY <1>6, <1>8, LedgerKept DEF Withdraws, LedgerMoves
  <1>16. QED
    BY <1>1, <1>3, <1>14, <1>15, OwnerTrust, OwnerStep

\* The action is applied once to its snapshot, or fails before it wrote.
LEMMA ApplySound ==
    ASSUME TypeInv, SoundInv, NEW p \in Procs, p = owner, OnTrack', Apply(p)
    PROVE  SoundInv'
  <1>1. /\ proc[p].at = "apply" /\ Quietly /\ events' = events
        /\ "capture" \in Phases /\ "rollback" \in Phases
    BY DEF Apply, At, KeepLog, Phases
  <1>2. trust' = trust
    BY <1>1, OwnerTrust DEF Apply, KeepTree
  <1>3. PICK x \in {"capture", "rollback"} :
           /\ Goto(p, x)
           /\ x = "capture" => worktree' \in performApply(proc[p].id, worktree)
    BY OwnerTrust DEF Apply
  <1>4. PICK r : Moved(r, p, x) /\ (Core(r, events', worktree', trust') => SoundInv')
    BY <1>1, <1>2, <1>3, OwnerTrust, OwnerGoto
  <1>5. Core(proc[p], events, worktree, trust)
    BY <1>1, <1>2, <1>3, OwnerTrust, OwnerGoto
  <1>6. /\ Good(events) /\ DanglingFits(events) /\ Underway(proc[p], events) /\ worktree = proc[p].tree
    BY <1>1, <1>5 DEF Core, OwnerState, HalfOf
  <1>7. Underway(r, events)
    BY <1>4, <1>6 DEF Moved, Underway
  <1>8. Core(r, events, worktree', trust)
    BY <1>3, <1>4, <1>6, <1>7 DEF Moved, Core, OwnerState
  <1>9. QED
    BY <1>1, <1>2, <1>4, <1>8

\* The identity that is recorded is that of the worktree.
LEMMA captureSound ==
    ASSUME TypeInv, SoundInv, NEW p \in Procs, p = owner, OnTrack', captureArtifactState(p)
    PROVE  SoundInv'
  <1> DEFINE r == [proc[p] EXCEPT !.at = "record", !.hash = worktree]
  <1>1. /\ proc[p].at = "capture" /\ Quietly /\ worktree' = worktree /\ trust' = trust
        /\ events' = events /\ proc[p] \in ProcRec /\ proc \in [Procs -> ProcRec]
        /\ "rollback" \in Phases
    BY Here DEF captureArtifactState, At, KeepTree, KeepLog, TypeInv, Phases
  <1>2. CASE Goto(p, "rollback")
    <2>1. PICK y : Moved(y, p, "rollback") /\ (Core(y, events', worktree', trust') => SoundInv')
      BY <1>1, <1>2, OwnerTrust, OwnerGoto
    <2>2. Core(proc[p], events, worktree, trust)
      BY <1>1, <1>2, OwnerTrust, OwnerGoto
    <2>3. Good(events) /\ DanglingFits(events) /\ Underway(proc[p], events)
      BY <1>1, <2>2 DEF Core, OwnerState, HalfOf
    <2>4. Underway(y, events)
      BY <2>1, <2>3 DEF Moved, Underway
    <2>5. Core(y, events, worktree, trust)
      BY <2>1, <2>3, <2>4 DEF Moved, Core, OwnerState
    <2>6. QED
      BY <1>1, <2>1, <2>5
  <1>3. CASE proc' = [proc EXCEPT ![p].at = "record", ![p].hash = worktree]
    <2>1. proc' = [proc EXCEPT ![p] = r]
      BY <1>1, <1>3
    <2>2. /\ r.at = "record" /\ r.hash = worktree /\ r.id = proc[p].id /\ r.seq = proc[p].seq
          /\ r.tree = proc[p].tree
      BY <1>1 DEF ProcRec
    <2> HIDE DEF r
    <2>3. Core(proc[p], events, worktree, trust) /\ (Core(r, events', worktree', trust') => SoundInv')
      BY <1>1, <2>1, OwnerTrust, OwnerStep
    <2>4. /\ Good(events) /\ DanglingFits(events) /\ Underway(proc[p], events)
          /\ worktree \in performApply(proc[p].id, proc[p].tree)
      BY <1>1, <2>3 DEF Core, OwnerState, HalfOf
    <2>5. Underway(r, events)
      BY <2>2, <2>4 DEF Underway
    <2>6. Core(r, events, worktree, trust)
      BY <2>2, <2>4, <2>5 DEF Core, OwnerState
    <2>7. QED
      BY <1>1, <2>3, <2>6
  <1>4. QED
    BY <1>2, <1>3 DEF captureArtifactState

\* ACTION_APPLIED of the action under way accepts what is in the worktree.
LEMMA AppendAppliedSound ==
    ASSUME TypeInv, SoundInv, NEW p \in Procs, p = owner, OnTrack', AppendApplied(p)
    PROVE  SoundInv' /\ LedgerMoves(events, events')
  <1> DEFINE e == appended("ACTION_APPLIED", proc[p].id, proc[p].seq, proc[p].hash, FALSE, 0)
  <1>1. /\ proc[p].at = "record" /\ Quietly /\ worktree' = worktree /\ trust' = trust
        /\ LogShape(events) /\ proc[p].seq \in Intents(events) /\ proc[p].id \in Ids
        /\ proc[p].hash \in Tree
    BY Here, FieldsOf DEF AppendApplied, At, KeepTree, ProcOK
  <1>2. Log(e) /\ Return(p)
    BY DEF AppendApplied
  <1>3. Core(proc[p], events, worktree, trust) /\ (Core(Idle, events', worktree', trust') => SoundInv')
    BY <1>1, <1>2, OwnerTrust, OwnerStep DEF Return
  <1>4. /\ Good(events) /\ DanglingFits(events) /\ Underway(proc[p], events)
        /\ worktree \in performApply(proc[p].id, proc[p].tree) /\ proc[p].hash = worktree
    BY <1>1, <1>3 DEF Core, OwnerState, HalfOf
  <1>5. EventFits(events, e)
    BY <1>1, <1>4, AcceptanceFits DEF Underway
  <1>6. /\ e.type = "ACTION_APPLIED" /\ e.actionId = proc[p].id /\ e.intentSeq = proc[p].seq
        /\ e.tree = worktree /\ e.duplicate = FALSE /\ e.invalidates = 0
    BY <1>4 DEF appended
  <1> HIDE DEF e
  <1>7. /\ proc[p].seq \in danglingMutatingIntents(events)
        /\ events[proc[p].seq].actionId = proc[p].id
        /\ worktree \in performApply(events[proc[p].seq].actionId, AcceptedTree(events))
    BY <1>4 DEF Underway
  <1>8. /\ Good(events') /\ DanglingFits(events') /\ Ready(events', worktree)
        /\ LedgerMoves(events, events')
    BY <1>2, <1>4, <1>5, <1>6, <1>7, Concluded
  <1>9. Core(Idle, events', worktree, trust)
    BY <1>8, IdleCore DEF Ready, Clean
  <1>10. QED
    BY <1>1, <1>3, <1>8, <1>9

\* ACTION_REJECTED of the action under way, its effect undone.
LEMMA RejectUndoneSound ==
    ASSUME TypeInv, SoundInv, NEW p \in Procs, p = owner, OnTrack', RejectUndone(p)
    PROVE  SoundInv' /\ LedgerMoves(events, events')
  <1> DEFINE e == appended("ACTION_REJECTED", proc[p].id, proc[p].seq, Blob, FALSE, 0)
  <1>1. /\ proc[p].at = "undone" /\ Quietly /\ worktree' = worktree /\ trust' = trust
        /\ LogShape(events) /\ proc[p].seq \in Intents(events) /\ proc[p].id \in Ids
    BY Here, FieldsOf, OwnerTrust DEF RejectUndone, At, ProcOK
  <1>2. Log(e) /\ Return(p)
    BY DEF RejectUndone
  <1>3. Core(proc[p], events, worktree, trust) /\ (Core(Idle, events', worktree', trust') => SoundInv')
    BY <1>1, <1>2, OwnerTrust, OwnerStep DEF Return
  <1>4. /\ Good(events) /\ DanglingFits(events) /\ Underway(proc[p], events) /\ worktree = proc[p].tree
    BY <1>1, <1>3 DEF Core, OwnerState, HalfOf
  <1>5. proc[p].seq \in Nat /\ events[proc[p].seq].actionId = proc[p].id
    BY <1>1, <1>4, IntentFields DEF Underway
  <1>6. EventFits(events, e)
    BY <1>1, <1>5, RejectionFits
  <1>7. /\ e.type = "ACTION_REJECTED" /\ e.actionId = proc[p].id /\ e.intentSeq = proc[p].seq
        /\ e.duplicate = FALSE /\ e.invalidates = 0
    BY DEF appended
  <1> HIDE DEF e
  <1>8. /\ proc[p].seq \in danglingMutatingIntents(events) /\ worktree = AcceptedTree(events)
    BY <1>4 DEF Underway
  <1>9. /\ Good(events') /\ DanglingFits(events') /\ Ready(events', worktree)
        /\ LedgerMoves(events, events')
    BY <1>2, <1>4, <1>5, <1>6, <1>7, <1>8, Concluded
  <1>10. Core(Idle, events', worktree, trust)
    BY <1>9, IdleCore DEF Ready, Clean
  <1>11. QED
    BY <1>1, <1>3, <1>9, <1>10

\* A failed action is undone to its own snapshot, or its intent stays dangling.
LEMMA RollbackSound ==
    ASSUME TypeInv, SoundInv, NEW p \in Procs, p = owner, OnTrack', Rollback(p)
    PROVE  SoundInv'
  <1>1. /\ proc[p].at = "rollback" /\ Quietly /\ KeepLog /\ events' = events /\ "undone" \in Phases
    BY DEF Rollback, At, KeepLog, Phases
  <1>2. CASE Return(p) /\ KeepTree
    BY <1>1, <1>2, OwnerReturns DEF HalfInvalidated, At
  <1>3. CASE Overwrite(p, proc[p].tree) /\ Goto(p, "undone")
    <2>1. worktree' = proc[p].tree /\ trust' = trust
      BY <1>3, OwnerTrust
    <2>2. PICK r : Moved(r, p, "undone") /\ (Core(r, events', worktree', trust') => SoundInv')
      BY <1>1, <1>3, <2>1, OwnerTrust, OwnerGoto
    <2>3. Core(proc[p], events, worktree, trust)
      BY <1>1, <1>3, <2>1, OwnerTrust, OwnerGoto
    <2>4. Good(events) /\ DanglingFits(events) /\ Underway(proc[p], events)
      BY <1>1, <2>3 DEF Core, OwnerState, HalfOf
    <2>5. Underway(r, events)
      BY <2>2, <2>4 DEF Moved, Underway
    <2>6. Core(r, events, worktree', trust)
      BY <2>1, <2>2, <2>4, <2>5 DEF Moved, Core, OwnerState
    <2>7. QED
      BY <1>1, <2>1, <2>2, <2>6
  <1>4. QED
    BY <1>2, <1>3 DEF Rollback

\* A crash anywhere but between two rejections leaves what the next admission needs.
LEMMA CrashInjectedSound ==
    ASSUME TypeInv, SoundInv, NEW p \in Procs, p = owner, OnTrack', CrashInjected(p)
    PROVE  SoundInv'
  <1>1. trust' \notin {"lost", "halved"}
    BY DEF OnTrack, Beyond
  <1>2. ~HalfInvalidated(p) /\ KeepTree
    BY <1>1 DEF CrashInjected, KeepTree
  <1>3. QED
    BY <1>2, OwnerReturns DEF CrashInjected

\* A takeover: what the old owner left is what the new one finds.
LEMMA TakeLeaseSound ==
    ASSUME TypeInv, SoundInv, NEW p \in Procs, OnTrack', TakeLease(p)
    PROVE  SoundInv'
  <1>1. /\ proc[p].at = "idle" /\ owner' = p /\ owner # p /\ events' = events /\ proc' = proc
        /\ worktree' = worktree /\ trust' = trust
    BY DEF TakeLease, At, KeepLog, KeepTree
  <1>2. ~Beyond /\ \A q \in Procs \ {p} : ~HalfInvalidated(q)
    <2>1. ~Beyond
      BY <1>1 DEF OnTrack, Beyond
    <2>2. ASSUME NEW q \in Procs \ {p} PROVE ~HalfInvalidated(q)
      <3>1. ~HalfInvalidated(q)'
        BY <1>1 DEF OnTrack
      <3>2. QED
        BY <3>1, <1>1 DEF HalfInvalidated, At
    <2>3. QED
      BY <2>1, <2>2
  <1>3. OnTrack /\ ~HalfInvalidated(owner)
    BY <1>1, <1>2, Here DEF OnTrack, HalfInvalidated, At
  <1>4. Core(proc[owner], events, worktree, trust) /\ ~HalfOf(proc[owner])
    BY <1>3 DEF SoundInv, HalfInvalidated, HalfOf, At
  <1>5. Good(events) /\ DanglingFits(events) /\ proc[owner].at \in Phases
    BY <1>4, Here, FieldsOf DEF Core, TypeInv
  <1>6. Clean(events, worktree, trust)
    BY <1>4, <1>5, CoreClean
  <1>7. Core(proc[p], events, worktree, trust)
    BY <1>1, <1>5, <1>6 DEF Core, OwnerState
  <1>8. QED
    BY <1>1, <1>7 DEF SoundInv

------------------------------------------------------------------------------
(* The theorems *)

\* The invariant holds at the start.
LEMMA SoundInvInit == ASSUME ExecutorInit PROVE SoundInv
  <1> DEFINE l == events
  <1>1. l = <<>> /\ DOMAIN l = {}
    BY DEF ExecutorInit
  <1>2. Intents(l) = {} /\ danglingMutatingIntents(l) = {} /\ Identified(l) = {}
    BY <1>1 DEF Intents, danglingMutatingIntents, activeAppliedEvents, Identified
  <1>3. proc[owner] = Idle /\ worktree = EmptyTree
    BY DEF ExecutorInit
  <1> HIDE DEF l
  <1>4. Good(l) /\ DanglingFits(l) /\ AcceptedTree(l) = EmptyTree
    BY <1>2 DEF Good, OneTerminal, OneDangling, Chain, DanglingFits, AcceptedTree
  <1>5. Core(Idle, l, worktree, trust)
    BY <1>3, <1>4, IdleCore DEF Clean
  <1>6. QED
    BY <1>3, <1>5 DEF SoundInv, l

\* SoundInv is inductive on top of the types: every step of any process keeps it,
\* whatever phase the owner and the fenced-out processes are in.
THEOREM SoundInvNext == ASSUME TypeInv, SoundInv, [ExecutorNext]_executorVars PROVE SoundInv'
  <1>1. SUFFICES ASSUME OnTrack' PROVE SoundInv'
    BY DEF SoundInv
  <1>2. ASSUME NEW p \in Procs, NEW a \in Ids, executeOnce(p, a) PROVE SoundInv'
    BY <1>1, <1>2, executeOnceSound DEF executeOnce
  <1>3. ASSUME NEW p \in Procs,
               \/ PlanRecovery(p) \/ restoreArtifactSnapshot(p) \/ SkipRejected(p)
               \/ ReplayGeneration(p) \/ RecheckGeneration(p) \/ FinalIdentity(p)
               \/ ConcludeRecovery(p) \/ FailClosed(p) \/ InvalidateSuffix(p)
        PROVE  SoundInv'
    <2>1. CASE p = owner
      BY <1>1, <1>3, <2>1, PlanRecoverySound, restoreSound, SkipRejectedSound, ReplayGenerationSound,
         RecheckGenerationSound, FinalIdentitySound, ConcludeRecoverySound, FailClosedSound,
         InvalidateSuffixSound
    <2>2. CASE p # owner
      BY <1>1, <1>3, <2>2, StrangerSimple, StrangerReplay, StrangerLog, HarmlessSound
    <2>3. QED
      BY <2>1, <2>2
  <1>4. ASSUME NEW p \in Procs,
               \/ AfterAdmission(p) \/ createActionSnapshot(p) \/ AppendIntent(p) \/ Apply(p)
               \/ captureArtifactState(p) \/ AppendApplied(p) \/ Rollback(p) \/ RejectUndone(p)
               \/ CrashInjected(p)
        PROVE  SoundInv'
    <2>1. CASE p = owner
      BY <1>1, <1>4, <2>1, AfterAdmissionSound, createActionSnapshotSound, AppendIntentSound,
         ApplySound, captureSound, AppendAppliedSound, RollbackSound, RejectUndoneSound,
         CrashInjectedSound
    <2>2. CASE p # owner
      BY <1>1, <1>4, <2>2, StrangerSimple, StrangerLog, HarmlessSound
    <2>3. QED
      BY <2>1, <2>2
  <1>5. ASSUME NEW p \in Procs, TakeLease(p) PROVE SoundInv'
    BY <1>1, <1>5, TakeLeaseSound
  <1>6. CASE WriteByOthers
    BY <1>1, <1>6, OthersWriteOnly, HarmlessSound
  <1>7. CASE UNCHANGED executorVars
    <2>1. events' = events /\ proc' = proc /\ owner' = owner /\ worktree' = worktree /\ trust' = trust
      BY <1>7 DEF executorVars
    <2>2. OnTrack /\ Harmless
      BY <1>1, <2>1 DEF OnTrack, Beyond, HalfInvalidated, At, Harmless
    <2>3. QED
      BY <2>2, HarmlessSound
  <1>8. QED
    BY <1>2, <1>3, <1>4, <1>5, <1>6, <1>7 DEF ExecutorNext

\* Every state of the executor satisfies the invariant.
THEOREM ExecutorInvariant == ExecutorSpec => [](TypeInv /\ SoundInv)
  <1>1. ExecutorInit => TypeInv /\ SoundInv
    BY TypeInvInit, SoundInvInit
  <1>2. TypeInv /\ SoundInv /\ [ExecutorNext]_executorVars => (TypeInv /\ SoundInv)'
    BY TypeInvNext, SoundInvNext
  <1>3. QED
    BY <1>1, <1>2, PTL DEF ExecutorSpec

\* The variables keep their types, for any processes, actions and bounds.
THEOREM ExecutorTypeCorrect == ExecutorSpec => []ExecutorTypeOK
  <1>1. TypeInv => ExecutorTypeOK
    BY TypeInvGives
  <1>2. QED
    BY <1>1, ExecutorInvariant, PTL

\* A settled worktree is the one last accepted.
LEMMA SettledClean ==
    ASSUME TypeInv, SoundInv, Settled
    PROVE  Chain(events) /\ LogShape(events) /\ worktree = AcceptedTree(events) /\ OneTerminal(events)
  <1>1. /\ trust = "settled" /\ danglingMutatingIntents(events) = {} /\ \A p \in Procs : proc[p].at = "idle"
    BY DEF Settled, AtRest, At
  <1>2. OnTrack
    BY <1>1 DEF OnTrack, Beyond, HalfInvalidated, At
  <1>3. Core(proc[owner], events, worktree, trust) /\ proc[owner].at = "idle" /\ LogShape(events)
    BY <1>1, <1>2, Here DEF SoundInv, TypeInv
  <1>4. QED
    BY <1>1, <1>3 DEF Core, OwnerState, Clean, Good

\* SettledTree (executor.ts, recoverWorktree and execute): at rest the worktree
\* is what the log last accepted, for any number of processes, actions, events
\* and faults.
THEOREM ExecutorSettledTree == ExecutorSpec => []SettledTree
  <1>1. TypeInv /\ SoundInv => SettledTree
    BY SettledClean DEF SettledTree
  <1>2. QED
    BY <1>1, ExecutorInvariant, PTL

\* ExactlyOnce (executor.ts:1-4): at rest no deterministic action is in the
\* worktree twice, for any number of processes, actions, events and faults.
THEOREM ExecutorExactlyOnce == ExecutorSpec => []ExactlyOnce
  <1>1. ASSUME TypeInv, SoundInv, Settled, NEW a \in Ids \ Flaky PROVE worktree[a] <= 1
    BY <1>1, SettledClean, AcceptedHolds
  <1>2. TypeInv /\ SoundInv => ExactlyOnce
    BY <1>1 DEF ExactlyOnce
  <1>3. QED
    BY <1>2, ExecutorInvariant, PTL

------------------------------------------------------------------------------
(* The executor implements ActionLedger: what each action does to the ledger *)

\* The steps that append nothing.
LEMMA SilentSteps ==
    ASSUME NEW p,
           \/ \E a \in Ids : executeOnce(p, a)
           \/ PlanRecovery(p) \/ restoreArtifactSnapshot(p) \/ SkipRejected(p)
           \/ ReplayGeneration(p) \/ RecheckGeneration(p) \/ FinalIdentity(p) \/ FailClosed(p)
           \/ createActionSnapshot(p) \/ Apply(p) \/ captureArtifactState(p) \/ Rollback(p)
           \/ CrashInjected(p) \/ TakeLease(p) \/ WriteByOthers
    PROVE  events' = events
  <1>1. CASE \E a \in Ids : executeOnce(p, a)
    BY <1>1 DEF executeOnce, KeepLog
  <1>2. CASE PlanRecovery(p)
    BY <1>2, PlanCases DEF KeepLog
  <1>3. CASE restoreArtifactSnapshot(p)
    BY <1>3 DEF restoreArtifactSnapshot, KeepLog
  <1>4. CASE SkipRejected(p)
    BY <1>4 DEF SkipRejected, KeepLog
  <1>5. CASE ReplayGeneration(p)
    BY <1>5 DEF ReplayGeneration, KeepLog
  <1>6. CASE RecheckGeneration(p)
    BY <1>6 DEF RecheckGeneration, KeepLog
  <1>7. CASE FinalIdentity(p)
    BY <1>7 DEF FinalIdentity, KeepLog
  <1>8. CASE FailClosed(p)
    BY <1>8 DEF FailClosed, KeepLog
  <1>9. CASE createActionSnapshot(p)
    BY <1>9 DEF createActionSnapshot, KeepLog
  <1>10. CASE Apply(p)
    BY <1>10 DEF Apply, KeepLog
  <1>11. CASE captureArtifactState(p)
    BY <1>11 DEF captureArtifactState, KeepLog
  <1>12. CASE Rollback(p)
    BY <1>12 DEF Rollback, KeepLog
  <1>13. CASE CrashInjected(p)
    BY <1>13 DEF CrashInjected, KeepLog
  <1>14. CASE TakeLease(p)
    BY <1>14 DEF TakeLease, KeepLog
  <1>15. CASE WriteByOthers
    BY <1>15 DEF WriteByOthers, KeepLog
  <1>16. QED
    BY <1>1, <1>2, <1>3, <1>4, <1>5, <1>6, <1>7,
       <1>8, <1>9, <1>10, <1>11, <1>12, <1>13, <1>14, <1>15

\* A step of a process leaves the lease and the other processes alone.
LEMMA OthersStay ==
    ASSUME TypeInv, NEW p \in Procs,
           \/ \E a \in Ids : executeOnce(p, a)
           \/ PlanRecovery(p) \/ restoreArtifactSnapshot(p) \/ SkipRejected(p)
           \/ ReplayGeneration(p) \/ RecheckGeneration(p) \/ FinalIdentity(p)
           \/ ConcludeRecovery(p) \/ FailClosed(p) \/ InvalidateSuffix(p) \/ AfterAdmission(p)
           \/ createActionSnapshot(p) \/ AppendIntent(p) \/ Apply(p) \/ captureArtifactState(p)
           \/ AppendApplied(p) \/ Rollback(p) \/ RejectUndone(p) \/ CrashInjected(p)
    PROVE  owner' = owner /\ \A q \in Procs \ {p} : proc'[q] = proc[q]
  <1>1. proc \in [Procs -> ProcRec]
    BY DEF TypeInv
  <1>2. \A x : proc' = [proc EXCEPT ![p] = x] => \A q \in Procs \ {p} : proc'[q] = proc[q]
    BY <1>1
  <1>3. Return(p) => \A q \in Procs \ {p} : proc'[q] = proc[q]
    BY <1>1 DEF Return
  <1>4. \A x : Goto(p, x) => \A q \in Procs \ {p} : proc'[q] = proc[q]
    BY <1>1 DEF Goto
  <1>5. CASE \E a \in Ids : executeOnce(p, a)
    <2>1. PICK a \in Ids : executeOnce(p, a)
      BY <1>5
    <2> DEFINE x == IF Mutating(a) THEN "admit" ELSE "gate"
               r == [proc[p] EXCEPT !.at = x, !.id = a]
    <2>2. owner' = owner /\ proc' = [proc EXCEPT ![p].at = x, ![p].id = a]
      BY <2>1 DEF executeOnce, Quietly
    <2> HIDE DEF x
    <2>3. proc' = [proc EXCEPT ![p] = r]
      BY <1>1, <2>2
    <2>4. QED
      BY <1>2, <2>2, <2>3
  <1>6. CASE PlanRecovery(p)
    <2>1. Quietly /\ (Plans(p) \/ Return(p) \/ Goto(p, "gate"))
      BY <1>6, PlanCases
    <2>2. QED
      BY <2>1, <1>2, <1>3, <1>4, PlansRec DEF Quietly
  <1>7. CASE SkipRejected(p)
    BY <1>1, <1>3, <1>4, <1>7 DEF SkipRejected, Quietly
  <1>8. CASE RecheckGeneration(p)
    <2> DEFINE r == [proc[p] EXCEPT
                      !.at = "replay", !.todo = @ \ {Current(p)}, !.hash = worktree,
                      !.replayed = TRUE,
                      !.pending = IF Accepted(p) THEN @
                                  ELSE Append(@, [intent |-> Current(p).intent,
                                                  tree |-> worktree])]
    <2>1. owner' = owner /\ (proc' = [proc EXCEPT ![p] = r] \/ Goto(p, "closing"))
      BY <1>1, <1>8 DEF RecheckGeneration, Quietly
    <2> HIDE DEF r
    <2>2. QED
      BY <1>2, <1>4, <2>1
  <1>9. CASE FinalIdentity(p)
    BY <1>1, <1>3, <1>4, <1>9 DEF FinalIdentity, Quietly
  <1>10. CASE restoreArtifactSnapshot(p)
    BY <1>1, <1>3, <1>4, <1>10 DEF restoreArtifactSnapshot, Quietly
  <1>11. CASE FailClosed(p)
    BY <1>1, <1>3, <1>4, <1>11 DEF FailClosed, Quietly
  <1>12. CASE ReplayGeneration(p)
    BY <1>1, <1>3, <1>4, <1>12 DEF ReplayGeneration, Quietly
  <1>13. CASE ConcludeRecovery(p)
    BY <1>1, <1>3, <1>4, <1>13 DEF ConcludeRecovery, Quietly
  <1>14. CASE InvalidateSuffix(p)
    BY <1>1, <1>3, <1>4, <1>14 DEF InvalidateSuffix, Quietly
  <1>15. CASE AfterAdmission(p)
    BY <1>1, <1>3, <1>4, <1>15 DEF AfterAdmission, Quietly
  <1>16. CASE createActionSnapshot(p)
    BY <1>1, <1>3, <1>4, <1>16 DEF createActionSnapshot, Quietly
  <1>17. CASE AppendIntent(p)
    BY <1>1, <1>3, <1>4, <1>17 DEF AppendIntent, Quietly
  <1>18. CASE Apply(p)
    BY <1>1, <1>3, <1>4, <1>18 DEF Apply, Quietly
  <1>19. CASE captureArtifactState(p)
    BY <1>1, <1>3, <1>4, <1>19 DEF captureArtifactState, Quietly
  <1>20. CASE AppendApplied(p)
    BY <1>1, <1>3, <1>4, <1>20 DEF AppendApplied, Quietly
  <1>21. CASE Rollback(p)
    BY <1>1, <1>3, <1>4, <1>21 DEF Rollback, Quietly
  <1>22. CASE RejectUndone(p)
    BY <1>1, <1>3, <1>4, <1>22 DEF RejectUndone, Quietly
  <1>23. CASE CrashInjected(p)
    BY <1>1, <1>3, <1>4, <1>23 DEF CrashInjected, Quietly
  <1>24. QED
    BY <1>5, <1>6, <1>7, <1>8, <1>9, <1>10, <1>11, <1>12, <1>13,
       <1>14, <1>15, <1>16, <1>17, <1>18, <1>19, <1>20, <1>21, <1>22, <1>23

\* No step of the owner gets back on track.
LEMMA OwnerTracks ==
    ASSUME TypeInv, NEW p \in Procs, p = owner, OnTrack',
           \/ \E a \in Ids : executeOnce(p, a)
           \/ PlanRecovery(p) \/ restoreArtifactSnapshot(p) \/ SkipRejected(p)
           \/ ReplayGeneration(p) \/ RecheckGeneration(p) \/ FinalIdentity(p)
           \/ ConcludeRecovery(p) \/ FailClosed(p) \/ InvalidateSuffix(p) \/ AfterAdmission(p)
           \/ createActionSnapshot(p) \/ AppendIntent(p) \/ Apply(p) \/ captureArtifactState(p)
           \/ AppendApplied(p) \/ Rollback(p) \/ RejectUndone(p) \/ CrashInjected(p)
    PROVE  OnTrack
  <1>1. owner' = owner /\ \A q \in Procs \ {p} : proc'[q] = proc[q]
    BY OthersStay
  <1>2. /\ Unfenced(p) => trust' = trust
        /\ \A t : Overwrite(p, t) => trust' = trust
        /\ (Known(p) \/ Doubted(p) \/ Unnoticed(p)) => (Beyond => Beyond')
        /\ KeepTree => trust' = trust
        /\ trust' = trust => (Beyond => Beyond')
        /\ trust' = "lost" => Beyond'
    BY OwnerTrust DEF KeepTree, Beyond
  <1>3. Beyond => Beyond'
    <2>1. CASE \E a \in Ids : executeOnce(p, a)
      BY <1>2, <2>1 DEF executeOnce
    <2>2. CASE PlanRecovery(p)
      BY <1>2, <2>2, PlanCases
    <2>3. CASE CrashInjected(p)
      BY <1>2, <2>3 DEF CrashInjected, Beyond
    <2>4. CASE SkipRejected(p)
      BY <1>2, <2>4 DEF SkipRejected
    <2>5. CASE RecheckGeneration(p)
      BY <1>2, <2>5 DEF RecheckGeneration
    <2>6. CASE FinalIdentity(p)
      BY <1>2, <2>6 DEF FinalIdentity
    <2>7. CASE restoreArtifactSnapshot(p)
      BY <1>2, <2>7 DEF restoreArtifactSnapshot
    <2>8. CASE FailClosed(p)
      BY <1>2, <2>8 DEF FailClosed
    <2>9. CASE ReplayGeneration(p)
      BY <1>2, <2>9 DEF ReplayGeneration
    <2>10. CASE ConcludeRecovery(p)
      BY <1>2, <2>10 DEF ConcludeRecovery
    <2>11. CASE InvalidateSuffix(p)
      BY <1>2, <2>11 DEF InvalidateSuffix
    <2>12. CASE AfterAdmission(p)
      BY <1>2, <2>12 DEF AfterAdmission
    <2>13. CASE createActionSnapshot(p)
      BY <1>2, <2>13 DEF createActionSnapshot
    <2>14. CASE AppendIntent(p)
      BY <1>2, <2>14 DEF AppendIntent
    <2>15. CASE Apply(p)
      BY <1>2, <2>15 DEF Apply
    <2>16. CASE captureArtifactState(p)
      BY <1>2, <2>16 DEF captureArtifactState
    <2>17. CASE AppendApplied(p)
      BY <1>2, <2>17 DEF AppendApplied
    <2>18. CASE Rollback(p)
      BY <1>2, <2>18 DEF Rollback
    <2>19. CASE RejectUndone(p)
      BY <1>2, <2>19 DEF RejectUndone
    <2>20. QED
      BY <2>1, <2>2, <2>3, <2>4, <2>5, <2>6, <2>7, <2>8, <2>9, <2>10,
         <2>11, <2>12, <2>13, <2>14, <2>15, <2>16, <2>17, <2>18, <2>19
  <1>4. ~Beyond /\ \A q \in Procs \ {p} : ~HalfInvalidated(q)'
    BY <1>1, <1>3 DEF OnTrack
  <1>5. QED
    BY <1>1, <1>4 DEF OnTrack, HalfInvalidated, At

\* A process that does not own the lease leaves the log alone while on track.
LEMMA StrangerTracks ==
    ASSUME TypeInv, NEW p \in Procs, p # owner, OnTrack',
           \/ PlanRecovery(p) \/ restoreArtifactSnapshot(p) \/ SkipRejected(p)
           \/ ReplayGeneration(p) \/ RecheckGeneration(p) \/ FinalIdentity(p)
           \/ ConcludeRecovery(p) \/ FailClosed(p) \/ InvalidateSuffix(p) \/ AfterAdmission(p)
           \/ createActionSnapshot(p) \/ AppendIntent(p) \/ Apply(p) \/ captureArtifactState(p)
           \/ AppendApplied(p) \/ Rollback(p) \/ RejectUndone(p) \/ CrashInjected(p)
    PROVE  OnTrack /\ events' = events
  <1>1. OnTrack /\ Harmless
    BY StrangerSimple, StrangerReplay, StrangerLog
  <1>2. QED
    BY <1>1 DEF Harmless

\* A takeover does not hide a recovery that is half through.
LEMMA TakeoverTracks ==
    ASSUME TypeInv, NEW p \in Procs, OnTrack', TakeLease(p)
    PROVE  OnTrack
  <1>1. /\ proc[p].at = "idle" /\ owner' = p /\ proc' = proc /\ trust' = trust
    BY DEF TakeLease, At, KeepTree
  <1>2. ~Beyond /\ \A q \in Procs \ {p} : ~HalfInvalidated(q)'
    BY <1>1 DEF OnTrack, Beyond
  <1>3. \A q \in Procs \ {p} : ~HalfInvalidated(q)
    BY <1>1, <1>2 DEF HalfInvalidated, At
  <1>4. ~HalfInvalidated(p)
    BY <1>1 DEF HalfInvalidated, At
  <1>5. QED
    BY <1>2, <1>3, <1>4 DEF OnTrack

\* A step that ends on track was on track before, and moves the ledger at most
\* by one entry.
LEMMA ExecutorStep ==
    ASSUME TypeInv, SoundInv, OnTrack', [ExecutorNext]_executorVars
    PROVE  OnTrack /\ LedgerMoves(events, events')
  <1>1. events' = events => LedgerMoves(events, events')
    BY LedgerStays
  <1>2. ASSUME NEW p \in Procs, NEW a \in Ids, executeOnce(p, a)
        PROVE  OnTrack /\ LedgerMoves(events, events')
    <2>1. p = owner
      BY <1>2 DEF executeOnce
    <2>2. QED
      BY <1>1, <1>2, <2>1, OwnerTracks, SilentSteps
  <1>3. ASSUME NEW p \in Procs,
               \/ PlanRecovery(p) \/ restoreArtifactSnapshot(p) \/ SkipRejected(p)
               \/ ReplayGeneration(p) \/ RecheckGeneration(p) \/ FinalIdentity(p) \/ FailClosed(p)
               \/ createActionSnapshot(p) \/ Apply(p) \/ captureArtifactState(p) \/ Rollback(p)
               \/ CrashInjected(p)
        PROVE  OnTrack /\ LedgerMoves(events, events')
    <2>1. events' = events
      BY <1>3, SilentSteps
    <2>2. OnTrack
      BY <1>3, OwnerTracks, StrangerTracks
    <2>3. QED
      BY <1>1, <2>1, <2>2
  <1>4. ASSUME NEW p \in Procs,
               \/ ConcludeRecovery(p) \/ InvalidateSuffix(p) \/ AfterAdmission(p)
               \/ AppendIntent(p) \/ AppendApplied(p) \/ RejectUndone(p)
        PROVE  OnTrack /\ LedgerMoves(events, events')
    <2>1. CASE p = owner
      <3>1. OnTrack
        BY <1>4, <2>1, OwnerTracks
      <3>2. LedgerMoves(events, events')
        BY <1>4, <2>1, ConcludeRecoverySound, InvalidateSuffixSound, AfterAdmissionSound,
           AppendIntentSound, AppendAppliedSound, RejectUndoneSound
      <3>3. QED
        BY <3>1, <3>2
    <2>2. CASE p # owner
      BY <1>1, <1>4, <2>2, StrangerTracks
    <2>3. QED
      BY <2>1, <2>2
  <1>5. ASSUME NEW p \in Procs, TakeLease(p) PROVE OnTrack /\ LedgerMoves(events, events')
    BY <1>1, <1>5, TakeoverTracks, SilentSteps
  <1>6. CASE WriteByOthers
    <2>1. OnTrack /\ Harmless
      BY <1>6, OthersWriteOnly
    <2>2. QED
      BY <1>1, <2>1 DEF Harmless
  <1>7. CASE UNCHANGED executorVars
    <2>1. events' = events /\ proc' = proc /\ owner' = owner /\ trust' = trust
      BY <1>7 DEF executorVars
    <2>2. OnTrack
      BY <2>1 DEF OnTrack, Beyond, HalfInvalidated, At
    <2>3. QED
      BY <1>1, <2>1, <2>2
  <1>8. QED
    BY <1>2, <1>3, <1>4, <1>5, <1>6, <1>7 DEF ExecutorNext

\* Every move of the ledger is a step of ActionLedger.
LEMMA MovesAreSteps ==
    ASSUME LogShape(events), OneTerminal(events), LedgerMoves(events, events')
    PROVE  Actions!Accept \/ Actions!Withdraw \/ Actions!Read \/ Actions!Work
  <1>1. /\ Actions!OnRecord = AppliedIds(events)
        /\ Actions!TreeAfter(AcceptedLedger(events)) = AcceptedTree(events)
    BY OnRecordIs, NewestIs DEF Actions!OnRecord
  <1>2. ASSUME KeepsLedger(events, events') PROVE Actions!Work
    BY <1>2 DEF KeepsLedger, Actions!Work
  <1>3. ASSUME AcceptsEntry(events, events') PROVE Actions!Accept
    BY <1>1, <1>3 DEF AcceptsEntry, Actions!Accept
  <1>4. ASSUME WithdrawsEntry(events, events') PROVE Actions!Withdraw
    <2>1. Actions!Newest(AcceptedLedger(events)) = EntryOf(events[LastOf(events, Identified(events))])
      BY <1>4, NewestIs DEF WithdrawsEntry
    <2>2. QED
      BY <1>4, <2>1 DEF WithdrawsEntry, Actions!Withdraw
  <1>5. ASSUME RecordsRead(events, events') PROVE Actions!Read
    BY <1>1, <1>5 DEF RecordsRead, Actions!Read
  <1>6. QED
    BY <1>2, <1>3, <1>4, <1>5 DEF LedgerMoves

\* At rest the worktree is what the ledger holds.
RestInv == Settled => worktree = Actions!TreeAfter(AcceptedLedger(events))

\* ImplementsActionLedger (executor.ts, execute and recoverWorktree): whatever is
\* interrupted, replayed, rolled back or fenced out, the actions of a task are
\* accepted one by one, each once and on what the one before left, and withdrawn
\* from the end only, until something happens that no admission finds out.
THEOREM ExecutorImplementsLedger == ExecutorSpec => ImplementsActionLedger
  <1>1. ExecutorInit => Actions!LedgerInit
    <2> SUFFICES ASSUME ExecutorInit PROVE Actions!LedgerInit
      OBVIOUS
    <2>1. activeAppliedEvents(events) = {} /\ Identified(events) = {}
      BY DEF ExecutorInit, activeAppliedEvents, Identified
    <2>2. AcceptedLedger(events) = {} /\ RecordedReads(events) = {}
      BY <2>1 DEF AcceptedLedger, RecordedReads
    <2>3. Idle.at = "idle"
      BY DEF Idle
    <2>4. OnTrack = TRUE
      BY <2>3 DEF ExecutorInit, OnTrack, Beyond, HalfInvalidated, At
    <2>5. QED
      BY <2>2, <2>4 DEF ExecutorInit, Actions!LedgerInit
  <1>2. TypeInv /\ SoundInv => RestInv
    <2> SUFFICES ASSUME TypeInv, SoundInv, Settled
                 PROVE  worktree = Actions!TreeAfter(AcceptedLedger(events))
      BY DEF RestInv
    <2>1. LogShape(events) /\ OneTerminal(events) /\ worktree = AcceptedTree(events)
      BY SettledClean
    <2>2. QED
      BY <2>1, NewestIs
  <1>3. TypeInv /\ SoundInv /\ RestInv' /\ [ExecutorNext]_executorVars
           => [Actions!LedgerNext]_(Actions!ledgerVars)
    <2> SUFFICES ASSUME TypeInv, SoundInv, RestInv', [ExecutorNext]_executorVars
                 PROVE  Actions!LedgerNext
      OBVIOUS
    <2>1. CASE OnTrack'
      <3>1. OnTrack /\ LedgerMoves(events, events')
        BY <2>1, ExecutorStep
      <3>2. LogShape(events) /\ OneTerminal(events)
        BY <3>1 DEF TypeInv, SoundInv, Core, Good
      <3>3. Actions!Accept \/ Actions!Withdraw \/ Actions!Read \/ Actions!Work
        BY <3>1, <3>2, MovesAreSteps
      <3>4. Settled' => worktree' = Actions!TreeAfter(AcceptedLedger(events'))
        BY DEF RestInv
      <3>5. QED
        BY <2>1, <3>1, <3>3, <3>4 DEF Actions!LedgerNext
    <2>2. CASE ~OnTrack'
      BY <2>2 DEF Actions!LedgerNext, Actions!LoseTrack
    <2>3. QED
      BY <2>1, <2>2
  <1>4. QED
    BY <1>1, <1>2, <1>3, ExecutorInvariant, PTL
       DEF ExecutorSpec, ImplementsActionLedger, Actions!LedgerSpec

==============================================================================
