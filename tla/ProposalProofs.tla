---------------------------- MODULE ProposalProofs ----------------------------
(***************************************************************************)
(* Proofs about what is asked of models and what becomes of the answers:    *)
(* a fusion panel (for any profiles, ceilings, budgets and answers, and for *)
(* any interleaving of the workers of dispatchAll), a round of the proposal *)
(* source, the send() of a vendor adapter and the conformance suite.        *)
(*                                                                         *)
(* A winner is announced long after the panel was seated, so FusionInv      *)
(* carries what was established on the way: the profile in force is one of *)
(* the parsed file, the panel fits its cap and its workers the ceiling,    *)
(* what lies at a slot is the answer of that slot's adapter, and a panel   *)
(* that goes on to gates or judge has two candidates.  The state of a panel *)
(* is one record of eighteen fields; a step is described by the fields it   *)
(* changes (FusFields, IsFus), not by the whole record; so is a round.      *)
(***************************************************************************)
EXTENDS Fusion, Proposals, SequenceTheorems, FiniteSetTheorems, NaturalsInduction, WellFoundedInduction, TLAPS

\* The fields of a panel's state, and a record that has exactly these.
FusFields == {"pc", "profiles", "pool", "width", "activations", "consumed", "planned", "refills", "profile",
              "budget", "slots", "next", "results", "worker", "candidates", "usage", "judge", "outcome"}
IsFus(f) == DOMAIN f = FusFields /\ f = [x \in FusFields |-> f[x]]
FusShape == IsFus(fus)

\* The file was parsed, and the profile in force is one of it.
ProfileIsParsed ==
    /\ fus.profiles \subseteq RawProfiles
    /\ \A p \in fus.profiles : parseFusionProfile(p)
    /\ fus.profile \in fus.profiles

\* A panel fits its cap, and there are no more workers than the ceiling allows.
PanelFits ==
    /\ fus.width \in Nat /\ DOMAIN fus.worker \subseteq 1..fus.width
    /\ Len(fus.slots) \in Nat /\ DOMAIN fus.slots = 1..Len(fus.slots)
    /\ Len(fus.slots) * fus.profile.estimate <= fus.profile.cap

\* What lies at a slot is the answer of the adapter of that slot.
AnswersAreTheirs ==
    /\ \A i \in DOMAIN fus.slots : fus.results[i].answer.kind # "none" => fus.results[i].from = fus.slots[i]
    /\ DOMAIN fus.results = DOMAIN fus.slots /\ DOMAIN fus.candidates \subseteq DOMAIN fus.slots
    /\ \A k \in DOMAIN fus.candidates :
          LET c == fus.candidates[k]
          IN  c = [from |-> fus.slots[k], answer |-> c.answer, gate |-> c.gate]

\* A panel goes on to gates and judge with two candidates at least; a winner was measured.
WinnersAreEarned ==
    /\ fus.pc \in {"gating", "judging"} => Cardinality(DOMAIN fus.candidates) >= 2
    /\ (fus.pc = "done" /\ fus.outcome.winner) =>
          Cardinality(DOMAIN fus.candidates) >= 2 /\ WinnerIsMeasured

\* The inductive invariant.
FusionInv == FusShape /\ ProfileIsParsed /\ PanelFits /\ AnswersAreTheirs /\ WinnersAreEarned

\* A non-empty set of naturals has a least member.
LEMMA HasFirst ==
    ASSUME NEW S \in SUBSET Nat, S # {}
    PROVE  \E x \in S : \A y \in S : x <= y
  <1>1. PICK x \in S : \A y \in S : ~(<<y, x>> \in OpToRel(<, Nat))
    BY NatLessThanWellFounded, WFMin
  <1>2. ASSUME NEW y \in S PROVE x <= y
    <2>1. ~(y < x)
      BY <1>1 DEF OpToRel
    <2>2. QED
      BY <2>1
  <1>3. QED
    BY <1>2

\* Min finds it.
LEMMA MinIsFirst ==
    ASSUME NEW S \in SUBSET Nat, S # {}
    PROVE  Min(S) \in S /\ \A y \in S : Min(S) <= y
  <1>1. \E x \in S : \A y \in S : x =< y
    BY HasFirst
  <1>2. QED
    BY <1>1 DEF Min

\* The length of a function on 1..n.
LEMMA LenOfRange ==
    ASSUME NEW n \in Nat, NEW s, s = [i \in 1..n |-> s[i]]
    PROVE  Len(s) = n /\ DOMAIN s = 1..n
  <1> DEFINE S == {s[i] : i \in 1..n}
  <1>1. s \in Seq(S)
    OBVIOUS
  <1>2. DOMAIN s = 1..Len(s) /\ Len(s) \in Nat
    BY <1>1, LenProperties
  <1>3. QED
    BY <1>2

\* An outcome that is none has no winner (escalate, run.ts:76-99).
LEMMA NobodyWins == \A r : NoOutcome(r).winner = FALSE
  BY DEF NoOutcome

\* What the resolve rules make of the candidates has gate evidence where it must have it.
LEMMA CodeIsMeasured ==
    ASSUME NEW cs, DOMAIN cs \in SUBSET Nat, resolveCodeDiff(cs).winner
    PROVE  \E k \in DOMAIN cs : cs[k].gate = "pass" /\ resolveCodeDiff(cs).actions = cs[k].answer.actions
  <1>1. Green(cs) # {}
    BY NobodyWins DEF resolveCodeDiff
  <1>2. Min(Green(cs)) \in Green(cs)
    BY <1>1, MinIsFirst DEF Green
  <1>3. resolveCodeDiff(cs).actions = cs[Min(Green(cs))].answer.actions
    BY <1>1 DEF resolveCodeDiff, Resolved, NoOutcome
  <1>4. QED
    BY <1>2, <1>3 DEF Green

\* The same of each file of a union of tests.
LEMMA TestsAreMeasured ==
    ASSUME NEW cs, resolveTests(cs).winner, NEW a \in resolveTests(cs).actions
    PROVE  \E k \in DOMAIN cs : cs[k].gate = "pass" /\ a \in cs[k].answer.actions
  <1>1. Green(cs) # {}
    BY NobodyWins DEF resolveTests
  <1>2. resolveTests(cs).actions
          = UNION {{x \in FileWrites(cs[k]) : k = Min(Writing(cs, x.path))} : k \in Green(cs)}
    BY <1>1 DEF resolveTests, Resolved, NoOutcome
  <1>3. PICK k \in Green(cs) : a \in FileWrites(cs[k])
    BY <1>2
  <1>4. QED
    BY <1>3 DEF Green, FileWrites

\* As many estimates as the cap allows fit the cap.
LEMMA QuotientFits ==
    ASSUME NEW cap \in Nat, NEW estimate \in Nat, estimate > 0
    PROVE  (cap \div estimate) \in Nat /\ (cap \div estimate) * estimate <= cap
  <1>1. (cap \div estimate) \in Nat
    OBVIOUS
  <1>2. (cap \div estimate) * estimate <= cap
    OBVIOUS
  <1>3. QED
    BY <1>1, <1>2

\* A panel is never larger than its profile's cap allows.
LEMMA PanelSizeFits ==
    ASSUME NEW p \in RawProfiles, parseFusionProfile(p)
    PROVE  /\ PanelSize(p) \in Nat /\ PanelSize(p) * p.estimate <= p.cap
           /\ p.cap > 0 /\ p.estimate > 0 /\ p.estimate \in Nat /\ p.cap \in Nat /\ p.names \in Seq(STRING)
  <1>1. /\ p.cap > 0 /\ p.estimate > 0 /\ p.size >= 2
        /\ p.cap \in Int /\ p.estimate \in Int /\ p.size \in Int /\ p.names \in Seq(STRING)
    BY FusionAssumption DEF RawProfile, parseFusionProfile
  <1>2. p.cap \in Nat /\ p.estimate \in Nat /\ p.size \in Nat /\ p.size * p.estimate \in Int
    BY <1>1
  <1>3. (p.cap \div p.estimate) \in Nat /\ (p.cap \div p.estimate) * p.estimate <= p.cap
    BY <1>1, <1>2, QuotientFits
  <1>4. \/ PanelSize(p) = p.cap \div p.estimate
        \/ PanelSize(p) = p.size /\ ~(p.size * p.estimate > p.cap)
    BY Zenon DEF PanelSize
  <1>5. CASE PanelSize(p) = p.cap \div p.estimate
    BY <1>1, <1>2, <1>3, <1>5
  <1>6. CASE PanelSize(p) = p.size /\ ~(p.size * p.estimate > p.cap)
    <2>1. PICK amount \in Int : amount = p.size * p.estimate
      BY <1>2
    <2>2. amount <= p.cap
      BY <1>2, <1>6, <2>1
    <2>3. QED
      BY <1>1, <1>2, <1>6, <2>1, <2>2
  <1>7. QED
    BY <1>4, <1>5, <1>6

\* As many slots as the size says, at most.
LEMMA SlotsFit ==
    ASSUME NEW agents, NEW role, NEW p \in RawProfiles, parseFusionProfile(p), NEW size \in Nat
    PROVE  LET slots == planPanel(agents, p, size, role)
           IN  /\ Len(slots) \in Nat /\ Len(slots) <= size
               /\ DOMAIN slots = 1..Len(slots)
  <1> DEFINE names == FirstNames(p, size)
             list == eligible(agents, role, NoHints)
             slots == planPanel(agents, p, size, role)
  <1>1. p.names \in Seq(STRING) /\ p.diversity \in {"self", "cross_lineage"}
    BY FusionAssumption DEF RawProfile
  <1>2. Len(names) \in Nat /\ Len(names) <= size /\ DOMAIN names = 1..Len(names)
    <2> DEFINE m == Min({size, Len(p.names)})
    <2>1. Len(p.names) \in Nat
      BY <1>1
    <2>2. m \in Nat /\ m <= size /\ m <= Len(p.names)
      BY <2>1, MinIsFirst
    <2> HIDE DEF m
    <2>3. names = SubSeq(p.names, 1, m)
      BY DEF FirstNames, m
    <2>4. QED
      BY <1>1, <2>1, <2>2, <2>3
  <1>3. CASE slots = <<>>
    BY <1>3
  <1>4. CASE slots # <<>> /\ p.diversity = "self"
    <2>1. slots = [i \in 1..size |-> list[1]]
      BY <1>4 DEF planPanel
    <2>2. slots = [i \in 1..size |-> slots[i]]
      BY <2>1
    <2> HIDE DEF slots
    <2>3. Len(slots) = size /\ DOMAIN slots = 1..size
      BY <2>2, LenOfRange
    <2>4. QED
      BY <2>3 DEF slots
  <1>5. CASE slots # <<>> /\ p.diversity = "cross_lineage"
    <2>1. slots = [i \in DOMAIN names |->
                        list[CHOOSE k \in DOMAIN list :
                                /\ Traits[list[k]].lineage = names[i]
                                /\ \A j \in 1..(k - 1) : Traits[list[j]].lineage # names[i]]]
      BY <1>5 DEF planPanel
    <2> HIDE DEF names, list
    <2>2. slots = [i \in 1..Len(names) |-> slots[i]]
      BY <1>2, <2>1
    <2> HIDE DEF slots
    <2>3. Len(slots) = Len(names) /\ DOMAIN slots = 1..Len(names)
      BY <1>2, <2>2, LenOfRange
    <2>4. QED
      BY <1>2, <2>3 DEF slots
  <1>6. QED
    BY <1>1, <1>3, <1>4, <1>5

\* What a change of one field leaves.
LEMMA OtherFields ==
    ASSUME NEW f, IsFus(f), NEW x \in FusFields, NEW v
    PROVE  /\ IsFus([f EXCEPT ![x] = v])
           /\ [f EXCEPT ![x] = v][x] = v
           /\ \A y \in FusFields \ {x} : [f EXCEPT ![x] = v][y] = f[y]
  BY DEF IsFus

\* A panel as it is formed, and how it is given up.
LEMMA FormedFields ==
    ASSUME FusShape, NEW profile, NEW budget, NEW slots
    PROVE  LET g == Formed(profile, budget, slots)
           IN  /\ IsFus(g) /\ g.pc = "panel" /\ g.profiles = fus.profiles /\ g.width = fus.width
               /\ g.profile = profile /\ g.slots = slots /\ g.candidates = <<>>
               /\ g.results = [i \in DOMAIN slots |-> Result("nobody", NoAnswer)]
               /\ g.worker = [w \in 1..Min({fus.width, Len(slots)}) |-> [item |-> 0, doing |-> "free"]]
  <1> DEFINE results == [i \in DOMAIN slots |-> Result("nobody", NoAnswer)]
             worker == [w \in 1..Min({fus.width, Len(slots)}) |-> [item |-> 0, doing |-> "free"]]
             g == Formed(profile, budget, slots)
  <1>1. g = [fus EXCEPT !.pc = "panel", !.profile = profile, !.budget = budget, !.slots = slots, !.next = 1,
                        !.results = results, !.candidates = <<>>, !.usage = 0, !.judge = "none",
                        !.worker = worker]
    BY Zenon DEF Formed
  <1> HIDE DEF results, worker, g
  <1>2. DOMAIN g = FusFields
    BY <1>1 DEF FusShape, IsFus
  <1>3. IsFus(g)
    <2>1. g = [x \in DOMAIN g |-> g[x]]
      BY <1>1 DEF FusShape, IsFus
    <2>2. QED
      BY <1>2, <2>1 DEF IsFus
  <1>4. g.pc = "panel" /\ g.profiles = fus.profiles /\ g.width = fus.width
    BY <1>1 DEF FusShape, IsFus, FusFields
  <1>5. g.profile = profile /\ g.slots = slots /\ g.candidates = <<>>
    BY <1>1 DEF FusShape, IsFus, FusFields
  <1>6. g.results = results /\ g.worker = worker
    BY <1>1 DEF FusShape, IsFus, FusFields
  <1>7. QED
    BY <1>3, <1>4, <1>5, <1>6 DEF results, worker, g

\* What giving up changes: the place and the outcome.
LEMMA EscalatedFields ==
    ASSUME NEW g, NEW reason, IsFus(g)
    PROVE  LET e == Escalated(g, reason)
           IN  /\ IsFus(e) /\ e.pc = "done" /\ e.outcome = NoOutcome(reason)
               /\ \A x \in FusFields \ {"pc", "outcome"} : e[x] = g[x]
  BY DEF Escalated, Concluded, IsFus, FusFields

\* A panel that is formed, or given up before it was; the callers only count it.
Counted == {"planned", "activations", "consumed"}
Becomes(g) == IsFus(fus') /\ \A x \in FusFields \ Counted : fus'[x] = g[x]

\* A panel that is formed within its cap keeps the invariant, given up at once or not.
LEMMA FormedKeepsInv ==
    ASSUME FusionInv, NEW profile \in fus.profiles, NEW budget, NEW slots,
           Len(slots) \in Nat, DOMAIN slots = 1..Len(slots), Len(slots) * profile.estimate <= profile.cap,
           \/ Becomes(Formed(profile, budget, slots))
           \/ \E reason : Becomes(Escalated(Formed(profile, budget, slots), reason))
    PROVE  FusionInv'
  <1> DEFINE n == Min({fus.width, Len(slots)})
             worker == [w \in 1..n |-> [item |-> 0, doing |-> "free"]]
             results == [i \in DOMAIN slots |-> Result("nobody", NoAnswer)]
             g == Formed(profile, budget, slots)
  <1>1. fus.width \in Nat /\ FusShape
    BY DEF FusionInv, PanelFits
  <1>2. n \in Nat /\ n <= fus.width
    BY <1>1, MinIsFirst
  <1>3. /\ IsFus(g) /\ g.pc = "panel" /\ g.profiles = fus.profiles /\ g.width = fus.width /\ g.profile = profile
        /\ g.slots = slots /\ g.results = results /\ g.worker = worker /\ g.candidates = <<>>
    BY <1>1, FormedFields
  <1> HIDE DEF worker, results, g
  <1>4. /\ FusShape' /\ fus'.profiles = fus.profiles /\ fus'.width = fus.width /\ fus'.profile = profile
        /\ fus'.slots = slots /\ fus'.results = results /\ fus'.worker = worker /\ fus'.candidates = <<>>
        /\ fus'.pc = "panel" \/ (fus'.pc = "done" /\ \E reason : fus'.outcome = NoOutcome(reason))
    <2>1. CASE Becomes(g)
      BY <1>3, <2>1 DEF FusShape, Becomes, Counted, FusFields
    <2>2. CASE \E reason : Becomes(Escalated(g, reason))
      <3>1. PICK reason : Becomes(Escalated(g, reason))
        BY <2>2
      <3>2. LET e == Escalated(g, reason)
            IN  e.pc = "done" /\ e.outcome = NoOutcome(reason) /\ \A x \in FusFields \ {"pc", "outcome"} : e[x] = g[x]
        BY <1>3, EscalatedFields
      <3>3. /\ fus'.pc = "done" /\ fus'.outcome = NoOutcome(reason) /\ IsFus(fus')
            /\ \A x \in (FusFields \ {"pc", "outcome"}) \ Counted : fus'[x] = g[x]
        BY <3>1, <3>2 DEF Becomes, Counted, FusFields
      <3>4. QED
        BY <1>3, <3>3 DEF FusShape, Counted, FusFields
    <2>3. QED
      BY <2>1, <2>2 DEF g
  <1> HIDE DEF worker, results
  <1>5. ProfileIsParsed'
    BY <1>4 DEF FusionInv, ProfileIsParsed
  <1>6. PanelFits'
    BY <1>1, <1>2, <1>4 DEF PanelFits, worker
  <1>7. AnswersAreTheirs'
    BY <1>4 DEF AnswersAreTheirs, results, Result, NoAnswer
  <1>8. WinnersAreEarned'
    BY <1>4, NobodyWins DEF WinnersAreEarned
  <1>9. QED
    BY <1>4, <1>5, <1>6, <1>7, <1>8 DEF FusionInv

\* The ways a start may go.
LEMMA ActivatedIs ==
    ASSUME NEW profile, NEW budget, NEW role
    PROVE  LET a == Activated(profile, budget, role)
           IN  \/ a = Escalated(Formed(profile, 0, <<>>), "invalid_response")
               \/ a = Escalated(Formed(profile, budget, <<>>), "budget_cap")
               \/ a = Escalated(Formed(profile, budget, <<>>), "panel_degraded")
               \/ a = Formed(profile, budget, planPanel(fus.pool, profile, PanelSize(profile), role))
  BY Zenon DEF Activated

\* Whichever way a start goes, the state has its fields.
LEMMA ActivatedIsFus ==
    ASSUME FusShape, NEW profile, NEW budget, NEW role
    PROVE  IsFus(Activated(profile, budget, role))
  <1>1. \A b, slots : IsFus(Formed(profile, b, slots))
    BY FormedFields
  <1>2. \A g, reason : IsFus(g) => IsFus(Escalated(g, reason))
    BY EscalatedFields
  <1>3. QED
    BY <1>1, <1>2, ActivatedIs

\* A start of a panel, whether it is formed or not.
LEMMA ActivatedKeepsInv ==
    ASSUME FusionInv, NEW profile \in fus.profiles, NEW budget \in Int, NEW role,
           Becomes(Activated(profile, budget, role))
    PROVE  FusionInv'
  <1> DEFINE size == PanelSize(profile)
             slots == planPanel(fus.pool, profile, size, role)
  <1>1. profile \in RawProfiles /\ parseFusionProfile(profile)
    BY DEF FusionInv, ProfileIsParsed
  <1>2. /\ size \in Nat /\ size * profile.estimate <= profile.cap
        /\ profile.estimate \in Nat /\ profile.cap \in Nat /\ profile.estimate > 0
    BY <1>1, PanelSizeFits
  <1>3. Len(slots) \in Nat /\ Len(slots) <= size /\ DOMAIN slots = 1..Len(slots)
    BY <1>1, <1>2, SlotsFit
  <1>4. Len(slots) * profile.estimate <= profile.cap
    BY <1>2, <1>3
  <1> HIDE DEF size, slots
  <1>5. Len(<<>>) = 0 /\ DOMAIN <<>> = 1..0 /\ Len(<<>>) * profile.estimate <= profile.cap
    BY <1>2
  <1>6. \/ \E reason : Becomes(Escalated(Formed(profile, 0, <<>>), reason))
        \/ \E reason : Becomes(Escalated(Formed(profile, budget, <<>>), reason))
        \/ Becomes(Formed(profile, budget, slots))
    <2> DEFINE a == Activated(profile, budget, role)
    <2>1. \/ a = Escalated(Formed(profile, 0, <<>>), "invalid_response")
          \/ a = Escalated(Formed(profile, budget, <<>>), "budget_cap")
          \/ a = Escalated(Formed(profile, budget, <<>>), "panel_degraded")
          \/ a = Formed(profile, budget, slots)
      BY ActivatedIs DEF size, slots
    <2> HIDE DEF a
    <2>2. Becomes(a)
      BY DEF a
    <2>3. CASE a = Formed(profile, budget, slots)
      BY <2>2, <2>3
    <2>4. CASE a = Escalated(Formed(profile, 0, <<>>), "invalid_response")
      BY <2>2, <2>4
    <2>5. CASE a = Escalated(Formed(profile, budget, <<>>), "budget_cap")
      BY <2>2, <2>5
    <2>6. CASE a = Escalated(Formed(profile, budget, <<>>), "panel_degraded")
      BY <2>2, <2>6
    <2>7. QED
      BY <2>1, <2>3, <2>4, <2>5, <2>6
  <1>7. CASE Becomes(Formed(profile, budget, slots))
    BY <1>3, <1>4, <1>7, FormedKeepsInv
  <1>8. CASE \E reason : Becomes(Escalated(Formed(profile, 0, <<>>), reason))
    BY <1>5, <1>8, FormedKeepsInv
  <1>9. CASE \E reason : Becomes(Escalated(Formed(profile, budget, <<>>), reason))
    BY <1>5, <1>9, FormedKeepsInv
  <1>10. QED
    BY <1>6, <1>7, <1>8, <1>9

\* runPlannerFusion starts the plan profile's panel.
LEMMA PlannerKeepsInv == FusionInv /\ PlannerFusion => FusionInv'
  <1> SUFFICES ASSUME FusionInv, PlannerFusion PROVE FusionInv'
    OBVIOUS
  <1>1. PICK profile \in fus.profiles :
            fus' = [Activated(profile, profile.cap, "planner") EXCEPT !.planned = "running"]
    BY DEF PlannerFusion
  <1>2. profile.cap \in Int
    BY PanelSizeFits DEF FusionInv, ProfileIsParsed
  <1> DEFINE a == Activated(profile, profile.cap, "planner")
  <1>3. IsFus(a) /\ fus' = [a EXCEPT !.planned = "running"]
    BY <1>1, ActivatedIsFus DEF FusionInv
  <1> HIDE DEF a
  <1>4. "planned" \in FusFields /\ "planned" \in Counted
    BY DEF FusFields, Counted
  <1>5. IsFus(fus') /\ \A x \in FusFields \ {"planned"} : fus'[x] = a[x]
    BY <1>3, <1>4, OtherFields
  <1>6. Becomes(a)
    BY <1>4, <1>5 DEF Becomes
  <1>7. QED
    BY <1>2, <1>6, ActivatedKeepsInv DEF a

\* fusion.deliberate starts a panel and spends the task's activation.
LEMMA DeliberateKeepsInv ==
    ASSUME FusionInv, Deliberate, Budgets \subseteq Int
    PROVE  FusionInv'
  <1>1. PICK profile \in fus.profiles, budget \in Budgets :
            fus' = [Activated(profile, budget, "implementer") EXCEPT !.activations = @ + 1, !.consumed = TRUE]
    BY DEF Deliberate
  <1> DEFINE a == Activated(profile, budget, "implementer")
             b == [a EXCEPT !.activations = @ + 1]
  <1>2. IsFus(a)
    BY ActivatedIsFus DEF FusionInv
  <1>3. fus' = [b EXCEPT !.consumed = TRUE]
    BY <1>1
  <1> HIDE DEF a
  <1>4. {"activations", "consumed"} \subseteq FusFields /\ {"activations", "consumed"} \subseteq Counted
    BY DEF FusFields, Counted
  <1>5. IsFus(b) /\ \A x \in FusFields \ {"activations"} : b[x] = a[x]
    <2>1. PICK n : b = [a EXCEPT !["activations"] = n]
      OBVIOUS
    <2>2. QED
      BY <1>2, <1>4, <2>1, OtherFields
  <1> HIDE DEF b
  <1>6. IsFus(fus') /\ \A x \in FusFields \ {"consumed"} : fus'[x] = b[x]
    BY <1>3, <1>4, <1>5, OtherFields
  <1>7. Becomes(a)
    BY <1>4, <1>5, <1>6 DEF Becomes
  <1>8. QED
    BY <1>7, ActivatedKeepsInv DEF a

\* A step of a worker or a counter changes nothing of what the invariant speaks of.
Kept == {"profiles", "width", "profile", "slots", "results", "candidates", "judge", "outcome"}

\* Such a step keeps the invariant, and so does one that puts the outcome aside.
LEMMA QuietKeepsInv ==
    ASSUME FusionInv, IsFus(fus'), \A x \in Kept : fus'[x] = fus[x],
           DOMAIN fus'.worker = DOMAIN fus.worker, fus'.pc \in {fus.pc, "idle"}
    PROVE  FusionInv'
  <1>1. /\ fus'.profiles = fus.profiles /\ fus'.width = fus.width /\ fus'.profile = fus.profile
        /\ fus'.slots = fus.slots /\ fus'.results = fus.results /\ fus'.candidates = fus.candidates
        /\ fus'.judge = fus.judge /\ fus'.outcome = fus.outcome
    BY DEF Kept
  <1>2. ProfileIsParsed' /\ PanelFits' /\ AnswersAreTheirs'
    BY <1>1 DEF FusionInv, ProfileIsParsed, PanelFits, AnswersAreTheirs
  <1>3. WinnerIsMeasured' <=> WinnerIsMeasured
    BY <1>1 DEF WinnerIsMeasured, Passing
  <1>4. WinnersAreEarned'
    BY <1>1, <1>3 DEF FusionInv, WinnersAreEarned
  <1>5. QED
    BY <1>2, <1>4 DEF FusionInv, FusShape

\* A worker takes its next item, or its token.
LEMMA WorkerKeepsInv ==
    ASSUME FusionInv, NEW w, TakeItem(w) \/ tryTake(w)
    PROVE  FusionInv'
  <1>1. FusShape
    BY DEF FusionInv
  <1>2. CASE TakeItem(w)
    <2>1. fus' = [fus EXCEPT !.next = @ + 1, !.worker[w] = [item |-> fus.next, doing |-> "token"]]
      BY <1>2 DEF TakeItem
    <2>2. /\ IsFus(fus') /\ \A x \in FusFields \ {"next", "worker"} : fus'[x] = fus[x]
          /\ DOMAIN fus'.worker = DOMAIN fus.worker
      BY <1>1, <2>1 DEF FusShape, IsFus, FusFields
    <2>3. QED
      BY <2>2, QuietKeepsInv DEF FusFields, Kept
  <1>3. CASE tryTake(w)
    <2>1. fus' = [fus EXCEPT !.worker[w].doing = "sending"]
      BY <1>3 DEF tryTake
    <2>2. /\ IsFus(fus') /\ \A x \in FusFields \ {"worker"} : fus'[x] = fus[x]
          /\ DOMAIN fus'.worker = DOMAIN fus.worker
      BY <1>1, <2>1 DEF FusShape, IsFus, FusFields
    <2>3. QED
      BY <2>2, QuietKeepsInv DEF FusFields, Kept
  <1>4. QED
    BY <1>2, <1>3

\* A request beyond the depth, the outcome taken by its caller, a refill of a bucket.
LEMMA CountingKeepsInv ==
    ASSUME FusionInv, DepthExceeded \/ TakeOutcome \/ \E a \in DOMAIN Buckets : Refill(a)
    PROVE  FusionInv'
  <1>1. FusShape
    BY DEF FusionInv
  <1>2. CASE DepthExceeded
    <2>1. IsFus(fus') /\ \A x \in FusFields \ {"activations"} : fus'[x] = fus[x]
      <3>1. PICK v : fus' = [fus EXCEPT !.activations = v]
        BY <1>2 DEF DepthExceeded
      <3>2. QED
        BY <1>1, <3>1 DEF FusShape, IsFus, FusFields
    <2>2. QED
      BY <2>1, QuietKeepsInv DEF FusFields, Kept
  <1>3. CASE TakeOutcome
    <2>1. IsFus(fus') /\ (\A x \in FusFields \ {"pc", "planned"} : fus'[x] = fus[x]) /\ fus'.pc = "idle"
      <3>1. PICK v : fus' = [fus EXCEPT !.pc = "idle", !.planned = v]
        BY <1>3 DEF TakeOutcome
      <3>2. QED
        BY <1>1, <3>1 DEF FusShape, IsFus, FusFields
    <2>2. QED
      BY <2>1, QuietKeepsInv DEF FusFields, Kept
  <1>4. CASE \E a \in DOMAIN Buckets : Refill(a)
    <2>1. IsFus(fus') /\ \A x \in FusFields \ {"refills"} : fus'[x] = fus[x]
      <3>1. PICK v : fus' = [fus EXCEPT !.refills = v]
        BY <1>4 DEF Refill
      <3>2. QED
        BY <1>1, <3>1 DEF FusShape, IsFus, FusFields
    <2>2. QED
      BY <2>1, QuietKeepsInv DEF FusFields, Kept
  <1>5. QED
    BY <1>2, <1>3, <1>4

\* An answer lands at the index of its item, whichever worker brings it.
LEMMA AnswerKeepsInv ==
    ASSUME FusionInv, NEW w, NEW answer, AnswerItem(w, answer)
    PROVE  FusionInv'
  <1> DEFINE i == fus.worker[w].item
  <1>1. FusShape /\ fus.pc = "panel" /\ DOMAIN fus.results = DOMAIN fus.slots
    BY DEF FusionInv, AnswerItem, AnswersAreTheirs
  <1>2. fus' = [fus EXCEPT !.results[i] = Result(fus.slots[i], answer),
                           !.worker[w] = [item |-> 0, doing |-> "free"]]
    BY DEF AnswerItem
  <1> HIDE DEF i
  <1>3. /\ IsFus(fus') /\ \A x \in FusFields \ {"results", "worker"} : fus'[x] = fus[x]
        /\ DOMAIN fus'.worker = DOMAIN fus.worker
        /\ fus'.results = [fus.results EXCEPT ![i] = Result(fus.slots[i], answer)]
    BY <1>1, <1>2 DEF FusShape, IsFus, FusFields
  <1>4. /\ fus'.profiles = fus.profiles /\ fus'.width = fus.width /\ fus'.profile = fus.profile
        /\ fus'.slots = fus.slots /\ fus'.candidates = fus.candidates
        /\ fus'.pc = "panel"
    BY <1>1, <1>3 DEF FusFields
  <1>5. ProfileIsParsed' /\ PanelFits' /\ WinnersAreEarned'
    BY <1>3, <1>4 DEF FusionInv, ProfileIsParsed, PanelFits, WinnersAreEarned
  <1>6. AnswersAreTheirs'
    BY <1>1, <1>3, <1>4 DEF FusionInv, AnswersAreTheirs, Result
  <1>7. QED
    BY <1>3, <1>5, <1>6 DEF FusionInv, FusShape

\* What is collected: the candidates are answers of the panel, and two at least go on.
LEMMA CollectedFields ==
    ASSUME FusShape
    PROVE  LET g == Collected(fus)
           IN  /\ IsFus(g) /\ \A x \in FusFields \ {"pc", "usage", "candidates", "outcome"} : g[x] = fus[x]
               /\ g.candidates = Candidates(fus)
               /\ \/ g.pc = "done" /\ \E reason : g.outcome = NoOutcome(reason)
                  \/ g.pc \in {"gating", "judging"} /\ ~(Cardinality(Used(fus)) < 2)
  <1> DEFINE full == [fus EXCEPT !.usage = UsageOf(fus), !.candidates = Candidates(fus)]
             g == Collected(fus)
  <1>1. /\ IsFus(full) /\ full.candidates = Candidates(fus)
        /\ \A x \in FusFields \ {"usage", "candidates"} : full[x] = fus[x]
    BY DEF FusShape, IsFus, FusFields
  <1>2. \/ \E reason : g = Escalated(full, reason)
        \/ /\ ~(Cardinality(Used(fus)) < 2)
           /\ \E pc \in {"gating", "judging"} : g = [full EXCEPT !.pc = pc]
    BY Zenon DEF Collected
  <1> HIDE DEF full, g
  <1>3. CASE \E reason : g = Escalated(full, reason)
    <2>1. PICK reason : g = Escalated(full, reason)
      BY <1>3
    <2>2. /\ IsFus(g) /\ g.pc = "done" /\ g.outcome = NoOutcome(reason)
          /\ \A x \in FusFields \ {"pc", "outcome"} : g[x] = full[x]
      BY <1>1, <2>1, EscalatedFields
    <2>3. QED
      BY <1>1, <2>2 DEF FusFields, g
  <1>4. CASE ~(Cardinality(Used(fus)) < 2) /\ \E pc \in {"gating", "judging"} : g = [full EXCEPT !.pc = pc]
    <2>1. PICK pc \in {"gating", "judging"} : g = [full EXCEPT !.pc = pc]
      BY <1>4
    <2>2. IsFus(g) /\ g.pc = pc /\ \A x \in FusFields \ {"pc"} : g[x] = full[x]
      BY <1>1, <2>1 DEF IsFus, FusFields
    <2>3. QED
      BY <1>1, <1>4, <2>1, <2>2 DEF FusFields, g
  <1>5. QED
    BY <1>2, <1>3, <1>4

\* The panel is collected when all its answers are there.
LEMMA CollectKeepsInv ==
    ASSUME FusionInv, CollectPanel
    PROVE  FusionInv'
  <1>1. FusShape /\ fus.pc = "panel" /\ fus' = Collected(fus) /\ DOMAIN fus.slots \subseteq Nat
    BY DEF FusionInv, CollectPanel, PanelFits
  <1>2. /\ IsFus(fus') /\ \A x \in FusFields \ {"pc", "usage", "candidates", "outcome"} : fus'[x] = fus[x]
        /\ fus'.candidates = Candidates(fus)
        /\ \/ fus'.pc = "done" /\ \E reason : fus'.outcome = NoOutcome(reason)
           \/ fus'.pc \in {"gating", "judging"} /\ ~(Cardinality(Used(fus)) < 2)
    BY <1>1, CollectedFields
  <1>3. /\ fus'.profiles = fus.profiles /\ fus'.width = fus.width /\ fus'.profile = fus.profile
        /\ fus'.slots = fus.slots /\ fus'.worker = fus.worker /\ fus'.results = fus.results
    BY <1>2 DEF FusFields
  <1>4. ProfileIsParsed' /\ PanelFits'
    BY <1>3 DEF FusionInv, ProfileIsParsed, PanelFits
  <1>5. AnswersAreTheirs'
    <2>1. Used(fus) \subseteq DOMAIN fus.slots /\ \A k \in Used(fus) : fus.results[k].answer.kind = "ok"
      BY DEF Used, Succeeded
    <2>2. /\ DOMAIN fus'.candidates = Used(fus)
          /\ \A k \in Used(fus) : fus'.candidates[k] =
                [from |-> fus.results[k].from, answer |-> fus.results[k].answer, gate |-> "none"]
      BY <1>2 DEF Candidates
    <2>3. \A k \in Used(fus) : fus.results[k].from = fus.slots[k]
      BY <2>1 DEF FusionInv, AnswersAreTheirs
    <2>4. \A k \in Used(fus) :
             fus'.candidates[k] = [from |-> fus.slots[k], answer |-> fus'.candidates[k].answer,
                                   gate |-> fus'.candidates[k].gate]
      <3> TAKE k \in Used(fus)
      <3> DEFINE answer == fus.results[k].answer
      <3>1. fus'.candidates[k] = [from |-> fus.slots[k], answer |-> answer, gate |-> "none"]
        BY <2>2, <2>3
      <3> HIDE DEF answer
      <3>2. fus'.candidates[k].answer = answer /\ fus'.candidates[k].gate = "none"
        BY <3>1
      <3>3. QED
        BY <3>1, <3>2
    <2>5. /\ \A k \in DOMAIN fus.slots : fus.results[k].answer.kind # "none" => fus.results[k].from = fus.slots[k]
          /\ DOMAIN fus.results = DOMAIN fus.slots
      BY DEF FusionInv, AnswersAreTheirs
    <2>6. QED
      BY <1>3, <2>1, <2>2, <2>4, <2>5 DEF AnswersAreTheirs
  <1>6. WinnersAreEarned'
    <2>1. CASE fus'.pc = "done" /\ \E reason : fus'.outcome = NoOutcome(reason)
      BY <2>1, NobodyWins DEF WinnersAreEarned
    <2>2. CASE fus'.pc \in {"gating", "judging"} /\ ~(Cardinality(Used(fus)) < 2)
      <3>1. DOMAIN fus'.candidates = Used(fus)
        BY <1>2 DEF Candidates
      <3>2. Cardinality(Used(fus)) \in Nat
        <4>1. IsFiniteSet(DOMAIN fus.slots)
          <5>1. IsFiniteSet(1..Len(fus.slots))
            <6>1. 1 \in Int /\ Len(fus.slots) \in Int
              BY DEF FusionInv, PanelFits
            <6>2. QED
              BY <6>1, FS_Interval
          <5>2. QED
            BY <5>1 DEF FusionInv, PanelFits
        <4>2. QED
          BY <4>1, FS_Subset, FS_CardinalityType DEF Used
      <3>3. QED
        BY <2>2, <3>1, <3>2 DEF WinnersAreEarned
    <2>3. QED
      BY <1>2, <2>1, <2>2
  <1>7. QED
    BY <1>2, <1>4, <1>5, <1>6 DEF FusionInv, FusShape

\* A gate verdict is written to one candidate and changes nothing else of it.
LEMMA GateKeepsInv ==
    ASSUME FusionInv, NEW verdict, GateCandidate(verdict)
    PROVE  FusionInv'
  <1> DEFINE k == Min(Ungated)
  <1>1. FusShape /\ fus.pc = "gating" /\ Cardinality(DOMAIN fus.candidates) >= 2
    BY DEF FusionInv, GateCandidate, WinnersAreEarned
  <1>2. PICK pc \in {"gating", "judging"} : fus' = [fus EXCEPT !.candidates[k].gate = verdict, !.pc = pc]
    BY <1>1 DEF GateCandidate
  <1> HIDE DEF k
  <1>3. /\ IsFus(fus') /\ \A x \in FusFields \ {"pc", "candidates"} : fus'[x] = fus[x]
        /\ fus'.pc = pc /\ fus'.candidates = [fus.candidates EXCEPT ![k].gate = verdict]
    BY <1>1, <1>2 DEF FusShape, IsFus, FusFields
  <1>4. /\ fus'.profiles = fus.profiles /\ fus'.width = fus.width /\ fus'.profile = fus.profile
        /\ fus'.slots = fus.slots /\ fus'.worker = fus.worker /\ fus'.results = fus.results
    BY <1>3 DEF FusFields
  <1>5. ProfileIsParsed' /\ PanelFits'
    BY <1>4 DEF FusionInv, ProfileIsParsed, PanelFits
  <1>6. AnswersAreTheirs'
    <2>1. ASSUME NEW j \in DOMAIN fus.candidates
          PROVE  LET c == fus'.candidates[j]
                 IN  c = [from |-> fus.slots[j], answer |-> c.answer, gate |-> c.gate]
      <3>1. PICK c : c = fus.candidates[j] /\ c = [from |-> fus.slots[j], answer |-> c.answer, gate |-> c.gate]
        BY DEF FusionInv, AnswersAreTheirs
      <3>2. fus'.candidates[j] \in {c, [c EXCEPT !.gate = verdict]}
        BY <1>3, <3>1
      <3>3. PICK d : d = fus'.candidates[j]
        OBVIOUS
      <3>4. d = [from |-> fus.slots[j], answer |-> d.answer, gate |-> d.gate]
        BY <3>1, <3>2, <3>3
      <3>5. QED
        BY <3>3, <3>4
    <2>2. DOMAIN fus'.candidates = DOMAIN fus.candidates
      BY <1>3
    <2>3. \A i \in DOMAIN fus'.slots :
              fus'.results[i].answer.kind # "none" => fus'.results[i].from = fus'.slots[i]
      BY <1>4 DEF FusionInv, AnswersAreTheirs
    <2>4. DOMAIN fus'.results = DOMAIN fus'.slots /\ DOMAIN fus'.candidates \subseteq DOMAIN fus'.slots
      BY <1>4, <2>2 DEF FusionInv, AnswersAreTheirs
    <2>5. ASSUME NEW j \in DOMAIN fus'.candidates
          PROVE  LET c == fus'.candidates[j]
                 IN  c = [from |-> fus'.slots[j], answer |-> c.answer, gate |-> c.gate]
      BY <1>4, <2>1, <2>2
    <2>6. QED
      BY <2>3, <2>4, <2>5 DEF AnswersAreTheirs
  <1>7. WinnersAreEarned'
    BY <1>1, <1>3 DEF WinnersAreEarned
  <1>8. QED
    BY <1>3, <1>5, <1>6, <1>7 DEF FusionInv, FusShape

\* A panel that is concluded, with a winner that was measured or without one.
LEMMA ConcludingKeepsInv ==
    ASSUME FusionInv, IsFus(fus'), fus'.pc = "done",
           \A x \in FusFields \ {"pc", "outcome", "judge", "usage"} : fus'[x] = fus[x],
           fus'.outcome.winner => Cardinality(DOMAIN fus.candidates) >= 2 /\ WinnerIsMeasured'
    PROVE  FusionInv'
  <1>1. /\ fus'.profiles = fus.profiles /\ fus'.width = fus.width /\ fus'.profile = fus.profile
        /\ fus'.slots = fus.slots /\ fus'.worker = fus.worker /\ fus'.results = fus.results
        /\ fus'.candidates = fus.candidates
    BY DEF FusFields
  <1>2. ProfileIsParsed' /\ PanelFits' /\ AnswersAreTheirs'
    BY <1>1 DEF FusionInv, ProfileIsParsed, PanelFits, AnswersAreTheirs
  <1>3. WinnersAreEarned'
    BY <1>1 DEF WinnersAreEarned
  <1>4. QED
    BY <1>2, <1>3 DEF FusionInv, FusShape

\* What a conclusion changes: the place and the outcome.
LEMMA ConcludedFields ==
    ASSUME NEW f, NEW outcome, IsFus(f)
    PROVE  LET c == Concluded(f, outcome)
           IN  /\ IsFus(c) /\ c.pc = "done" /\ c.outcome = outcome
               /\ \A x \in FusFields \ {"pc", "outcome"} : c[x] = f[x]
  BY DEF Concluded, IsFus, FusFields

\* A candidate that cannot be laid out ends the panel without a winner.
LEMMA ThrowKeepsInv ==
    ASSUME FusionInv, GateThrows
    PROVE  FusionInv'
  <1>1. fus' = Escalated(fus, "threw") /\ IsFus(fus)
    BY DEF GateThrows, FusionInv, FusShape
  <1>2. /\ IsFus(fus') /\ fus'.pc = "done" /\ fus'.outcome = NoOutcome("threw")
        /\ \A x \in FusFields \ {"pc", "outcome"} : fus'[x] = fus[x]
    BY <1>1, EscalatedFields
  <1>3. ~fus'.outcome.winner
    BY <1>2, NobodyWins
  <1>4. QED
    BY <1>2, <1>3, ConcludingKeepsInv

\* A winner by the rule of its artifact was measured, or judged where the judge bears the load.
LEMMA WinnersAreMeasured ==
    ASSUME FusionInv, fus'.profile = fus.profile, fus'.candidates = fus.candidates,
           fus'.outcome = resolveMechanical(fus.profile.artifact, fus.candidates), fus'.outcome.winner,
           judgeLoadBearing(fus.profile.artifact) => fus'.judge = "valid"
    PROVE  WinnerIsMeasured'
  <1> DEFINE artifact == fus.profile.artifact
  <1>1. DOMAIN fus.candidates \in SUBSET Nat
    BY DEF FusionInv, AnswersAreTheirs, PanelFits
  <1>2. CASE artifact = "code_diff"
    <2>1. fus'.outcome = resolveCodeDiff(fus.candidates)
      BY <1>2 DEF resolveMechanical
    <2>2. \E k \in DOMAIN fus.candidates : /\ fus.candidates[k].gate = "pass"
                                           /\ fus'.outcome.actions = fus.candidates[k].answer.actions
      BY <1>1, <2>1, CodeIsMeasured
    <2>3. QED
      BY <1>2, <2>2 DEF WinnerIsMeasured, Passing
  <1>3. CASE artifact = "tests"
    <2>1. fus'.outcome = resolveTests(fus.candidates)
      BY <1>3 DEF resolveMechanical
    <2>2. \A a \in fus'.outcome.actions :
             \E k \in DOMAIN fus.candidates : fus.candidates[k].gate = "pass" /\ a \in fus.candidates[k].answer.actions
      BY <2>1, TestsAreMeasured
    <2>3. QED
      BY <1>3, <2>2 DEF WinnerIsMeasured, Passing
  <1>4. CASE artifact # "code_diff" /\ artifact # "tests"
    BY <1>4 DEF WinnerIsMeasured
  <1>5. QED
    BY <1>2, <1>3, <1>4

\* A panel that is judged: escalated, or resolved by the rule of its artifact.
LEMMA JudgeKeepsInv ==
    ASSUME FusionInv, NEW verdict, JudgeRound(verdict)
    PROVE  FusionInv'
  <1> DEFINE artifact == fus.profile.artifact
             unjudged == judgeLoadBearing(artifact) /\ verdict # "valid"
             resolved == resolveMechanical(artifact, fus.candidates)
  <1>1. IsFus(fus) /\ fus.pc = "judging" /\ Cardinality(DOMAIN fus.candidates) >= 2
    BY DEF FusionInv, JudgeRound, WinnersAreEarned, FusShape
  <1>2. PICK usage : \E f : /\ f = [fus EXCEPT !.judge = verdict, !.usage = usage]
                           /\ \/ fus' = Escalated(fus, "invalid_response")
                              \/ \E reason : fus' = Escalated(f, reason)
                              \/ ~unjudged /\ fus' = Concluded(f, resolved)
    BY Zenon DEF JudgeRound
  <1>3. PICK f : /\ f = [fus EXCEPT !.judge = verdict, !.usage = usage]
                 /\ \/ fus' = Escalated(fus, "invalid_response")
                    \/ \E reason : fus' = Escalated(f, reason)
                    \/ ~unjudged /\ fus' = Concluded(f, resolved)
    BY <1>2
  <1>4. IsFus(f) /\ f.judge = verdict /\ \A x \in FusFields \ {"judge", "usage"} : f[x] = fus[x]
    BY <1>1, <1>3 DEF IsFus, FusFields
  <1>5. \/ /\ IsFus(fus') /\ fus'.pc = "done" /\ \E reason : fus'.outcome = NoOutcome(reason)
           /\ \A x \in FusFields \ {"pc", "outcome", "judge", "usage"} : fus'[x] = fus[x]
        \/ /\ IsFus(fus') /\ fus'.pc = "done" /\ fus'.outcome = resolved /\ fus'.judge = verdict /\ ~unjudged
           /\ \A x \in FusFields \ {"pc", "outcome", "judge", "usage"} : fus'[x] = fus[x]
    <2>1. CASE fus' = Escalated(fus, "invalid_response")
      BY <1>1, <2>1, EscalatedFields
    <2>2. CASE \E reason : fus' = Escalated(f, reason)
      <3>1. PICK reason : fus' = Escalated(f, reason)
        BY <2>2
      <3>2. /\ IsFus(fus') /\ fus'.pc = "done" /\ fus'.outcome = NoOutcome(reason)
            /\ \A x \in FusFields \ {"pc", "outcome"} : fus'[x] = f[x]
        BY <1>4, <3>1, EscalatedFields
      <3>3. QED
        BY <1>4, <3>2
    <2>3. CASE ~unjudged /\ fus' = Concluded(f, resolved)
      <3>1. /\ IsFus(fus') /\ fus'.pc = "done" /\ fus'.outcome = resolved
            /\ \A x \in FusFields \ {"pc", "outcome"} : fus'[x] = f[x]
        BY <1>4, <2>3, ConcludedFields
      <3>2. QED
        BY <1>4, <2>3, <3>1 DEF FusFields
    <2>4. QED
      BY <1>3, <2>1, <2>2, <2>3
  <1>6. CASE \E reason : fus'.outcome = NoOutcome(reason)
    BY <1>5, <1>6, NobodyWins, ConcludingKeepsInv
  <1>7. CASE fus'.outcome = resolved /\ fus'.judge = verdict /\ ~unjudged
    <2>1. fus'.profile = fus.profile /\ fus'.candidates = fus.candidates
      BY <1>5 DEF FusFields
    <2>2. fus'.outcome.winner => WinnerIsMeasured'
      BY <1>7, <2>1, WinnersAreMeasured
    <2>3. QED
      BY <1>1, <1>5, <2>2, ConcludingKeepsInv
  <1>8. QED
    BY <1>5, <1>6, <1>7

\* A parsed file, an idle panel and at least one worker.
LEMMA FusionStarts == FusionInit => FusionInv
  <1> SUFFICES ASSUME FusionInit PROVE FusionInv
    OBVIOUS
  <1>1. PICK file \in SUBSET RawProfiles, agents \in FusionPools, c \in Ceilings :
            /\ file # {} /\ parseFusionProfiles(file)
            /\ fus = [pc |-> "idle", profiles |-> file, pool |-> agents,
                      width |-> Max({1, Min({c.maxParallel, c.ceiling})}),
                      activations |-> 0, consumed |-> FALSE, planned |-> "no", refills |-> 0,
                      profile |-> CHOOSE p \in file : TRUE, budget |-> 0, slots |-> <<>>, next |-> 1,
                      results |-> <<>>, worker |-> <<>>, candidates |-> <<>>, usage |-> 0,
                      judge |-> "none", outcome |-> NoOutcome("none")]
    BY DEF FusionInit
  <1> DEFINE width == Max({1, Min({c.maxParallel, c.ceiling})})
             profile == CHOOSE p \in file : TRUE
  <1>2. width \in Nat
    <2>1. c.maxParallel \in Int /\ c.ceiling \in Int
      BY FusionAssumption
    <2>2. PICK m \in Int : m = Min({c.maxParallel, c.ceiling})
      <3>1. \E x \in {c.maxParallel, c.ceiling} : \A y \in {c.maxParallel, c.ceiling} : x =< y
        BY <2>1
      <3>2. QED
        BY <2>1, <3>1 DEF Min
    <2>3. \E x \in {1, m} : \A y \in {1, m} : x >= y
      BY <2>2
    <2>4. Max({1, m}) \in {1, m} /\ Max({1, m}) >= 1
      BY <2>3 DEF Max
    <2>5. QED
      BY <2>2, <2>4
  <1>3. profile \in file
    BY <1>1
  <1> HIDE DEF width, profile
  <1>4. fus = [pc |-> "idle", profiles |-> file, pool |-> agents, width |-> width,
               activations |-> 0, consumed |-> FALSE, planned |-> "no", refills |-> 0,
               profile |-> profile, budget |-> 0, slots |-> <<>>, next |-> 1,
               results |-> <<>>, worker |-> <<>>, candidates |-> <<>>, usage |-> 0,
               judge |-> "none", outcome |-> NoOutcome("none")]
    BY <1>1 DEF width, profile
  <1>5. /\ IsFus(fus) /\ fus.pc = "idle" /\ fus.profiles = file /\ fus.width = width /\ fus.profile = profile
        /\ fus.slots = <<>> /\ fus.results = <<>> /\ fus.worker = <<>> /\ fus.candidates = <<>>
    BY <1>4 DEF IsFus, FusFields
  <1>6. ProfileIsParsed
    BY <1>1, <1>3, <1>5 DEF ProfileIsParsed, parseFusionProfiles
  <1>7. PanelFits
    <2>1. profile.cap \in Nat /\ profile.estimate \in Nat
      BY <1>5, <1>6, PanelSizeFits DEF ProfileIsParsed
    <2>2. QED
      BY <1>2, <1>5, <2>1 DEF PanelFits
  <1>8. AnswersAreTheirs /\ WinnersAreEarned
    BY <1>5 DEF AnswersAreTheirs, WinnersAreEarned
  <1>9. QED
    BY <1>5, <1>6, <1>7, <1>8 DEF FusionInv, FusShape

\* Every step of planner, tool handler, workers, gates and judge keeps the invariant
\* (run.ts:158-368, dispatch.ts:81-135, fusion.ts).
THEOREM FusionStep == FusionInv /\ [FusionNext]_fusionVars => FusionInv'
  <1> SUFFICES ASSUME FusionInv, [FusionNext]_fusionVars PROVE FusionInv'
    OBVIOUS
  <1>1. CASE PlannerFusion
    BY <1>1, PlannerKeepsInv
  <1>2. CASE Deliberate
    BY <1>2, DeliberateKeepsInv, FusionAssumption
  <1>3. CASE DepthExceeded \/ TakeOutcome \/ \E a \in DOMAIN Buckets : Refill(a)
    BY <1>3, CountingKeepsInv
  <1>4. CASE CollectPanel
    BY <1>4, CollectKeepsInv
  <1>5. CASE GateThrows
    BY <1>5, ThrowKeepsInv
  <1>6. CASE \E w \in DOMAIN fus.worker : TakeItem(w) \/ tryTake(w) \/ \E answer \in PanelAnswers : AnswerItem(w, answer)
    BY <1>6, WorkerKeepsInv, AnswerKeepsInv
  <1>7. CASE \E verdict \in {"pass", "fail"} : GateCandidate(verdict)
    BY <1>7, GateKeepsInv
  <1>8. CASE \E verdict \in {"valid", "invalid", "unavailable", "invalid_response"} : JudgeRound(verdict)
    BY <1>8, JudgeKeepsInv
  <1>9. CASE UNCHANGED fusionVars
    <2>1. fus' = fus
      BY <1>9 DEF fusionVars
    <2>2. QED
      BY <2>1, QuietKeepsInv DEF FusionInv, FusShape
  <1>10. QED
    BY <1>1, <1>2, <1>3, <1>4, <1>5, <1>6, <1>7, <1>8, <1>9 DEF FusionNext

\* The place of a panel, the requests counted so far, and what the buckets hold.
FusionCounts ==
    /\ fus.pc \in {"idle", "panel", "gating", "judging", "done"}
    /\ fus.activations \in 0..MaxActivations
    /\ tokens \in [DOMAIN Buckets -> Nat] /\ \A a \in DOMAIN Buckets : tokens[a] <= Buckets[a]

\* A panel that starts stands at its first place or its last, and counts no request itself.
LEMMA ActivatedCounts ==
    ASSUME FusShape, NEW profile, NEW budget, NEW role
    PROVE  LET a == Activated(profile, budget, role)
           IN  /\ IsFus(a) /\ a.pc \in {"panel", "done"} /\ a.activations = fus.activations
  <1> DEFINE a == Activated(profile, budget, role)
  <1>1. \A b, slots : LET g == Formed(profile, b, slots)
                      IN  IsFus(g) /\ g.pc = "panel" /\ g.activations = fus.activations
    <2>1. \A b, slots : Formed(profile, b, slots).activations = fus.activations
      BY DEF Formed, FusShape, IsFus, FusFields
    <2>2. \A b, slots : IsFus(Formed(profile, b, slots))
      BY FormedFields
    <2>3. \A b, slots : Formed(profile, b, slots).pc = "panel"
      BY DEF Formed, FusShape, IsFus, FusFields
    <2>4. QED
      BY <2>1, <2>2, <2>3, Zenon
  <1>2. \A g, reason : IsFus(g) => LET e == Escalated(g, reason)
                                   IN  IsFus(e) /\ e.pc = "done" /\ e.activations = g.activations
    BY EscalatedFields DEF FusFields
  <1>3. PICK b, slots : \/ a = Formed(profile, b, slots)
                        \/ \E reason : a = Escalated(Formed(profile, b, slots), reason)
    BY ActivatedIs
  <1> HIDE DEF a
  <1>4. QED
    BY <1>1, <1>2, <1>3 DEF a

\* A panel is activated within the bound of requests, whoever asks for it.
LEMMA StartCounts ==
    ASSUME FusionInv, FusionCounts, PlannerFusion \/ Deliberate \/ DepthExceeded
    PROVE  FusionCounts'
  <1>1. FusShape /\ tokens' = tokens /\ MaxActivations \in Nat
    BY FusionAssumption DEF FusionInv, PlannerFusion, Deliberate, DepthExceeded
  <1>2. CASE PlannerFusion
    <2>1. PICK profile \in fus.profiles :
              fus' = [Activated(profile, profile.cap, "planner") EXCEPT !.planned = "running"]
      BY <1>2 DEF PlannerFusion
    <2> DEFINE a == Activated(profile, profile.cap, "planner")
    <2>2. IsFus(a) /\ a.pc \in {"panel", "done"} /\ a.activations = fus.activations
      BY <1>1, ActivatedCounts
    <2>3. fus' = [a EXCEPT !.planned = "running"]
      BY <2>1
    <2> HIDE DEF a
    <2>4. fus'.pc = a.pc /\ fus'.activations = a.activations
      BY <2>2, <2>3 DEF IsFus, FusFields
    <2>5. QED
      BY <1>1, <2>2, <2>4 DEF FusionCounts
  <1>3. CASE Deliberate
    <2>1. PICK profile \in fus.profiles, budget \in Budgets :
              fus' = [Activated(profile, budget, "implementer") EXCEPT !.activations = @ + 1, !.consumed = TRUE]
      BY <1>3 DEF Deliberate
    <2> DEFINE a == Activated(profile, budget, "implementer")
    <2>2. IsFus(a) /\ a.pc \in {"panel", "done"} /\ a.activations = fus.activations
      BY <1>1, ActivatedCounts
    <2>3. fus' = [a EXCEPT !.activations = @ + 1, !.consumed = TRUE]
      BY <2>1
    <2> HIDE DEF a
    <2>4. fus'.pc = a.pc /\ fus'.activations = a.activations + 1
      BY <2>2, <2>3 DEF IsFus, FusFields
    <2>5. fus.activations + 1 \in 0..MaxActivations
      <3>1. fus.activations < MaxActivations
        BY <1>3 DEF Deliberate
      <3>2. QED
        BY <1>1, <3>1 DEF FusionCounts
    <2>6. QED
      BY <1>1, <2>2, <2>4, <2>5 DEF FusionCounts
  <1>4. CASE DepthExceeded
    <2>1. fus' = [fus EXCEPT !.activations = @ + 1]
      BY <1>4 DEF DepthExceeded
    <2>2. fus'.pc = fus.pc /\ fus'.activations = fus.activations + 1
      BY <1>1, <2>1 DEF FusShape, IsFus, FusFields
    <2>3. fus.activations + 1 \in 0..MaxActivations
      BY <1>1, <1>4 DEF DepthExceeded, FusionCounts
    <2>4. QED
      BY <1>1, <2>2, <2>3 DEF FusionCounts
  <1>5. QED
    BY <1>2, <1>3, <1>4

\* A worker takes a token that is there, and a refill stops at the capacity.
LEMMA TokenCounts ==
    ASSUME FusionInv, FusionCounts,
           \/ \E w : TakeItem(w) \/ tryTake(w) \/ \E answer : AnswerItem(w, answer)
           \/ \E a \in DOMAIN Buckets : Refill(a)
    PROVE  FusionCounts'
  <1>1. FusShape /\ Buckets \in [DOMAIN Buckets -> Nat]
    BY FusionAssumption DEF FusionInv
  <1>2. fus'.pc = fus.pc /\ fus'.activations = fus.activations
    <2>1. CASE \E w : TakeItem(w)
      BY <1>1, <2>1 DEF TakeItem, FusShape, IsFus, FusFields
    <2>2. CASE \E w : tryTake(w)
      BY <1>1, <2>2 DEF tryTake, FusShape, IsFus, FusFields
    <2>3. CASE \E w, answer : AnswerItem(w, answer)
      BY <1>1, <2>3 DEF AnswerItem, FusShape, IsFus, FusFields
    <2>4. CASE \E a \in DOMAIN Buckets : Refill(a)
      BY <1>1, <2>4 DEF Refill, FusShape, IsFus, FusFields
    <2>5. QED
      BY <2>1, <2>2, <2>3, <2>4
  <1>3. tokens' \in [DOMAIN Buckets -> Nat] /\ \A a \in DOMAIN Buckets : tokens'[a] <= Buckets[a]
    <2>1. CASE tokens' = tokens
      BY <2>1 DEF FusionCounts
    <2>2. CASE \E w : tryTake(w)
      <3>1. PICK w : tryTake(w)
        BY <2>2
      <3> DEFINE a == fus.slots[fus.worker[w].item]
      <3>2. (tokens' = tokens) \/ (a \in DOMAIN Buckets /\ tokens[a] >= 1 /\ tokens' = [tokens EXCEPT ![a] = @ - 1])
        BY <3>1 DEF tryTake, Limited
      <3> HIDE DEF a
      <3>3. CASE a \in DOMAIN Buckets /\ tokens[a] >= 1 /\ tokens' = [tokens EXCEPT ![a] = @ - 1]
        <4>1. \A b \in DOMAIN Buckets : /\ tokens[b] \in Nat /\ Buckets[b] \in Nat /\ tokens[b] <= Buckets[b]
                                        /\ tokens'[b] = IF b = a THEN tokens[a] - 1 ELSE tokens[b]
          BY <1>1, <3>3 DEF FusionCounts
        <4>2. tokens' = [b \in DOMAIN Buckets |-> IF b = a THEN tokens[a] - 1 ELSE tokens[b]]
          BY <3>3 DEF FusionCounts
        <4>3. \A b \in DOMAIN Buckets : tokens'[b] \in Nat /\ tokens'[b] <= Buckets[b]
          BY <3>3, <4>1
        <4>4. DOMAIN tokens' = DOMAIN Buckets /\ tokens' = [b \in DOMAIN Buckets |-> tokens'[b]]
          BY <4>2
        <4>5. QED
          BY <4>3, <4>4
      <3>4. QED
        BY <2>1, <3>2, <3>3
    <2>3. CASE \E a \in DOMAIN Buckets : Refill(a)
      <3>1. PICK a \in DOMAIN Buckets : Refill(a)
        BY <2>3
      <3>2. tokens[a] < Buckets[a] /\ tokens' = [tokens EXCEPT ![a] = @ + 1]
        BY <3>1 DEF Refill
      <3>3. \A b \in DOMAIN Buckets : /\ tokens[b] \in Nat /\ Buckets[b] \in Nat /\ tokens[b] <= Buckets[b]
                                      /\ tokens'[b] = IF b = a THEN tokens[a] + 1 ELSE tokens[b]
        BY <1>1, <3>2 DEF FusionCounts
      <3>4. tokens' = [b \in DOMAIN Buckets |-> IF b = a THEN tokens[a] + 1 ELSE tokens[b]]
        BY <3>2 DEF FusionCounts
      <3>5. \A b \in DOMAIN Buckets : tokens'[b] \in Nat /\ tokens'[b] <= Buckets[b]
        BY <3>1, <3>2, <3>3
      <3>6. DOMAIN tokens' = DOMAIN Buckets /\ tokens' = [b \in DOMAIN Buckets |-> tokens'[b]]
        BY <3>4
      <3>7. QED
        BY <3>5, <3>6
    <2>4. QED
      BY <2>1, <2>2, <2>3 DEF TakeItem, AnswerItem
  <1>4. QED
    BY <1>2, <1>3 DEF FusionCounts

\* Collecting, gating, judging and taking the outcome move the place only.
LEMMA PlaceCounts ==
    ASSUME FusionInv, FusionCounts,
           \/ CollectPanel \/ GateThrows \/ TakeOutcome
           \/ (\E verdict : GateCandidate(verdict)) \/ (\E verdict : JudgeRound(verdict))
    PROVE  FusionCounts'
  <1>1. IsFus(fus) /\ tokens' = tokens
    BY DEF FusionInv, FusShape, CollectPanel, GateThrows, TakeOutcome, GateCandidate, JudgeRound
  <1>2. \A g, outcome : IsFus(g) => LET e == Concluded(g, outcome)
                                    IN  e.pc = "done" /\ e.activations = g.activations
    BY ConcludedFields DEF FusFields
  <1>3. CASE CollectPanel
    <2>1. fus'.activations = fus.activations /\ fus'.pc \in {"done", "gating", "judging"}
      BY <1>1, <1>3, CollectedFields DEF CollectPanel, FusShape, FusFields
    <2>2. QED
      BY <1>1, <2>1 DEF FusionCounts
  <1>4. CASE GateThrows
    BY <1>1, <1>2, <1>4 DEF GateThrows, Escalated, FusionCounts
  <1>5. CASE TakeOutcome
    <2>1. PICK v : fus' = [fus EXCEPT !.pc = "idle", !.planned = v]
      BY <1>5 DEF TakeOutcome
    <2>2. fus'.pc = "idle" /\ fus'.activations = fus.activations
      BY <1>1, <2>1 DEF IsFus, FusFields
    <2>3. QED
      BY <1>1, <2>2 DEF FusionCounts
  <1>6. CASE \E verdict : GateCandidate(verdict)
    <2>1. PICK k, verdict, pc : /\ pc \in {"gating", "judging"}
                               /\ fus' = [fus EXCEPT !.candidates[k].gate = verdict, !.pc = pc]
      <3>1. PICK verdict : GateCandidate(verdict)
        BY <1>6
      <3> DEFINE k == Min(Ungated)
                 pc == IF Ungated = {k} THEN "judging" ELSE fus.pc
      <3>2. fus' = [fus EXCEPT !.candidates[k].gate = verdict, !.pc = pc] /\ fus.pc = "gating"
        BY <3>1 DEF GateCandidate
      <3>3. pc \in {"gating", "judging"}
        BY <3>2
      <3> HIDE DEF k, pc
      <3>4. QED
        BY <3>2, <3>3
    <2>2. fus'.pc = pc /\ fus'.activations = fus.activations
      BY <1>1, <2>1 DEF IsFus, FusFields
    <2>3. QED
      BY <1>1, <2>1, <2>2 DEF FusionCounts
  <1>7. CASE \E verdict : JudgeRound(verdict)
    <2>1. PICK verdict : JudgeRound(verdict)
      BY <1>7
    <2>2. PICK usage : \E f, outcome : /\ f = [fus EXCEPT !.judge = verdict, !.usage = usage]
                                       /\ fus' \in {Concluded(fus, outcome), Concluded(f, outcome)}
      BY <2>1, Zenon DEF JudgeRound, Escalated
    <2>3. PICK f, outcome : /\ f = [fus EXCEPT !.judge = verdict, !.usage = usage]
                            /\ fus' \in {Concluded(fus, outcome), Concluded(f, outcome)}
      BY <2>2
    <2>4. IsFus(f) /\ f.activations = fus.activations
      BY <1>1, <2>3 DEF IsFus, FusFields
    <2>5. fus'.pc = "done" /\ fus'.activations = fus.activations
      <3>1. CASE fus' = Concluded(fus, outcome)
        BY <1>1, <1>2, <3>1
      <3>2. CASE fus' = Concluded(f, outcome)
        BY <1>2, <2>4, <3>2
      <3>3. QED
        BY <2>3, <3>1, <3>2
    <2>6. QED
      BY <1>1, <2>5 DEF FusionCounts
  <1>8. QED
    BY <1>3, <1>4, <1>5, <1>6, <1>7

\* Full buckets and no request yet.
LEMMA CountsStart == FusionInit => FusionCounts
  <1> SUFFICES ASSUME FusionInit PROVE FusionCounts
    OBVIOUS
  <1>1. fus.pc = "idle" /\ fus.activations = 0 /\ tokens = Buckets
    BY DEF FusionInit
  <1>2. QED
    BY <1>1, FusionAssumption DEF FusionCounts

\* Every step keeps a panel within its requests and a bucket within its capacity (ratelimit.ts:28-54).
LEMMA CountsStep == FusionInv /\ FusionCounts /\ [FusionNext]_fusionVars => FusionCounts'
  <1> SUFFICES ASSUME FusionInv, FusionCounts, [FusionNext]_fusionVars PROVE FusionCounts'
    OBVIOUS
  <1>1. CASE PlannerFusion \/ Deliberate \/ DepthExceeded
    BY <1>1, StartCounts
  <1>2. CASE CollectPanel \/ GateThrows \/ TakeOutcome
    BY <1>2, PlaceCounts
  <1>3. CASE \E w \in DOMAIN fus.worker : TakeItem(w) \/ tryTake(w) \/ \E answer \in PanelAnswers : AnswerItem(w, answer)
    BY <1>3, TokenCounts
  <1>4. CASE \E a \in DOMAIN Buckets : Refill(a)
    BY <1>4, TokenCounts
  <1>5. CASE \E verdict \in {"pass", "fail"} : GateCandidate(verdict)
    BY <1>5, PlaceCounts
  <1>6. CASE \E verdict \in {"valid", "invalid", "unavailable", "invalid_response"} : JudgeRound(verdict)
    BY <1>6, PlaceCounts
  <1>7. CASE UNCHANGED fusionVars
    BY <1>7 DEF fusionVars, FusionCounts
  <1>8. QED
    BY <1>1, <1>2, <1>3, <1>4, <1>5, <1>6, <1>7 DEF FusionNext

\* The counts are the types of a panel.
LEMMA FusionTyped == FusionCounts => FusionTypeOK
  BY FusionAssumption DEF FusionCounts, FusionTypeOK

\* The invariant implies the property: the sends in flight are among the workers.
LEMMA FusionInvEarned == FusionInv => FusionIsEarned
  <1> SUFFICES ASSUME FusionInv PROVE FusionIsEarned
    OBVIOUS
  <1>1. Cardinality(InFlight) <= fus.width
    <2>1. InFlight \subseteq 1..fus.width /\ fus.width \in Nat
      BY DEF InFlight, FusionInv, PanelFits
    <2>2. PICK n \in Nat : n = fus.width
      BY <2>1
    <2>3. IsFiniteSet(1..n) /\ Cardinality(1..n) = n
      <3>1. 1 \in Int /\ n \in Int /\ (IF 1 > n THEN 0 ELSE n - 1 + 1) = n
        OBVIOUS
      <3>2. QED
        BY <3>1, FS_Interval
    <2>4. QED
      BY <2>1, <2>2, <2>3, FS_Subset
  <1>2. PanelIsBounded
    BY <1>1 DEF PanelIsBounded, FusionInv, PanelFits
  <1>3. ASSUME NEW k \in DOMAIN fus.candidates PROVE fus.candidates[k].from = fus.slots[k]
    <2>1. PICK c : c = fus.candidates[k] /\ c = [from |-> fus.slots[k], answer |-> c.answer, gate |-> c.gate]
      BY DEF FusionInv, AnswersAreTheirs
    <2>2. c.from = fus.slots[k]
      BY <2>1
    <2>3. QED
      BY <2>1, <2>2
  <1>4. QED
    BY <1>2, <1>3 DEF FusionIsEarned, FusionInv, WinnersAreEarned

\* A panel stays within ceiling and cap, a candidate is its slot's answer, and a winner
\* has two candidates behind it and was measured or judged (run.ts:158-368, resolve.ts).
THEOREM WinnersEarned == FusionSpec => []FusionIsEarned
  <1>1. FusionInv /\ [FusionNext]_fusionVars => FusionInv'
    BY FusionStep
  <1>2. QED
    BY <1>1, FusionStarts, FusionInvEarned, PTL DEF FusionSpec

-------------------------------------------------------------------------------
(* What a round of the proposal source sends and offers.                       *)
\* The fields of a round.
RoundFields == {"pc", "input", "tree", "evictions", "drainBudget", "pieces", "eligible", "failed",
                "rerouted", "chosen", "repairs", "sends"}
IsRound(r) == DOMAIN r = RoundFields /\ r = [x \in RoundFields |-> r[x]]
RoundShape ==
    /\ round.pc \in ProposeInputs \cup {"idle"}
    /\ round.pc \in ProposeInputs => IsRound(round) /\ round.tree \in Worktrees

\* No file of the pieces holds a secret.
NoSecrets(pieces, tree) == \A p \in BundlePaths(pieces) : tree[p] = "plain"

\* A send is allowed by the policy of its adapter, and holds no file with a secret.
SendIsCovered(s, tree) == checkDataPolicy(s.pieces, DataPolicies[s.adapter]) /\ NoSecrets(s.pieces, tree)
SendsAreCovered(sends, tree) ==
    /\ Len(sends) \in 0..2 /\ DOMAIN sends = 1..Len(sends) /\ \E S : sends \in Seq(S)
    /\ \A i \in DOMAIN sends : SendIsCovered(sends[i], tree)
    /\ \A i, j \in DOMAIN sends : i # j => sends[i].adapter # sends[j].adapter

\* How many sends there were at each place of a round, and that the next one goes elsewhere.
RoundIsCovered ==
    /\ round.pc \in {"routing", "sending", "awaiting"} => NoSecrets(round.pieces, round.tree)
    /\ round.pc \in ProposeInputs => SendsAreCovered(round.sends, round.tree)
    /\ round.pc \in {"building", "routing"} =>
          /\ round.sends = <<>> /\ round.failed = {} /\ ~round.rerouted /\ offers = NoOffer
    /\ round.pc = "sending" =>
          /\ Len(round.sends) = IF round.rerouted THEN 1 ELSE 0
          /\ \A i \in DOMAIN round.sends : round.sends[i].adapter # round.chosen
    /\ round.pc = "awaiting" =>
          /\ Len(round.sends) = IF round.rerouted THEN 2 ELSE 1
          /\ round.sends[Len(round.sends)].adapter = round.chosen

\* What was offered to the loop.
OfferIsCovered ==
    /\ SendsAreCovered(offers.sends, offers.tree)
    /\ \A a \in ToSet(offers.actions) :
          (a.type = "WRITE_FILE" /\ worktreeEntryExists(offers.tree, a.path)) => a.path \in offers.covered

SourceInv == RoundShape /\ RoundIsCovered /\ OfferIsCovered

\* A sequence that is extended.
LEMMA OneMoreSend ==
    ASSUME NEW S, NEW s \in Seq(S), NEW e
    PROVE  LET t == Append(s, e)
           IN  /\ t \in Seq(S \cup {e}) /\ Len(t) = Len(s) + 1 /\ DOMAIN t = 1..(Len(s) + 1)
               /\ t[Len(s) + 1] = e /\ \A i \in 1..Len(s) : t[i] = s[i]
  <1>1. s \in Seq(S \cup {e}) /\ e \in S \cup {e}
    OBVIOUS
  <1>2. QED
    BY <1>1, AppendProperties

\* A bundle has files without a secret only.
LEMMA BundleIsPlain ==
    ASSUME NEW tree \in Worktrees, NEW seeds, NEW lessons, NEW plan
    PROVE  NoSecrets(buildContext(tree, seeds, lessons, plan).pieces, tree)
  <1> DEFINE found == Collect(tree, seeds)
             pieces == buildContext(tree, seeds, lessons, plan).pieces
  <1>1. ASSUME NEW p \in BundlePaths(pieces) PROVE p \in found.collected /\ tree[p] # "secret"
    BY <1>1 DEF BundlePaths, buildContext, InlinePieces, Piece, Inline
  <1>2. ASSUME NEW p \in found.collected PROVE p \in PathSet /\ tree[p] \in {"plain", "secret"}
    <2>1. p \in PathSet /\ readWithinWorktree(tree, p) = "content"
      BY <1>2 DEF Collect, Readable
    <2>2. tree[p] \in PathContents
      BY <2>1, ProposalAssumption
    <2>3. QED
      BY <2>1, <2>2 DEF readWithinWorktree, PathContents, Normalises
  <1>3. QED
    BY <1>1, <1>2 DEF NoSecrets

\* propose() returns: the sends are those of the round, the worktree is its worktree.
LEMMA ReturnKeepsInv ==
    ASSUME SourceInv, round.pc \in ProposeInputs, NEW claim, NEW actions,
           ProposeReturns(claim, actions),
           \A a \in ToSet(actions) :
              (a.type = "WRITE_FILE" /\ worktreeEntryExists(round.tree, a.path)) =>
                 a.path \in BundlePaths(round.pieces) \cup ToSet(src.asked)
    PROVE  SourceInv'
  <1>1. /\ offers'.actions = actions /\ offers'.tree = round.tree /\ offers'.sends = round.sends
        /\ offers'.covered = BundlePaths(round.pieces) \cup ToSet(src.asked)
        /\ round'.pc = "idle"
    BY DEF ProposeReturns, NoRound
  <1>2. OfferIsCovered'
    BY <1>1 DEF OfferIsCovered, SourceInv, RoundIsCovered
  <1>3. RoundShape' /\ RoundIsCovered'
    BY <1>1 DEF RoundShape, RoundIsCovered, ProposeInputs
  <1>4. QED
    BY <1>2, <1>3 DEF SourceInv

\* A return without actions.
LEMMA NothingKeepsInv ==
    ASSUME SourceInv, round.pc \in ProposeInputs, NEW claim, ProposeReturns(claim, <<>>)
    PROVE  SourceInv'
  <1>1. ToSet(<<>>) = {}
    BY DEF ToSet
  <1>2. QED
    BY <1>1, ReturnKeepsInv

\* A step of somebody else, or one that only changes what the invariant does not speak of.
LEMMA SourceQuietKeeps ==
    ASSUME SourceInv, round' = round, offers' = offers
    PROVE  SourceInv'
  BY DEF SourceInv, RoundShape, RoundIsCovered, OfferIsCovered

\* A round begins without sends, on one of the worktrees.
LEMMA ProposeKeepsInv == SourceInv /\ Propose => SourceInv'
  <1> SUFFICES ASSUME SourceInv, Propose PROVE SourceInv'
    OBVIOUS
  <1>1. PICK input \in RoundInputs, tree \in Worktrees :
          round' = [pc |-> "building", input |-> input, tree |-> tree, evictions |-> 0,
                    drainBudget |-> Len(accumulatedSeedPaths(src)), pieces |-> {}, eligible |-> <<>>, failed |-> {},
                    rerouted |-> FALSE, chosen |-> "none", repairs |-> 0, sends |-> <<>>]
    BY DEF Propose
  <1>2. /\ IsRound(round') /\ round'.pc = "building" /\ round'.tree = tree /\ round'.sends = <<>>
        /\ round'.failed = {} /\ ~round'.rerouted
    BY <1>1 DEF IsRound, RoundFields
  <1>3. offers' = NoOffer
    BY DEF Propose
  <1>4. \A t : SendsAreCovered(<<>>, t)
    BY DEF SendsAreCovered
  <1>5. RoundShape'
    BY <1>2 DEF RoundShape, ProposeInputs
  <1>6. RoundIsCovered'
    BY <1>2, <1>3, <1>4 DEF RoundIsCovered, ProposeInputs
  <1>7. OfferIsCovered'
    BY <1>3, <1>4 DEF OfferIsCovered, NoOffer, ToSet
  <1>8. QED
    BY <1>5, <1>6, <1>7 DEF SourceInv

\* Eviction, and a secret that cannot be evicted.
LEMMA BuildingKeepsInv == SourceInv /\ (EvictAndRetry \/ SecretInContext \/ BundleBuilt) => SourceInv'
  <1> SUFFICES ASSUME SourceInv, EvictAndRetry \/ SecretInContext \/ BundleBuilt PROVE SourceInv'
    OBVIOUS
  <1>1. round.pc = "building" /\ IsRound(round) /\ round.tree \in Worktrees
    BY DEF EvictAndRetry, SecretInContext, BundleBuilt, SourceInv, RoundShape, ProposeInputs
  <1>2. CASE SecretInContext
    BY <1>1, <1>2, NothingKeepsInv DEF SecretInContext, ProposeInputs
  <1>3. CASE EvictAndRetry
    <2>1. round' = [round EXCEPT !.evictions = @ + 1] /\ offers' = offers
      BY <1>3 DEF EvictAndRetry
    <2>2. IsRound(round') /\ \A x \in RoundFields \ {"evictions"} : round'[x] = round[x]
      BY <1>1, <2>1 DEF IsRound, RoundFields
    <2>3. /\ round'.pc = "building" /\ round'.tree = round.tree /\ round'.sends = round.sends
          /\ round'.failed = round.failed /\ round'.rerouted = round.rerouted
      BY <1>1, <2>2 DEF RoundFields
    <2>4. QED
      BY <1>1, <2>1, <2>2, <2>3 DEF SourceInv, RoundShape, RoundIsCovered, OfferIsCovered, ProposeInputs
  <1>4. CASE BundleBuilt
    <2> DEFINE pieces == buildContext(round.tree, SeedList(src), Lessons, src.plan).pieces
    <2>1. round' = [round EXCEPT !.pc = "routing", !.pieces = pieces] /\ offers' = offers
      BY <1>4 DEF BundleBuilt
    <2>2. NoSecrets(pieces, round.tree)
      BY <1>1, BundleIsPlain
    <2> HIDE DEF pieces
    <2>3. /\ IsRound(round') /\ \A x \in RoundFields \ {"pc", "pieces"} : round'[x] = round[x]
          /\ round'.pc = "routing" /\ round'.pieces = pieces
      BY <1>1, <2>1 DEF IsRound, RoundFields
    <2>4. /\ round'.tree = round.tree /\ round'.sends = round.sends
          /\ round'.failed = round.failed /\ round'.rerouted = round.rerouted
      BY <2>3 DEF RoundFields
    <2>5. QED
      BY <1>1, <2>1, <2>2, <2>3, <2>4 DEF SourceInv, RoundShape, RoundIsCovered, OfferIsCovered, ProposeInputs
  <1>5. QED
    BY <1>2, <1>3, <1>4

\* Feedback is a piece without a path.
LEMMA FeedbackIsPlain ==
    ASSUME NEW pieces, NEW tree, NoSecrets(pieces, tree), NEW input
    PROVE  NoSecrets(pieces \cup Feedback(input), tree)
  <1>1. BundlePaths(pieces \cup Feedback(input)) \subseteq BundlePaths(pieces)
    BY DEF BundlePaths, Feedback, Piece
  <1>2. QED
    BY <1>1 DEF NoSecrets

\* A route is taken, or there is none, or the intent is refused by the fence.
LEMMA RouteKeepsInv == SourceInv /\ Route => SourceInv'
  <1> SUFFICES ASSUME SourceInv, Route PROVE SourceInv'
    OBVIOUS
  <1>1. round.pc = "routing" /\ IsRound(round) /\ round.tree \in Worktrees
    BY DEF Route, SourceInv, RoundShape, ProposeInputs
  <1>2. \/ ProposeReturns("BLOCKED", <<>>)
        \/ round' = NoRound /\ offers' = offers
        \/ /\ \E list : round' = [round EXCEPT !.pc = "sending", !.eligible = list, !.chosen = list[1],
                                               !.pieces = @ \cup Feedback(round.input)]
           /\ offers' = offers
    <2>1. PICK report \in [Probed(pool) -> HealthReports],
               explore \in IF src.config.epsilon > 0 THEN BOOLEAN ELSE {FALSE} :
            LET fresh == Looked(RefreshHealth(pool, report))
                hints == RouteHints(round.input, round.pieces, src.config)
                stats == computeShadowOutcomeStats(src.routes, src.reviewing)
                list  == Ordered(fresh, round.input.role, hints, src.config.mode, stats, explore)
            IN  \/ /\ list = <<>>
                   /\ ProposeReturns("BLOCKED", <<>>)
                \/ /\ list # <<>>
                   /\ IF src.lost
                      THEN /\ round' = NoRound
                           /\ UNCHANGED offers
                      ELSE /\ round' = [round EXCEPT !.pc = "sending", !.eligible = list,
                                           !.chosen = list[1],
                                           !.pieces = @ \cup Feedback(round.input)]
                           /\ UNCHANGED offers
      BY DEF Route
    <2> DEFINE fresh == Looked(RefreshHealth(pool, report))
               hints == RouteHints(round.input, round.pieces, src.config)
               stats == computeShadowOutcomeStats(src.routes, src.reviewing)
               list  == Ordered(fresh, round.input.role, hints, src.config.mode, stats, explore)
    <2>2. \/ ProposeReturns("BLOCKED", <<>>)
          \/ IF src.lost THEN round' = NoRound /\ UNCHANGED offers
             ELSE /\ round' = [round EXCEPT !.pc = "sending", !.eligible = list, !.chosen = list[1],
                                            !.pieces = @ \cup Feedback(round.input)]
                  /\ UNCHANGED offers
      BY <2>1
    <2> HIDE DEF list
    <2>3. QED
      BY <2>2
  <1>3. CASE ProposeReturns("BLOCKED", <<>>)
    BY <1>1, <1>3, NothingKeepsInv DEF ProposeInputs
  <1>4. CASE round' = NoRound /\ offers' = offers
    BY <1>4 DEF NoRound, SourceInv, RoundShape, RoundIsCovered, OfferIsCovered, ProposeInputs
  <1>5. CASE /\ \E list : round' = [round EXCEPT !.pc = "sending", !.eligible = list, !.chosen = list[1],
                                                 !.pieces = @ \cup Feedback(round.input)]
             /\ offers' = offers
    <2> DEFINE pieces == round.pieces \cup Feedback(round.input)
    <2>1. PICK list : round' = [round EXCEPT !.pc = "sending", !.eligible = list, !.chosen = list[1],
                                             !.pieces = pieces]
      BY <1>5
    <2>2. NoSecrets(pieces, round.tree)
      BY <1>1, FeedbackIsPlain DEF SourceInv, RoundIsCovered
    <2> HIDE DEF pieces
    <2>3. /\ IsRound(round') /\ \A x \in RoundFields \ {"pc", "pieces", "eligible", "chosen"} : round'[x] = round[x]
          /\ round'.pc = "sending" /\ round'.pieces = pieces
      BY <1>1, <2>1 DEF IsRound, RoundFields
    <2>4. /\ round'.tree = round.tree /\ round'.sends = round.sends
          /\ round'.failed = round.failed /\ round'.rerouted = round.rerouted
      BY <2>3 DEF RoundFields
    <2>5. round.sends = <<>> /\ ~round.rerouted
      BY <1>1 DEF SourceInv, RoundIsCovered
    <2>6. RoundIsCovered'
      BY <1>1, <2>2, <2>3, <2>4, <2>5 DEF SourceInv, RoundIsCovered, ProposeInputs
    <2>7. QED
      BY <1>1, <1>5, <2>3, <2>4, <2>6 DEF SourceInv, RoundShape, OfferIsCovered, ProposeInputs
  <1>6. QED
    BY Zenon, <1>2, <1>3, <1>4, <1>5

\* What leaves was checked against the policy of the adapter it goes to.
LEMMA SendKeepsInv == SourceInv /\ Send => SourceInv'
  <1> SUFFICES ASSUME SourceInv, Send PROVE SourceInv'
    OBVIOUS
  <1> DEFINE sent == [adapter |-> round.chosen, pieces |-> round.pieces]
             sends == Append(round.sends, sent)
  <1>1. /\ round.pc = "sending" /\ IsRound(round) /\ round.tree \in Worktrees
        /\ checkDataPolicy(round.pieces, DataPolicies[round.chosen]) /\ offers' = offers
    BY DEF Send, SourceInv, RoundShape, ProposeInputs
  <1>2. round' = [round EXCEPT !.pc = "awaiting", !.repairs = 0, !.sends = sends]
    BY DEF Send, SendTo
  <1>3. /\ SendsAreCovered(round.sends, round.tree) /\ NoSecrets(round.pieces, round.tree)
        /\ Len(round.sends) = IF round.rerouted THEN 1 ELSE 0
        /\ \A i \in DOMAIN round.sends : round.sends[i].adapter # round.chosen
    BY <1>1 DEF SourceInv, RoundIsCovered, ProposeInputs
  <1>4. SendIsCovered(sent, round.tree)
    BY <1>1, <1>3 DEF SendIsCovered
  <1>5. PICK S : round.sends \in Seq(S)
    BY <1>3 DEF SendsAreCovered
  <1>6. sent.adapter = round.chosen
    OBVIOUS
  <1> HIDE DEF sent
  <1>7. /\ sends \in Seq(S \cup {sent}) /\ Len(sends) = Len(round.sends) + 1
        /\ DOMAIN sends = 1..(Len(round.sends) + 1) /\ sends[Len(round.sends) + 1] = sent
        /\ \A i \in 1..Len(round.sends) : sends[i] = round.sends[i]
    BY <1>5, OneMoreSend
  <1> HIDE DEF sends
  <1>8. SendsAreCovered(sends, round.tree)
    <2>1. Len(round.sends) \in 0..1 /\ DOMAIN round.sends = 1..Len(round.sends)
      BY <1>3 DEF SendsAreCovered
    <2>2. Len(sends) \in 0..2 /\ DOMAIN sends = 1..Len(sends)
      BY <1>7, <2>1
    <2>3. ASSUME NEW i \in DOMAIN sends PROVE SendIsCovered(sends[i], round.tree)
      BY <1>3, <1>4, <1>7, <2>1 DEF SendsAreCovered
    <2>4. ASSUME NEW i \in DOMAIN sends, NEW j \in DOMAIN sends, i # j PROVE sends[i].adapter # sends[j].adapter
      <3>1. sends[1] = sent \/ (sends[1] = round.sends[1] /\ sends[2] = sent /\ 1 \in DOMAIN round.sends)
        BY <1>7, <2>1, <2>4
      <3>2. i \in {1, 2} /\ j \in {1, 2} /\ 1 \in DOMAIN round.sends
        BY <1>7, <2>1, <2>4
      <3>3. sends[1] = round.sends[1] /\ sends[2] = sent
        BY <1>7, <2>1, <3>2
      <3>4. sends[1].adapter # sends[2].adapter
        BY <1>3, <1>6, <3>2, <3>3
      <3>5. QED
        BY <2>4, <3>2, <3>4
    <2>5. QED
      BY <1>7, <2>2, <2>3, <2>4 DEF SendsAreCovered
  <1>9. /\ IsRound(round') /\ \A x \in RoundFields \ {"pc", "repairs", "sends"} : round'[x] = round[x]
        /\ round'.pc = "awaiting" /\ round'.sends = sends
    BY <1>1, <1>2 DEF IsRound, RoundFields
  <1>10. /\ round'.tree = round.tree /\ round'.pieces = round.pieces /\ round'.chosen = round.chosen
         /\ round'.failed = round.failed /\ round'.rerouted = round.rerouted
    BY <1>9 DEF RoundFields
  <1>11. RoundIsCovered'
    <2>1. Len(sends) = (IF round.rerouted THEN 2 ELSE 1) /\ sends[Len(sends)].adapter = round.chosen
      BY <1>3, <1>6, <1>7
    <2>2. QED
      BY <1>3, <1>8, <1>9, <1>10, <2>1 DEF RoundIsCovered, ProposeInputs
  <1>12. QED
    BY <1>1, <1>9, <1>10, <1>11 DEF SourceInv, RoundShape, OfferIsCovered, ProposeInputs

\* Steps that give the round up: the policy forbids the send, the usage or the repairs do not
\* do, or the answer proposes nothing.
LEMMA GivingUpKeepsInv ==
    SourceInv /\ (DataPolicyViolation \/ InvalidUsage \/ RepairExhausted \/ NoActionAnswer) => SourceInv'
  <1> SUFFICES ASSUME SourceInv, DataPolicyViolation \/ InvalidUsage \/ RepairExhausted \/ NoActionAnswer
               PROVE  SourceInv'
    OBVIOUS
  <1>1. round.pc \in {"sending", "awaiting"} /\ \E claim : ProposeReturns(claim, <<>>)
    BY DEF DataPolicyViolation, InvalidUsage, RepairExhausted, NoActionAnswer
  <1>2. QED
    BY <1>1, NothingKeepsInv DEF ProposeInputs

\* The first failure re-routes, to an adapter that has not failed.
LEMMA FailureKeepsInv == SourceInv /\ AdapterFails => SourceInv'
  <1> SUFFICES ASSUME SourceInv, AdapterFails PROVE SourceInv'
    OBVIOUS
  <1> DEFINE failed == round.failed \cup {round.chosen}
  <1>1. round.pc = "awaiting" /\ IsRound(round) /\ round.tree \in Worktrees
    BY DEF AdapterFails, SourceInv, RoundShape, ProposeInputs
  <1>2. \/ ProposeReturns("BLOCKED", <<>>)
        \/ /\ ~round.rerouted /\ offers' = offers
           /\ \E i \in DOMAIN round.eligible :
                 /\ round.eligible[i] \notin failed
                 /\ round' = [round EXCEPT !.pc = "sending", !.failed = failed, !.rerouted = TRUE,
                                           !.chosen = round.eligible[i]]
    BY DEF AdapterFails
  <1>3. CASE ProposeReturns("BLOCKED", <<>>)
    BY <1>1, <1>3, NothingKeepsInv DEF ProposeInputs
  <1>4. CASE /\ ~round.rerouted /\ offers' = offers
             /\ \E i \in DOMAIN round.eligible :
                   /\ round.eligible[i] \notin failed
                   /\ round' = [round EXCEPT !.pc = "sending", !.failed = failed, !.rerouted = TRUE,
                                             !.chosen = round.eligible[i]]
    <2>1. PICK next : /\ next \notin failed
                      /\ round' = [round EXCEPT !.pc = "sending", !.failed = failed, !.rerouted = TRUE, !.chosen = next]
      BY <1>4
    <2>2. next # round.chosen
      BY <2>1
    <2> HIDE DEF failed
    <2>3. /\ IsRound(round') /\ \A x \in RoundFields \ {"pc", "failed", "rerouted", "chosen"} : round'[x] = round[x]
          /\ round'.pc = "sending" /\ round'.rerouted = TRUE /\ round'.chosen = next
      BY <1>1, <2>1 DEF IsRound, RoundFields
    <2>4. round'.tree = round.tree /\ round'.sends = round.sends /\ round'.pieces = round.pieces
      BY <2>3 DEF RoundFields
    <2>5. /\ SendsAreCovered(round.sends, round.tree) /\ NoSecrets(round.pieces, round.tree)
          /\ Len(round.sends) = 1 /\ round.sends[1].adapter = round.chosen /\ DOMAIN round.sends = 1..1
      BY <1>1, <1>4 DEF SourceInv, RoundIsCovered, ProposeInputs, SendsAreCovered
    <2>6. RoundIsCovered'
      BY <2>2, <2>3, <2>4, <2>5 DEF RoundIsCovered, ProposeInputs
    <2>7. QED
      BY <1>1, <1>4, <2>3, <2>4, <2>6 DEF SourceInv, RoundShape, OfferIsCovered, ProposeInputs
  <1>5. QED
    BY <1>2, <1>3, <1>4

\* The same adapter is asked again: no new send of a bundle.
LEMMA RepairKeepsInv == SourceInv /\ Repair => SourceInv'
  <1> SUFFICES ASSUME SourceInv, Repair PROVE SourceInv'
    OBVIOUS
  <1>1. round.pc = "awaiting" /\ IsRound(round) /\ round.tree \in Worktrees
    BY DEF Repair, SourceInv, RoundShape, ProposeInputs
  <1>2. round' = [round EXCEPT !.repairs = @ + 1] /\ offers' = offers
    BY DEF Repair
  <1>3. IsRound(round') /\ \A x \in RoundFields \ {"repairs"} : round'[x] = round[x]
    BY <1>1, <1>2 DEF IsRound, RoundFields
  <1>4. /\ round'.tree = round.tree /\ round'.pieces = round.pieces /\ round'.chosen = round.chosen
        /\ round'.sends = round.sends /\ round'.rerouted = round.rerouted /\ round'.pc = "awaiting"
    BY <1>1, <1>3 DEF RoundFields
  <1>5. RoundIsCovered'
    BY <1>1, <1>4 DEF SourceInv, RoundIsCovered, ProposeInputs
  <1>6. QED
    BY <1>1, <1>2, <1>3, <1>4, <1>5 DEF SourceInv, RoundShape, OfferIsCovered

\* An answer whose actions overwrite only what they may, or one that is dropped.
LEMMA SourceAnswerKeeps == SourceInv /\ Answer => SourceInv'
  <1> SUFFICES ASSUME SourceInv, Answer PROVE SourceInv'
    OBVIOUS
  <1>1. round.pc = "awaiting"
    BY DEF Answer
  <1>2. PICK a \in SendAnswers : IF ContextViolations(a.actions) = {} THEN ProposeReturns(a.claim, a.actions)
                                 ELSE ProposeReturns("WORKING", <<>>)
    BY DEF Answer
  <1>3. CASE ContextViolations(a.actions) = {}
    <2>1. ASSUME NEW b \in ToSet(a.actions), b.type = "WRITE_FILE", worktreeEntryExists(round.tree, b.path)
          PROVE  b.path \in BundlePaths(round.pieces) \cup ToSet(src.asked)
      BY <1>3, <2>1 DEF ContextViolations, Allowed
    <2>2. QED
      BY <1>1, <1>2, <1>3, <2>1, ReturnKeepsInv DEF ProposeInputs
  <1>4. CASE ContextViolations(a.actions) # {}
    BY <1>1, <1>2, <1>4, NothingKeepsInv DEF ProposeInputs
  <1>5. QED
    BY <1>3, <1>4

\* Every step of a round, and of those around it, keeps the invariant (source.ts:175-607).
THEOREM SourceStep == SourceInv /\ [ProposalNext]_sourceVars => SourceInv'
  <1> SUFFICES ASSUME SourceInv, [ProposalNext]_sourceVars PROVE SourceInv'
    OBVIOUS
  <1>1. CASE Propose
    BY <1>1, ProposeKeepsInv
  <1>2. CASE EvictAndRetry \/ SecretInContext \/ BundleBuilt
    BY <1>2, BuildingKeepsInv
  <1>3. CASE Route
    BY <1>3, RouteKeepsInv
  <1>4. CASE Send
    BY <1>4, SendKeepsInv
  <1>5. CASE AdapterFails
    BY <1>5, FailureKeepsInv
  <1>6. CASE Repair
    BY <1>6, RepairKeepsInv
  <1>7. CASE Answer
    BY <1>7, SourceAnswerKeeps
  <1>8. CASE DataPolicyViolation \/ InvalidUsage \/ RepairExhausted \/ NoActionAnswer
    BY <1>8, GivingUpKeepsInv
  <1>9. CASE Cooldown \/ LeaseLost \/ Reviewed \/ DriftCanary \/ UNCHANGED sourceVars
    <2>1. round' = round /\ offers' = offers
      BY <1>9 DEF Cooldown, LeaseLost, Reviewed, DriftCanary, sourceVars
    <2>2. QED
      BY <2>1, SourceQuietKeeps
  <1>10. QED
    BY <1>1, <1>2, <1>3, <1>4, <1>5, <1>6, <1>7, <1>8, <1>9 DEF ProposalNext

\* No round, and nothing offered.
LEMMA SourceStarts == ProposalInit => SourceInv
  <1> SUFFICES ASSUME ProposalInit PROVE SourceInv
    OBVIOUS
  <1>1. round.pc = "idle" /\ offers.sends = <<>> /\ offers.actions = <<>>
    BY DEF ProposalInit, NoRound, NoOffer
  <1>2. QED
    BY <1>1 DEF SourceInv, RoundShape, RoundIsCovered, OfferIsCovered, SendsAreCovered, ProposeInputs, ToSet

\* The sends of the latest round are those of the round, or of the offer.
LEMMA SourceInvCovers == SourceInv => ProposalsAreCovered
  <1> SUFFICES ASSUME SourceInv PROVE ProposalsAreCovered
    OBVIOUS
  <1>1. SendsAreCovered(LatestSends, LatestTree)
    BY DEF SourceInv, RoundIsCovered, OfferIsCovered, LatestSends, LatestTree, ProposeInputs
  <1>2. Len(LatestSends) <= 2
    BY <1>1 DEF SendsAreCovered
  <1>3. ASSUME NEW i \in DOMAIN LatestSends
        PROVE  LET s == LatestSends[i]
               IN  /\ \A p \in s.pieces : IF p.path = Inline THEN p.kind \in DataPolicies[s.adapter].pathlessKinds
                                          ELSE p.path \in DataPolicies[s.adapter].allowPaths
                   /\ \A p \in BundlePaths(s.pieces) : LatestTree[p] = "plain"
                   /\ \A j \in DOMAIN LatestSends : j # i => LatestSends[j].adapter # s.adapter
    BY <1>1 DEF SendsAreCovered, SendIsCovered, checkDataPolicy, NoSecrets
  <1>4. QED
    BY <1>2, <1>3 DEF ProposalsAreCovered, SourceInv, OfferIsCovered

\* What leaves in a round was allowed by the policy of the adapter it went to, without a
\* secret, to two adapters at most, and what is offered overwrites only what was shown or
\* asked for (source.ts:209-600, builder.ts:283-418, data-policy.ts:43-71).
THEOREM RoundsAreCovered == ProposalSpec => []ProposalsAreCovered
  <1>1. SourceInv /\ [ProposalNext]_sourceVars => SourceInv'
    BY SourceStep
  <1>2. QED
    BY <1>1, SourceStarts, SourceInvCovers, PTL DEF ProposalSpec

\* A pool is typed when its entries are, and one entry is changed at a time or all alike.
LEMMA PoolOfEntries ==
    ASSUME NEW p, PoolTypeOK(p), NEW q, NEW entries \in [ToSet(p.order) -> EntryType],
           q = [p EXCEPT !.entry = entries]
    PROVE  PoolTypeOK(q)
  <1>1. q = [order |-> p.order, entry |-> entries]
    BY DEF PoolTypeOK
  <1>2. q.order = p.order /\ q.entry = entries
    BY <1>1
  <1>3. QED
    BY <1>1, <1>2 DEF PoolTypeOK

\* The window of a breaker keeps the newest sends.
LEMMA SlideTyped ==
    ASSUME NEW w \in Seq(BOOLEAN), Len(w) <= WindowSize, NEW ok \in BOOLEAN
    PROVE  Slide(w, ok) \in Seq(BOOLEAN) /\ Len(Slide(w, ok)) <= WindowSize
  <1> DEFINE longer == Append(w, ok)
  <1>1. longer \in Seq(BOOLEAN) /\ Len(longer) = Len(w) + 1 /\ Len(w) \in Nat /\ WindowSize \in Nat \ {0}
    BY AppendProperties, AdapterPoolAssumption
  <1>2. longer # <<>>
    BY <1>1
  <1>3. Tail(longer) \in Seq(BOOLEAN) /\ Len(Tail(longer)) = Len(longer) - 1
    BY <1>1, <1>2, HeadTailProperties
  <1>4. Slide(w, ok) = IF Len(longer) > WindowSize THEN Tail(longer) ELSE longer
    BY DEF Slide
  <1> HIDE DEF longer
  <1>5. CASE Len(longer) > WindowSize
    <2>1. Slide(w, ok) = Tail(longer)
      BY <1>4, <1>5
    <2>2. Len(Tail(longer)) <= WindowSize
      BY <1>1, <1>3
    <2>3. QED
      BY <1>3, <2>1, <2>2
  <1>6. CASE ~(Len(longer) > WindowSize)
    <2>1. Slide(w, ok) = longer
      BY <1>4, <1>6
    <2>2. Len(longer) <= WindowSize
      BY <1>1, <1>6
    <2>3. QED
      BY <1>1, <2>1, <2>2
  <1>7. QED
    BY <1>5, <1>6

\* A breaker stays one when it is looked at, and when a send succeeds or fails (breaker.ts:76-148).
LEMMA BreakerTyped ==
    ASSUME NEW b \in BreakerType
    PROVE  Promote(b) \in BreakerType /\ RecordSuccess(b) \in BreakerType /\ RecordFailure(b) \in BreakerType
  <1> DEFINE Windows == {w \in Seq(BOOLEAN) : Len(w) <= WindowSize}
  <1>1. b.window \in Windows /\ b.status \in {"closed", "open", "half_open"} /\ b.cooled \in BOOLEAN
    BY DEF BreakerType
  <1>2. \A ok \in BOOLEAN : Slide(b.window, ok) \in Windows
    BY <1>1, SlideTyped
  <1>3. <<>> \in Windows
    BY AdapterPoolAssumption
  <1> HIDE DEF Windows
  <1>4. BreakerType = [status : {"closed", "open", "half_open"}, window : Windows, cooled : BOOLEAN]
    BY DEF BreakerType, Windows
  <1>5. \A w \in Windows : [b EXCEPT !.window = w] \in BreakerType
    BY <1>4
  <1>6. ClosedBreaker \in BreakerType /\ OpenBreaker \in BreakerType
    BY <1>3, <1>4 DEF ClosedBreaker, OpenBreaker
  <1>7. Promote(b) \in BreakerType
    BY <1>4 DEF Promote
  <1>8. RecordSuccess(b) \in BreakerType
    BY <1>2, <1>5, <1>6 DEF RecordSuccess
  <1>9. RecordFailure(b) \in BreakerType
    <2>1. CASE b.status = "half_open"
      BY <1>6, <2>1 DEF RecordFailure
    <2>2. CASE b.status = "open"
      BY <2>2 DEF RecordFailure
    <2>3. CASE b.status = "closed"
      <3> DEFINE window == Slide(b.window, FALSE)
      <3>1. RecordFailure(b) = IF TripsOpen(window) THEN OpenBreaker ELSE [b EXCEPT !.window = window]
        BY <2>3 DEF RecordFailure
      <3>2. window \in Windows
        BY <1>2
      <3> HIDE DEF window
      <3>3. QED
        BY <1>5, <1>6, <3>1, <3>2
    <2>4. QED
      BY <1>1, <2>1, <2>2, <2>3
  <1>10. QED
    BY <1>7, <1>8, <1>9

\* Registering an adapter makes a pool of a pool, so the pools a run is composed with are
\* typed (registry.ts: register; AdapterPool assumes it of Registrations).
LEMMA RegisterTyped ==
    ASSUME NEW p, PoolTypeOK(p), NEW a \in Adapters, NEW passes \in BOOLEAN, NEW score \in Int
    PROVE  PoolTypeOK(Register(p, a, passes, score)) /\ PoolTypeOK(EmptyPool)
  <1>1. ClosedBreaker \in BreakerType
    <2>1. <<>> \in Seq(BOOLEAN) /\ Len(<<>>) <= WindowSize
      BY AdapterPoolAssumption
    <2>2. QED
      BY <2>1 DEF ClosedBreaker, BreakerType
  <1>2. Entry(passes, score) \in EntryType
    BY <1>1 DEF Entry, EntryType
  <1>3. ASSUME passes PROVE PoolTypeOK(Register(p, a, passes, score))
    <2> DEFINE order == IF a \in DOMAIN p.entry THEN p.order ELSE Append(p.order, a)
               entry == [b \in DOMAIN p.entry \cup {a} |-> IF b = a THEN Entry(passes, score) ELSE p.entry[b]]
    <2>1. Register(p, a, passes, score) = [order |-> order, entry |-> entry]
      BY <1>3, Zenon DEF Register
    <2>2. p.order \in Seq(Adapters) /\ p.entry \in [ToSet(p.order) -> EntryType]
      BY DEF PoolTypeOK
    <2>3. order \in Seq(Adapters) /\ ToSet(order) = ToSet(p.order) \cup {a}
      <3>1. CASE a \in DOMAIN p.entry
        BY <2>2, <3>1
      <3>2. CASE a \notin DOMAIN p.entry
        <4>1. order = Append(p.order, a)
          BY <3>2
        <4>2. PICK s : s = Append(p.order, a)
          OBVIOUS
        <4>3. /\ s \in Seq(Adapters) /\ Len(s) = Len(p.order) + 1 /\ s[Len(p.order) + 1] = a
              /\ \A i \in 1..Len(p.order) : s[i] = p.order[i]
          BY <2>2, <4>2, AppendProperties
        <4>4. DOMAIN s = 1..(Len(p.order) + 1) /\ DOMAIN p.order = 1..Len(p.order) /\ Len(p.order) \in Nat
          BY <2>2, <4>3
        <4>5. ToSet(s) = ToSet(p.order) \cup {a}
          BY <4>3, <4>4 DEF ToSet
        <4>6. QED
          BY <4>1, <4>2, <4>3, <4>5
      <3>3. QED
        BY <3>1, <3>2
    <2>4. entry \in [ToSet(p.order) \cup {a} -> EntryType]
      BY <1>2, <2>2
    <2> HIDE DEF order, entry
    <2>5. QED
      BY <2>1, <2>3, <2>4 DEF PoolTypeOK
  <1>4. ASSUME ~passes PROVE PoolTypeOK(Register(p, a, passes, score))
    BY <1>4 DEF Register
  <1>5. PoolTypeOK(EmptyPool)
    <2>1. EmptyPool.order = <<>> /\ EmptyPool.entry = <<>> /\ ToSet(<<>>) = {}
      BY DEF EmptyPool, ToSet
    <2>2. <<>> \in [{} -> EntryType]
      OBVIOUS
    <2>3. QED
      BY <2>1, <2>2 DEF PoolTypeOK, EmptyPool
  <1>6. QED
    BY <1>3, <1>4, <1>5

\* One entry's breaker changes.
LEMMA OneBreaker ==
    ASSUME NEW p, PoolTypeOK(p), NEW a, NEW b, b \in BreakerType \/ a \notin DOMAIN p.entry
    PROVE  PoolTypeOK([p EXCEPT !.entry[a].breaker = b])
  <1> DEFINE e == [p.entry EXCEPT ![a].breaker = b]
  <1>1. [p EXCEPT !.entry[a].breaker = b] = [p EXCEPT !.entry = e]
    BY DEF PoolTypeOK
  <1>2. e \in [ToSet(p.order) -> EntryType]
    <2>1. p.entry \in [ToSet(p.order) -> EntryType] /\ DOMAIN p.entry = ToSet(p.order)
      BY DEF PoolTypeOK
    <2>2. ASSUME NEW x \in EntryType, b \in BreakerType PROVE [x EXCEPT !.breaker = b] \in EntryType
      BY <2>2 DEF EntryType
    <2>3. CASE a \in DOMAIN p.entry
      BY <2>1, <2>2, <2>3
    <2>4. CASE a \notin DOMAIN p.entry
      BY <2>1, <2>4
    <2>5. QED
      BY <2>3, <2>4
  <1> HIDE DEF e
  <1>3. QED
    BY <1>1, <1>2, PoolOfEntries

\* A round refreshes the health of the probed adapters and looks at every breaker.
LEMMA RefreshTyped ==
    ASSUME NEW p, PoolTypeOK(p), NEW report \in [Probed(p) -> HealthReports]
    PROVE  PoolTypeOK(Looked(RefreshHealth(p, report)))
  <1> DEFINE e == [a \in DOMAIN p.entry |->
                     IF a \in Probed(p) THEN [p.entry[a] EXCEPT !.health = report[a]] ELSE p.entry[a]]
             q == RefreshHealth(p, report)
  <1>1. q = [p EXCEPT !.entry = e]
    BY DEF RefreshHealth
  <1>2. p.entry \in [ToSet(p.order) -> EntryType] /\ DOMAIN p.entry = ToSet(p.order)
    BY DEF PoolTypeOK
  <1>3. ASSUME NEW x \in EntryType, NEW h \in HealthReports PROVE [x EXCEPT !.health = h] \in EntryType
    BY DEF EntryType
  <1>4. e \in [ToSet(p.order) -> EntryType]
    BY <1>2, <1>3
  <1>5. PoolTypeOK(q)
    <2> HIDE DEF e, q
    <2>1. QED
      BY <1>1, <1>4, PoolOfEntries
  <1> HIDE DEF e, q
  <1> DEFINE f == [a \in DOMAIN q.entry |-> [q.entry[a] EXCEPT !.breaker = Promote(q.entry[a].breaker)]]
  <1>6. Looked(q) = [q EXCEPT !.entry = f]
    BY DEF Looked
  <1>7. q.entry \in [ToSet(q.order) -> EntryType] /\ DOMAIN q.entry = ToSet(q.order)
    BY <1>5 DEF PoolTypeOK
  <1>8. ASSUME NEW x \in EntryType PROVE [x EXCEPT !.breaker = Promote(x.breaker)] \in EntryType
    <2>1. x.breaker \in BreakerType
      BY DEF EntryType
    <2>2. Promote(x.breaker) \in BreakerType
      BY <2>1, BreakerTyped
    <2>3. QED
      BY <2>2 DEF EntryType
  <1>9. f \in [ToSet(q.order) -> EntryType]
    BY <1>7, <1>8
  <1>10. PoolTypeOK(Looked(q))
    <2> HIDE DEF f
    <2>1. QED
      BY <1>5, <1>6, <1>9, PoolOfEntries
  <1>11. QED
    BY <1>10 DEF q

\* What a source holds beside its round.
SourceTypes ==
    /\ PoolTypeOK(pool)
    /\ "evicted" \in DOMAIN src /\ src.evicted \subseteq PathSet
    /\ offers.claim \in {"NONE", "WORKING", "READY_FOR_VERIFICATION", "BLOCKED"}

\* The breaker of the adapter a round asked.
LEMMA AskedBreaker ==
    ASSUME SourceTypes, pool' = Breaker(RecordSuccess) \/ pool' = Breaker(RecordFailure)
    PROVE  PoolTypeOK(pool')
  <1> DEFINE a == round.chosen
  <1>1. PICK b : /\ pool' = [pool EXCEPT !.entry[a].breaker = b]
                 /\ b = RecordSuccess(pool.entry[a].breaker) \/ b = RecordFailure(pool.entry[a].breaker)
    BY DEF Breaker
  <1>2. b \in BreakerType \/ a \notin DOMAIN pool.entry
    <2>1. ASSUME a \in DOMAIN pool.entry PROVE pool.entry[a].breaker \in BreakerType
      BY <2>1 DEF SourceTypes, PoolTypeOK, EntryType
    <2>2. QED
      BY <1>1, <2>1, BreakerTyped
  <1>3. QED
    BY <1>1, <1>2, OneBreaker DEF SourceTypes

\* The first secret of a seed is a path of the worktree.
LEMMA FirstSecretIsPath ==
    ASSUME NEW tree, NEW seeds, SeededSecrets(tree, seeds) # {}
    PROVE  FirstSecret(tree, seeds) \in PathSet
  <1> DEFINE S == SeededSecrets(tree, seeds)
  <1>1. S \subseteq DOMAIN Paths /\ Paths \in Seq(PathSet)
    BY ContextBuilderAssumption DEF SeededSecrets
  <1>2. S \in SUBSET Nat /\ S # {}
    BY <1>1
  <1> HIDE DEF S
  <1>3. \E x \in S : \A y \in S : x <= y
    BY <1>2, HasFirst
  <1>4. Min(S) \in S
    BY <1>3 DEF Min
  <1>5. Paths[Min(S)] \in PathSet
    BY <1>1, <1>4
  <1>6. QED
    BY <1>5 DEF FirstSecret, S

\* A pool of the registry, nothing evicted and nothing offered.
LEMMA SourceTypesStart == ProposalInit => SourceTypes
  BY ProposalAssumption DEF ProposalInit, SourceTypes, NoOffer

\* Every step keeps them: a breaker counts, a health report is cached, a secret is evicted,
\* a proposal is handed over (registry.ts, breaker.ts, source.ts:209-600).
LEMMA SourceTypesStep == SourceTypes /\ [ProposalNext]_sourceVars => SourceTypes'
  <1> SUFFICES ASSUME SourceTypes, [ProposalNext]_sourceVars PROVE SourceTypes'
    OBVIOUS
  <1>1. CASE Propose
    BY <1>1 DEF Propose, SourceTypes, NoOffer
  <1>2. CASE EvictAndRetry
    <2>1. PICK secret : /\ SeededSecrets(round.tree, SeedList(src)) # {}
                        /\ secret = FirstSecret(round.tree, SeedList(src))
                        /\ src' = [src EXCEPT !.evicted = @ \cup {secret}]
                        /\ pool' = pool /\ offers' = offers
      BY <1>2 DEF EvictAndRetry
    <2>2. secret \in PathSet
      BY <2>1, FirstSecretIsPath
    <2>3. QED
      BY <2>1, <2>2 DEF SourceTypes
  <1>3. CASE SecretInContext \/ DataPolicyViolation \/ InvalidUsage
    BY <1>3 DEF SecretInContext, DataPolicyViolation, InvalidUsage, ProposeReturns, SourceTypes
  <1>4. CASE BundleBuilt \/ Send \/ Repair \/ UNCHANGED sourceVars
    BY <1>4 DEF BundleBuilt, Send, Repair, sourceVars, SourceTypes
  <1>5. CASE Route
    <2>1. PICK report \in [Probed(pool) -> HealthReports] :
              /\ pool' = Looked(RefreshHealth(pool, report))
              /\ \E routes : src' = [src EXCEPT !.routes = routes]
              /\ offers' = offers \/ offers'.claim = "BLOCKED"
      <3>1. PICK report \in [Probed(pool) -> HealthReports],
                 explore \in IF src.config.epsilon > 0 THEN BOOLEAN ELSE {FALSE} :
              LET fresh == Looked(RefreshHealth(pool, report))
                  hints == RouteHints(round.input, round.pieces, src.config)
                  stats == computeShadowOutcomeStats(src.routes, src.reviewing)
                  list  == Ordered(fresh, round.input.role, hints, src.config.mode, stats, explore)
              IN  /\ pool' = fresh
                  /\ src' = [src EXCEPT !.routes =
                                @ \o ShadowRoute(fresh, list, src.config.mode, stats, src.rounds)]
                  /\ \/ ProposeReturns("BLOCKED", <<>>)
                     \/ IF src.lost THEN UNCHANGED offers ELSE UNCHANGED offers
        BY <1>5, Zenon DEF Route
      <3> DEFINE fresh == Looked(RefreshHealth(pool, report))
                 stats == computeShadowOutcomeStats(src.routes, src.reviewing)
                 list  == Ordered(fresh, round.input.role, RouteHints(round.input, round.pieces, src.config),
                                  src.config.mode, stats, explore)
                 routes == src.routes \o ShadowRoute(fresh, list, src.config.mode, stats, src.rounds)
      <3>2. pool' = fresh /\ src' = [src EXCEPT !.routes = routes]
        BY <3>1
      <3>3. ProposeReturns("BLOCKED", <<>>) \/ offers' = offers
        BY <3>1
      <3>4. offers' = offers \/ offers'.claim = "BLOCKED"
        BY <3>3 DEF ProposeReturns
      <3> HIDE DEF routes
      <3>5. QED
        BY <3>2, <3>4
    <2>2. PoolTypeOK(pool')
      BY <2>1, RefreshTyped DEF SourceTypes
    <2>3. QED
      BY <2>1, <2>2 DEF SourceTypes
  <1>6. CASE AdapterFails
    <2>1. pool' = Breaker(RecordFailure) /\ src' = src
      BY <1>6 DEF AdapterFails
    <2>2. offers' = offers \/ ProposeReturns("BLOCKED", <<>>)
      BY <1>6 DEF AdapterFails
    <2>3. QED
      BY <2>1, <2>2, AskedBreaker DEF ProposeReturns, SourceTypes
  <1>7. CASE RepairExhausted \/ NoActionAnswer
    <2>1. pool' = Breaker(RecordSuccess) /\ src' = src
      BY <1>7 DEF RepairExhausted, NoActionAnswer
    <2>2. offers'.claim \in {"BLOCKED", "WORKING"}
      BY <1>7 DEF RepairExhausted, NoActionAnswer, ProposeReturns
    <2>3. QED
      BY <2>1, <2>2, AskedBreaker DEF SourceTypes
  <1>8. CASE Answer
    <2>1. PICK a \in SendAnswers :
              /\ \E asked : src' = [src EXCEPT !.asked = asked]
              /\ ProposeReturns(a.claim, a.actions) \/ ProposeReturns("WORKING", <<>>)
              /\ pool' = Breaker(RecordSuccess)
      BY <1>8 DEF Answer
    <2>2. offers'.claim = a.claim \/ offers'.claim = "WORKING"
      BY <2>1 DEF ProposeReturns
    <2>3. a.claim \in {"WORKING", "READY_FOR_VERIFICATION", "BLOCKED"}
      BY ProposalAssumption
    <2>4. QED
      BY <2>1, <2>2, <2>3, AskedBreaker DEF SourceTypes
  <1>9. CASE Cooldown
    <2>1. PICK a \in DOMAIN pool.entry : pool' = [pool EXCEPT !.entry[a].breaker.cooled = TRUE]
      BY <1>9 DEF Cooldown
    <2>2. pool.entry[a].breaker \in BreakerType
      BY DEF SourceTypes, PoolTypeOK, EntryType
    <2>3. PICK b : b = [pool.entry[a].breaker EXCEPT !.cooled = TRUE]
      OBVIOUS
    <2>4. b \in BreakerType
      BY <2>2, <2>3 DEF BreakerType
    <2>5. pool' = [pool EXCEPT !.entry[a].breaker = b]
      BY <2>1, <2>3
    <2>6. PoolTypeOK(pool')
      BY <2>4, <2>5, OneBreaker DEF SourceTypes
    <2>7. QED
      BY <1>9, <2>6 DEF Cooldown, SourceTypes
  <1>10. CASE LeaseLost \/ Reviewed
    BY <1>10 DEF LeaseLost, Reviewed, SourceTypes
  <1>11. CASE DriftCanary
    <2>1. PICK a \in DOMAIN pool.entry : pool' = RecordConformance(pool, a, FALSE, 1)
      BY <1>11 DEF DriftCanary
    <2> DEFINE x == [pool.entry[a] EXCEPT !.passes = FALSE, !.score = 1, !.stale = ~FALSE]
               e == [pool.entry EXCEPT ![a] = x]
    <2>2. pool' = [pool EXCEPT !.entry = e]
      BY <2>1 DEF RecordConformance, SourceTypes, PoolTypeOK
    <2>3. x \in EntryType
      <3>1. ASSUME NEW y \in EntryType
            PROVE  [y EXCEPT !.passes = FALSE, !.score = 1, !.stale = ~FALSE] \in EntryType
        <4>1. \A v \in EntryType : [v EXCEPT !.passes = FALSE] \in EntryType
          BY DEF EntryType
        <4>2. \A v \in EntryType : [v EXCEPT !.score = 1] \in EntryType
          BY DEF EntryType
        <4>3. \A v \in EntryType : [v EXCEPT !.stale = ~FALSE] \in EntryType
          BY DEF EntryType
        <4>4. QED
          BY <4>1, <4>2, <4>3
      <3>2. pool.entry[a] \in EntryType
        BY DEF SourceTypes, PoolTypeOK
      <3>3. QED
        BY <3>1, <3>2
    <2>4. e \in [ToSet(pool.order) -> EntryType]
      <3> HIDE DEF x
      <3>1. QED
        BY <2>3 DEF SourceTypes, PoolTypeOK
    <2> HIDE DEF e
    <2>5. PoolTypeOK(pool')
      BY <2>2, <2>4, PoolOfEntries DEF SourceTypes
    <2>6. QED
      BY <1>11, <2>5 DEF DriftCanary, SourceTypes
  <1>12. QED
    BY <1>1, <1>2, <1>3, <1>4, <1>5, <1>6, <1>7, <1>8, <1>9, <1>10, <1>11 DEF ProposalNext

\* With the place of the round they are the types of the source.
LEMMA SourceTyped == SourceInv /\ SourceTypes => ProposalTypeOK
  BY DEF SourceInv, RoundShape, SourceTypes, ProposalTypeOK

-------------------------------------------------------------------------------
(* The sends of a vendor adapter.                                              *)
\* The types.
SendType ==
    [pc : {"idle", "waiting", "capturing"}, control : BOOLEAN, aborted : BOOLEAN,
     reason : {"none", "cancelled", "timed_out"}, timer : BOOLEAN, grace : BOOLEAN]
VendorRunType ==
    [no : Nat, state : {"none", "running", "told", "ended"}, ending : Endings \cup {NoEnding}, late : BOOLEAN]
\* The kinds of the patterns, and the results of a send().
Named == {"cancelled", "timed_out", "context_limited", "unavailable", "quota_limited", "auth_unavailable"}
SendResults == Named \cup {"answer", "transport", "invalid_response", "error", "syntax_error"}
OutcomeType ==
    [result : SendResults, no : Nat, reason : {"none", "cancelled", "timed_out"}, late : BOOLEAN, words : SUBSET STRING]
SendTypes ==
    /\ transport \in {"cli", "codex", "sdk", "http"} /\ sending \in SendType /\ vendorRun \in VendorRunType
    /\ pipesHeld \in BOOLEAN /\ answerFile \in [state : {"absent", "torn", "whole"}, no : Nat]
    /\ adapterMishaps \in Nat

\* A send under way has a run; one that was told to stop has a reason, and what it ends with
\* is an error if it is a request; a child that was told will be killed.
RunFollowsSend ==
    /\ sending.pc # "idle" => vendorRun.state # "none" /\ answerFile.state = "absent"
    /\ sending.pc = "idle" => vendorRun.state = "none"
    /\ sending.pc = "capturing" => ~Spawns /\ ~vendorRun.late
    /\ sending.reason # "none" => vendorRun.state # "running"
    /\ sending.pc # "idle" /\ vendorRun.late => sending.reason # "none"
    /\ sending.pc # "idle" /\ vendorRun.late /\ ~Spawns => ~vendorRun.ending.ok
    /\ vendorRun.state = "running" => ~vendorRun.late
    /\ vendorRun.state \in {"running", "told"} => vendorRun.ending = NoEnding
    /\ vendorRun.state = "told" => vendorRun.late /\ (Spawns => sending.grace)
    /\ sending.pc = "waiting" /\ (sending.control \/ transport # "sdk") =>
          sending.timer \/ vendorRun.state \in {"told", "ended"}

\* The directories left behind by crashes.
Leftover == IF sending.pc = "idle" THEN sandboxes ELSE sandboxes \ {vendorRun.no}
DirectoriesFollow ==
    /\ sandboxes \subseteq 1..vendorRun.no
    /\ Cardinality(Leftover) <= adapterMishaps
    /\ Spawns /\ sending.pc # "idle" => vendorRun.no \in sandboxes

\* An answer is the one in the file.
Filed(o, file, kind) ==
    o.result = "answer" =>
        /\ file.state = "whole" /\ o.no = file.no
        /\ ~o.late /\ (kind \in {"cli", "codex"} => o.reason = "none")
AnswersAreFiled == \A i \in DOMAIN sendOutcomes : Filed(sendOutcomes[i], answerFile, transport)

\* An outcome says why its send was stopped.
Tells(o, kind, reason) ==
    \/ o.result = reason
    \/ kind \notin {"cli", "codex"} /\ ~o.late /\ o.result \in {"answer", "invalid_response", "error"}
Reported(o, kind) ==
    /\ o.reason = "cancelled" => Tells(o, kind, "cancelled")
    /\ o.reason = "timed_out" /\ kind # "cli" =>
          Tells(o, kind, "timed_out") \/ (o.result = "cancelled" /\ "cancelled" \in o.words)
    /\ o.reason = "none" /\ o.result \in {"cancelled", "timed_out"} => o.result \in o.words
Outcomes ==
    /\ sendOutcomes \in Seq(OutcomeType) /\ AnswersAreFiled
    /\ \A i \in DOMAIN sendOutcomes : Reported(sendOutcomes[i], transport)

AdapterInv == SendTypes /\ RunFollowsSend /\ DirectoriesFollow /\ Outcomes

\* The kind of an error is the first pattern that its text matches.
LEMMA FirstPattern ==
    ASSUME NEW words, NEW kind, kind = classifyAdapterError(words)
    PROVE  /\ kind \in Named \cup {"transport"}
           /\ kind \in words \cup {"transport"}
           /\ "cancelled" \in words => kind = "cancelled"
           /\ "timed_out" \in words => kind \in {"cancelled", "timed_out"}
  <1> DEFINE matching == {i \in DOMAIN ErrorKinds : ErrorKinds[i] \in words}
             first == CHOOSE i \in matching : \A j \in matching : i <= j
  <1>1. /\ DOMAIN ErrorKinds = 1..6
        /\ ErrorKinds[1] = "cancelled" /\ ErrorKinds[2] = "timed_out" /\ ErrorKinds[3] = "context_limited"
        /\ ErrorKinds[4] = "unavailable" /\ ErrorKinds[5] = "quota_limited" /\ ErrorKinds[6] = "auth_unavailable"
    BY DEF ErrorKinds
  <1>2. matching \subseteq {1, 2, 3, 4, 5, 6}
    BY <1>1
  <1>3. ASSUME matching # {} PROVE first \in matching /\ \A j \in matching : first <= j
    <2>1. \E i \in matching : \A j \in matching : i <= j
      <3>1. CASE 1 \in matching
        BY <1>2, <3>1
      <3>2. CASE 1 \notin matching /\ 2 \in matching
        BY <1>2, <3>2
      <3>3. CASE 1 \notin matching /\ 2 \notin matching /\ 3 \in matching
        BY <1>2, <3>3
      <3>4. CASE 1 \notin matching /\ 2 \notin matching /\ 3 \notin matching /\ 4 \in matching
        BY <1>2, <3>4
      <3>5. CASE 1 \notin matching /\ 2 \notin matching /\ 3 \notin matching /\ 4 \notin matching /\ 5 \in matching
        BY <1>2, <3>5
      <3>6. CASE matching \subseteq {6}
        BY <1>3, <3>6
      <3>7. QED
        BY <1>2, <3>1, <3>2, <3>3, <3>4, <3>5, <3>6
    <2>2. QED
      BY <2>1
  <1>4. classifyAdapterError(words) = IF matching = {} THEN "transport" ELSE ErrorKinds[first]
    BY DEF classifyAdapterError
  <1>5. /\ matching # {} => ErrorKinds[first] \in words
        /\ "cancelled" \in words => 1 \in matching
        /\ "timed_out" \in words => 2 \in matching
    BY <1>1, <1>3
  <1> HIDE DEF matching, first
  <1>6. CASE matching = {}
    <2>1. kind = "transport"
      BY <1>4, <1>6
    <2>2. "cancelled" \notin words /\ "timed_out" \notin words
      BY <1>5, <1>6
    <2>3. QED
      BY <2>1, <2>2
  <1>7. CASE matching # {}
    <2>1. first \in {1, 2, 3, 4, 5, 6}
      BY <1>2, <1>3, <1>7
    <2>2. ("cancelled" \in words => first = 1) /\ ("timed_out" \in words => first \in {1, 2})
      BY <1>3, <1>5, <1>7, <2>1
    <2>3. kind = ErrorKinds[first] /\ kind \in words
      BY <1>4, <1>5, <1>7
    <2>4. kind \in Named
      BY <1>1, <2>1, <2>3 DEF Named
    <2>5. QED
      BY <1>1, <2>2, <2>3, <2>4
  <1>8. QED
    BY <1>6, <1>7

\* Nothing was said, and no answer was filed unless there was none.
LEMMA NothingSaid ==
    ASSUME Outcomes, sendOutcomes' = sendOutcomes, transport' = transport,
           answerFile' = answerFile \/ answerFile.state # "whole"
    PROVE  Outcomes'
  <1>1. ASSUME NEW o PROVE Filed(o, answerFile, transport) => Filed(o, answerFile', transport)
    BY DEF Filed
  <1>2. AnswersAreFiled'
    BY <1>1 DEF Outcomes, AnswersAreFiled
  <1>3. QED
    BY <1>2 DEF Outcomes

\* One more outcome.
LEMMA OneMoreOutcome ==
    ASSUME Outcomes, transport' = transport, answerFile' = answerFile \/ answerFile.state # "whole",
           NEW o \in OutcomeType, sendOutcomes' = Append(sendOutcomes, o),
           Filed(o, answerFile', transport), Reported(o, transport)
    PROVE  Outcomes'
  <1>1. ASSUME NEW old PROVE Filed(old, answerFile, transport) => Filed(old, answerFile', transport)
    BY DEF Filed
  <1>2. /\ sendOutcomes' \in Seq(OutcomeType) /\ DOMAIN sendOutcomes = 1..Len(sendOutcomes)
        /\ DOMAIN sendOutcomes' = 1..(Len(sendOutcomes) + 1) /\ Len(sendOutcomes) \in Nat
        /\ \A i \in DOMAIN sendOutcomes : sendOutcomes'[i] = sendOutcomes[i]
        /\ sendOutcomes'[Len(sendOutcomes) + 1] = o
    BY DEF Outcomes
  <1>3. ASSUME NEW i \in DOMAIN sendOutcomes'
        PROVE  Filed(sendOutcomes'[i], answerFile', transport) /\ Reported(sendOutcomes'[i], transport)
    <2>1. CASE i \in DOMAIN sendOutcomes
      BY <1>1, <1>2, <2>1 DEF Outcomes, AnswersAreFiled
    <2>2. CASE i = Len(sendOutcomes) + 1
      BY <1>2, <2>2
    <2>3. QED
      BY <1>2, <2>1, <2>2
  <1>4. AnswersAreFiled'
    BY <1>3 DEF AnswersAreFiled
  <1>5. QED
    BY <1>2, <1>3, <1>4 DEF Outcomes

\* A step that leaves the directories alone.
LEMMA DirectoriesStay ==
    ASSUME DirectoriesFollow, sandboxes' = sandboxes, vendorRun'.no = vendorRun.no, transport' = transport,
           adapterMishaps' = adapterMishaps, sending'.pc = "idle" <=> sending.pc = "idle"
    PROVE  DirectoriesFollow'
  <1>1. Leftover' = Leftover
    BY DEF Leftover
  <1> QED
    BY <1>1 DEF DirectoriesFollow, Spawns

\* A child's directory is made before it runs.
LEMMA DirectoryMade ==
    ASSUME SendTypes, DirectoriesFollow, sending.pc = "idle", sending'.pc # "idle", transport' = transport,
           vendorRun'.no = vendorRun.no + 1, adapterMishaps' = adapterMishaps,
           sandboxes' = IF Spawns THEN sandboxes \cup {vendorRun.no + 1} ELSE sandboxes
    PROVE  DirectoriesFollow'
  <1>1. vendorRun.no \in Nat
    BY DEF SendTypes, VendorRunType
  <1>2. Leftover' = Leftover
    BY <1>1 DEF Leftover, DirectoriesFollow
  <1>3. sandboxes' \subseteq 1..vendorRun'.no
    <2>1. 1..vendorRun.no \subseteq 1..vendorRun'.no /\ vendorRun.no + 1 \in 1..vendorRun'.no
      BY <1>1
    <2>2. QED
      BY <2>1 DEF DirectoriesFollow
  <1> QED
    BY <1>2, <1>3 DEF DirectoriesFollow, Spawns

\* It is removed when its send() is over.
LEMMA DirectoryRemoved ==
    ASSUME SendTypes, DirectoriesFollow, sending.pc # "idle", sending'.pc = "idle", transport' = transport,
           vendorRun'.no = vendorRun.no, adapterMishaps' \in {adapterMishaps, adapterMishaps + 1},
           sandboxes' = sandboxes \ {vendorRun.no}
    PROVE  DirectoriesFollow'
  <1>1. Leftover' = Leftover
    BY DEF Leftover
  <1>2. IsFiniteSet(Leftover)
    <2>1. vendorRun.no \in Nat
      BY DEF SendTypes, VendorRunType
    <2>2. Leftover \subseteq 1..vendorRun.no
      BY DEF Leftover, DirectoriesFollow
    <2>3. IsFiniteSet(1..vendorRun.no)
      BY <2>1, FS_Interval
    <2>4. QED
      BY <2>2, <2>3, FS_Subset
  <1>3. Cardinality(Leftover) \in Nat /\ adapterMishaps \in Nat
    BY <1>2, FS_CardinalityType DEF SendTypes
  <1>4. Cardinality(Leftover) <= adapterMishaps'
    BY <1>3 DEF DirectoriesFollow
  <1> QED
    BY <1>1, <1>4 DEF DirectoriesFollow

\* A crash leaves it behind.
LEMMA DirectoryLeft ==
    ASSUME SendTypes, DirectoriesFollow, sending.pc # "idle", sending'.pc = "idle", transport' = transport,
           vendorRun'.no = vendorRun.no, adapterMishaps' = adapterMishaps + 1, sandboxes' = sandboxes
    PROVE  DirectoriesFollow'
  <1>1. Leftover' = sandboxes /\ Leftover = sandboxes \ {vendorRun.no}
    BY DEF Leftover
  <1>2. IsFiniteSet(sandboxes)
    <2>1. vendorRun.no \in Nat
      BY DEF SendTypes, VendorRunType
    <2>2. IsFiniteSet(1..vendorRun.no)
      BY <2>1, FS_Interval
    <2>3. QED
      BY <2>2, FS_Subset DEF DirectoriesFollow
  <1> DEFINE size == Cardinality(sandboxes)
             rest == Cardinality(sandboxes \ {vendorRun.no})
  <1>3. size \in Nat /\ rest \in Nat /\ adapterMishaps \in Nat
    <2>1. IsFiniteSet(sandboxes \ {vendorRun.no})
      BY <1>2, FS_Subset
    <2>2. QED
      BY <1>2, <2>1, FS_CardinalityType DEF SendTypes
  <1>4. size <= rest + 1
    <2>1. CASE vendorRun.no \in sandboxes
      <3>1. rest = size - 1
        BY <1>2, <2>1, FS_RemoveElement
      <3> HIDE DEF size, rest
      <3>2. QED
        BY <1>3, <3>1
    <2>2. CASE vendorRun.no \notin sandboxes
      <3>1. sandboxes \ {vendorRun.no} = sandboxes
        BY <2>2
      <3>2. rest = size
        BY <3>1
      <3> HIDE DEF size, rest
      <3>3. QED
        BY <1>3, <3>2
    <2>3. QED
      BY <2>1, <2>2
  <1>5. Cardinality(Leftover') <= adapterMishaps'
    BY <1>1, <1>3, <1>4 DEF DirectoriesFollow
  <1> QED
    BY <1>5 DEF DirectoriesFollow

\* What is said at once is an outcome.
LEMMA AtOnceType ==
    ASSUME NEW result \in SendResults, NEW no \in Nat, NEW reason \in {"none", "cancelled", "timed_out"}
    PROVE  AtOnce(result, no, reason) \in OutcomeType
  <1>1. {} \in SUBSET STRING
    OBVIOUS
  <1> DEFINE nothing == {}
  <1>2. nothing \in SUBSET STRING
    OBVIOUS
  <1>3. AtOnce(result, no, reason)
          = [result |-> result, no |-> no, reason |-> reason, late |-> FALSE, words |-> nothing]
    BY DEF AtOnce
  <1> HIDE DEF nothing
  <1>4. QED
    BY <1>2, <1>3 DEF OutcomeType

\* An answer served from the file, or a refusal.
LEMMA AtOnceSaid ==
    ASSUME AdapterInv, ServeReplay \/ RefuseAborted
    PROVE  AdapterInv'
  <1>1. UNCHANGED <<transport, sending, vendorRun, pipesHeld, sandboxes, answerFile, adapterMishaps>>
    BY Zenon DEF ServeReplay, RefuseAborted
  <1>2. SendTypes' /\ RunFollowsSend' /\ DirectoriesFollow'
    BY <1>1 DEF AdapterInv, SendTypes, RunFollowsSend, DirectoriesFollow, Leftover, Spawns
  <1>3. answerFile \in [state : {"absent", "torn", "whole"}, no : Nat]
    BY DEF AdapterInv, SendTypes
  <1>4. CASE ServeReplay
    <2> DEFINE o == AtOnce(IF answerFile.state = "whole" THEN "answer" ELSE "syntax_error", answerFile.no, "none")
    <2>1. sendOutcomes' = Append(sendOutcomes, o)
      BY <1>4 DEF ServeReplay
    <2>2. /\ o.result \in {"answer", "syntax_error"} /\ (o.result = "answer" => answerFile.state = "whole")
          /\ o.no = answerFile.no /\ o.reason = "none" /\ ~o.late
          /\ DOMAIN o = {"result", "no", "reason", "late", "words"}
      BY DEF AtOnce
    <2>3. o \in OutcomeType
      <3>1. (IF answerFile.state = "whole" THEN "answer" ELSE "syntax_error") \in SendResults
        BY DEF SendResults, Named
      <3>2. answerFile.no \in Nat /\ "none" \in {"none", "cancelled", "timed_out"}
        BY <1>3
      <3>3. QED
        BY <3>1, <3>2, AtOnceType, Zenon
    <2>4. Filed(o, answerFile, transport) /\ Reported(o, transport)
      BY <2>2 DEF Filed, Reported
    <2> HIDE DEF o
    <2>5. QED
      BY <1>1, <1>2, <2>1, <2>3, <2>4, OneMoreOutcome DEF AdapterInv
  <1>5. CASE RefuseAborted
    <2> DEFINE o == AtOnce("cancelled", 0, "cancelled")
    <2>1. sendOutcomes' = Append(sendOutcomes, o)
      BY <1>5 DEF RefuseAborted
    <2>2. o.result = "cancelled" /\ o.reason = "cancelled"
      BY DEF AtOnce
    <2>3. o \in OutcomeType
      <3>1. "cancelled" \in SendResults /\ 0 \in Nat /\ "cancelled" \in {"none", "cancelled", "timed_out"}
        BY DEF SendResults, Named
      <3>2. QED
        BY <3>1, AtOnceType, Zenon
    <2>4. Filed(o, answerFile, transport) /\ Reported(o, transport)
      BY <2>2 DEF Filed, Reported, Tells
    <2> HIDE DEF o
    <2>5. QED
      BY <1>1, <1>2, <2>1, <2>3, <2>4, OneMoreOutcome DEF AdapterInv
  <1>6. QED
    BY <1>4, <1>5

\* A send that starts, told to stop already or not.
LEMMA SendBegins ==
    ASSUME AdapterInv, NEW control \in BOOLEAN, NEW aborted \in BOOLEAN, send(control, aborted)
    PROVE  AdapterInv'
  <1>1. /\ sending.pc = "idle" /\ answerFile.state = "absent" /\ vendorRun.no \in Nat
        /\ UNCHANGED <<transport, pipesHeld, answerFile, sendOutcomes, adapterMishaps>>
        /\ aborted => control /\ transport = "sdk"
    BY DEF AdapterInv, SendTypes, VendorRunType, send, MaySend
  <1>2. /\ sending' \in SendType /\ sending'.pc = "waiting" /\ sending'.grace = FALSE
        /\ sending'.reason = (IF aborted THEN "cancelled" ELSE "none")
        /\ sending'.timer = (control \/ transport # "sdk") /\ sending'.control = control
    BY DEF send, SendType
  <1>3. /\ vendorRun' \in VendorRunType /\ vendorRun'.no = vendorRun.no + 1
        /\ vendorRun'.state = (IF aborted THEN "told" ELSE "running")
        /\ vendorRun'.ending = NoEnding /\ vendorRun'.late = aborted
    BY <1>1 DEF send, VendorRunType
  <1>4. SendTypes'
    BY <1>1, <1>2, <1>3 DEF AdapterInv, SendTypes
  <1>5. RunFollowsSend'
    <2>1. ~NoEnding.ok
      BY DEF NoEnding
    <2>2. CASE aborted
      BY <1>1, <1>2, <1>3, <2>1, <2>2 DEF RunFollowsSend, Spawns
    <2>3. CASE ~aborted
      BY <1>1, <1>2, <1>3, <2>1, <2>3 DEF RunFollowsSend, Spawns
    <2>4. QED
      BY <2>2, <2>3
  <1>6. DirectoriesFollow'
    BY <1>1, <1>2, <1>3, DirectoryMade DEF AdapterInv, send
  <1>7. Outcomes'
    BY <1>1, NothingSaid DEF AdapterInv
  <1>8. QED
    BY <1>4, <1>5, <1>6, <1>7 DEF AdapterInv

\* Told to stop, for a reason, once.
LEMMA ToldKeeps ==
    ASSUME AdapterInv, Waiting, NEW changed \in SendType, StopTold(changed),
           changed.pc = sending.pc, changed.control = sending.control, changed.grace = sending.grace,
           changed.reason # "none"
    PROVE  AdapterInv'
  <1>1. /\ sending.pc = "waiting" /\ sending \in SendType /\ vendorRun \in VendorRunType
        /\ UNCHANGED <<transport, pipesHeld, sandboxes, answerFile, sendOutcomes, adapterMishaps>>
    BY DEF AdapterInv, SendTypes, Waiting, StopTold
  <1>2. /\ sending' \in SendType /\ sending'.pc = "waiting" /\ sending'.reason # "none"
        /\ sending'.control = sending.control
        /\ sending'.grace = (IF sending.reason = "none" THEN Spawns ELSE sending.grace)
    <2> DEFINE stops == IF sending.reason = "none" THEN Spawns ELSE changed.grace
    <2>1. sending' = [changed EXCEPT !.grace = stops]
      BY DEF StopTold
    <2>2. stops \in BOOLEAN
      <3>1. Spawns \in BOOLEAN
        BY DEF Spawns
      <3>2. changed.grace \in BOOLEAN
        BY DEF SendType
      <3>3. QED
        BY <3>1, <3>2
    <2>3. sending.reason # "none" => stops = sending.grace
      OBVIOUS
    <2>4. sending.reason = "none" => stops = Spawns
      OBVIOUS
    <2> HIDE DEF stops
    <2>5. /\ sending' \in SendType /\ sending'.pc = changed.pc /\ sending'.reason = changed.reason
          /\ sending'.control = changed.control /\ sending'.grace = stops
      BY <2>1, <2>2 DEF SendType
    <2>6. QED
      BY <1>1, <2>3, <2>4, <2>5
  <1>3. /\ vendorRun' \in VendorRunType /\ vendorRun'.no = vendorRun.no /\ vendorRun'.ending = vendorRun.ending
        /\ vendorRun.state = "running" => vendorRun'.state = "told" /\ vendorRun'.late
        /\ vendorRun.state # "running" => vendorRun' = vendorRun
    BY <1>1 DEF StopTold, VendorRunType
  <1>4. SendTypes'
    BY <1>1, <1>2, <1>3 DEF AdapterInv, SendTypes
  <1>5. RunFollowsSend'
    <2>1. RunFollowsSend
      BY DEF AdapterInv
    <2>2. vendorRun.state \in {"running", "told", "ended"}
      BY <1>1, <2>1 DEF RunFollowsSend, VendorRunType
    <2>3. ~NoEnding.ok
      BY DEF NoEnding
    <2>4. CASE vendorRun.state = "running"
      BY <1>1, <1>2, <1>3, <2>1, <2>3, <2>4 DEF RunFollowsSend, Spawns
    <2>5. CASE vendorRun.state # "running"
      BY <1>1, <1>2, <1>3, <2>1, <2>2, <2>3, <2>5 DEF RunFollowsSend, Spawns
    <2>6. QED
      BY <2>4, <2>5
  <1>6. DirectoriesFollow'
    BY <1>1, <1>2, <1>3, DirectoriesStay DEF AdapterInv
  <1>7. Outcomes'
    BY <1>1, NothingSaid DEF AdapterInv
  <1>8. QED
    BY <1>4, <1>5, <1>6, <1>7 DEF AdapterInv

\* The caller aborts.
LEMMA CancelKeeps == ASSUME AdapterInv, cancel PROVE AdapterInv'
  <1> DEFINE changed == [sending EXCEPT !.aborted = TRUE, !.reason = IF @ = "none" THEN "cancelled" ELSE @]
  <1>1. sending \in SendType
    BY DEF AdapterInv, SendTypes
  <1>2. /\ changed \in SendType /\ changed.pc = sending.pc /\ changed.control = sending.control
        /\ changed.grace = sending.grace /\ changed.reason # "none"
    BY <1>1 DEF SendType
  <1>3. Waiting /\ StopTold(changed)
    BY DEF cancel
  <1> HIDE DEF changed
  <1>4. QED
    BY <1>2, <1>3, ToldKeeps

\* The timer fires.
LEMMA TimerKeeps == ASSUME AdapterInv, TimerFires PROVE AdapterInv'
  <1> DEFINE changed == [sending EXCEPT !.timer = FALSE,
                           !.reason = IF Spawns \/ @ = "none" THEN "timed_out" ELSE @]
  <1>1. sending \in SendType
    BY DEF AdapterInv, SendTypes
  <1>2. /\ changed \in SendType /\ changed.pc = sending.pc /\ changed.control = sending.control
        /\ changed.grace = sending.grace /\ changed.reason # "none"
    BY <1>1 DEF SendType
  <1>3. Waiting /\ StopTold(changed)
    BY DEF TimerFires
  <1> HIDE DEF changed
  <1>4. QED
    BY <1>2, <1>3, ToldKeeps

\* The provider ends, killed or by itself; its pipes close.
LEMMA RunEnds ==
    ASSUME AdapterInv, GraceEnds \/ ProviderEnds
    PROVE  AdapterInv'
  <1>1. /\ sending.pc = "waiting" /\ sending \in SendType /\ vendorRun \in VendorRunType
        /\ UNCHANGED <<transport, sandboxes, answerFile, sendOutcomes, adapterMishaps>>
    BY DEF AdapterInv, SendTypes, Waiting, GraceEnds, ProviderEnds
  <1>2. /\ sending' \in SendType /\ sending'.pc = "waiting" /\ sending'.reason = sending.reason
        /\ sending'.control = sending.control /\ sending'.timer = sending.timer
    BY <1>1 DEF GraceEnds, ProviderEnds, SendType
  <1>3. /\ vendorRun' \in VendorRunType /\ vendorRun'.no = vendorRun.no /\ vendorRun'.late = vendorRun.late
        /\ \/ vendorRun'.state = "ended"
           \/ vendorRun' = vendorRun /\ vendorRun.state # "told"
        /\ vendorRun.state = "ended" => vendorRun'.ending = vendorRun.ending
        /\ vendorRun.state = "told" /\ ~Spawns => vendorRun'.ending \in {NoEnding, vendorRun.ending}
        /\ vendorRun'.state # "ended" => UNCHANGED vendorRun
    <2>1. CASE GraceEnds
      BY <1>1, <2>1 DEF GraceEnds, VendorRunType
    <2>2. CASE ProviderEnds
      <3>1. PICK e \in Endings \cup {NoEnding} :
               /\ vendorRun' = [vendorRun EXCEPT !.state = "ended", !.ending = e]
               /\ vendorRun.state \in {"running", "told"}
               /\ vendorRun.state = "told" /\ ~Spawns => e = NoEnding
        BY <2>2 DEF ProviderEnds
      <3>2. QED
        BY <1>1, <3>1 DEF VendorRunType
    <2>3. QED
      BY <2>1, <2>2
  <1>4. pipesHeld' \in BOOLEAN
    BY DEF AdapterInv, SendTypes, GraceEnds, ProviderEnds, Spawns
  <1>5. SendTypes'
    BY <1>1, <1>2, <1>3, <1>4 DEF AdapterInv, SendTypes
  <1>6. RunFollowsSend'
    <2>1. RunFollowsSend /\ ~NoEnding.ok
      BY DEF AdapterInv, NoEnding
    <2>2. vendorRun.state \in {"running", "told", "ended"}
      BY <1>1, <2>1 DEF RunFollowsSend, VendorRunType
    <2>3. CASE vendorRun' = vendorRun /\ vendorRun.state # "told"
      BY <1>1, <1>2, <2>1, <2>2, <2>3 DEF RunFollowsSend, Spawns
    <2>4. CASE vendorRun'.state = "ended"
      <3>1. vendorRun'.late /\ ~Spawns => ~vendorRun'.ending.ok
        BY <1>1, <1>3, <2>1, <2>2 DEF RunFollowsSend
      <3>2. Spawns' = Spawns
        BY <1>1 DEF Spawns
      <3>3. vendorRun'.late => sending'.reason # "none"
        BY <1>1, <1>2, <1>3, <2>1 DEF RunFollowsSend
      <3>4. answerFile'.state = "absent"
        BY <1>1, <2>1 DEF RunFollowsSend
      <3>5. QED
        <4> HIDE DEF Spawns
        <4>1. sending'.pc # "idle" /\ sending'.pc # "capturing"
          BY <1>2
        <4>2. vendorRun'.state \notin {"none", "running", "told"}
          BY <2>4
        <4>3. QED
          BY <1>2, <2>4, <3>1, <3>2, <3>3, <3>4, <4>1, <4>2, Zenon DEF RunFollowsSend
    <2>5. QED
      BY <1>3, <2>3, <2>4
  <1>7. DirectoriesFollow'
    BY <1>1, <1>2, <1>3, DirectoriesStay DEF AdapterInv
  <1>8. Outcomes'
    BY <1>1, NothingSaid DEF AdapterInv
  <1>9. QED
    BY <1>5, <1>6, <1>7, <1>8 DEF AdapterInv

\* The pipes close, or nothing happens.
LEMMA PipesKeep == ASSUME AdapterInv, PipesClose \/ UNCHANGED adapterVars PROVE AdapterInv'
  <1>1. UNCHANGED <<transport, sending, vendorRun, sandboxes, answerFile, sendOutcomes, adapterMishaps>>
    BY Zenon DEF PipesClose, adapterVars
  <1>2. SendTypes' /\ RunFollowsSend' /\ DirectoriesFollow'
    BY <1>1 DEF AdapterInv, SendTypes, RunFollowsSend, DirectoriesFollow, Leftover, Spawns, PipesClose, adapterVars
  <1>3. Outcomes'
    BY <1>1, NothingSaid DEF AdapterInv
  <1>4. QED
    BY <1>2, <1>3 DEF AdapterInv

\* A send that is over leaves no run under way.
LEMMA OverIsIdle ==
    ASSUME AdapterInv, sending' = NoSend, vendorRun' = [vendorRun EXCEPT !.state = "none"],
           transport' = transport, pipesHeld' \in BOOLEAN, adapterMishaps' \in {adapterMishaps, adapterMishaps + 1},
           answerFile' \in [state : {"absent", "torn", "whole"}, no : Nat]
    PROVE  /\ SendTypes' /\ RunFollowsSend' /\ sending'.pc = "idle" /\ vendorRun'.no = vendorRun.no
  <1>1. /\ sending' \in SendType /\ sending'.pc = "idle" /\ sending'.reason = "none"
    BY DEF NoSend, SendType
  <1>2. vendorRun \in VendorRunType /\ adapterMishaps \in Nat
    BY DEF AdapterInv, SendTypes
  <1>3. vendorRun' \in VendorRunType /\ vendorRun'.no = vendorRun.no /\ vendorRun'.state = "none"
    BY <1>2 DEF VendorRunType
  <1>4. SendTypes'
    BY <1>1, <1>2, <1>3 DEF AdapterInv, SendTypes
  <1>5. RunFollowsSend'
    BY <1>1, <1>3 DEF RunFollowsSend
  <1>6. QED
    BY <1>1, <1>3, <1>4, <1>5

\* What an error is called.
LEMMA ErrorIsNamed ==
    ASSUME AdapterInv, sending.pc = "waiting", vendorRun.state = "ended", ErrorOf # "none"
    PROVE  /\ ErrorOf \in SendResults \ {"answer", "error", "syntax_error"}
           /\ Reported(Outcome(ErrorOf, 0), transport)
  <1> DEFINE words == vendorRun.ending.words
             ending == vendorRun.ending
             kind == ErrorOf
             reason == sending.reason
  <1>1. /\ reason \in {"none", "cancelled", "timed_out"} /\ transport \in {"cli", "codex", "sdk", "http"}
        /\ vendorRun.late /\ ~Spawns => ~ending.ok
    BY DEF AdapterInv, SendTypes, SendType, RunFollowsSend
  <1>2. CASE Spawns /\ reason # "none"
    <2>1. kind = classifyAdapterError(words \cup Marker)
      BY <1>2 DEF ErrorOf
    <2>2. /\ kind \in Named \cup {"transport"} /\ kind \in (words \cup Marker) \cup {"transport"}
          /\ "cancelled" \in words \cup Marker => kind = "cancelled"
          /\ "timed_out" \in words \cup Marker => kind \in {"cancelled", "timed_out"}
      BY <2>1, FirstPattern
    <2>3. reason = "cancelled" => kind = "cancelled"
      BY <2>2 DEF Marker
    <2>4. reason = "timed_out" /\ transport # "cli" =>
             kind = "timed_out" \/ (kind = "cancelled" /\ "cancelled" \in words)
      <3>1. ASSUME reason = "timed_out", transport # "cli" PROVE Marker = {"timed_out"}
        BY <1>2, <3>1 DEF Marker, Spawns
      <3>2. QED
        BY <2>2, <3>1
    <2> HIDE DEF kind
    <2>5. QED
      BY <1>2, <2>2, <2>3, <2>4 DEF SendResults, Named, Reported, Tells, Outcome, kind
  <1>3. CASE ~(Spawns /\ reason # "none") /\ ~ending.ok /\ reason # "none"
    <2>1. kind = reason
      BY <1>3 DEF ErrorOf
    <2> HIDE DEF kind
    <2>2. QED
      BY <1>1, <1>3, <2>1 DEF SendResults, Named, Reported, Tells, Outcome, kind
  <1>4. CASE ~ending.ok /\ reason = "none"
    <2>1. kind = classifyAdapterError(words)
      BY <1>4 DEF ErrorOf
    <2>2. kind \in Named \cup {"transport"} /\ kind \in words \cup {"transport"}
      BY <2>1, FirstPattern
    <2> HIDE DEF kind
    <2>3. QED
      BY <1>4, <2>2 DEF SendResults, Named, Reported, Tells, Outcome, kind
  <1>5. CASE ~(Spawns /\ reason # "none") /\ ending.ok
    <2>1. (kind = "transport" /\ transport = "cli") \/ kind = "invalid_response"
      BY <1>5 DEF ErrorOf
    <2>2. reason # "none" => ~Spawns /\ ~vendorRun.late
      BY <1>1, <1>5
    <2>3. transport = "cli" => Spawns
      BY DEF Spawns
    <2>4. reason # "none" => kind = "invalid_response" /\ transport \notin {"cli", "codex"}
      BY <2>1, <2>2, <2>3 DEF Spawns
    <2> HIDE DEF kind
    <2>5. QED
      BY <2>1, <2>2, <2>4 DEF SendResults, Named, Reported, Tells, Outcome, kind
  <1>6. QED
    BY <1>2, <1>3, <1>4, <1>5

\* The words of an ending, and what is said of a send with it.
LEMMA OutcomeTyped ==
    ASSUME AdapterInv, NEW result \in SendResults, NEW no \in Nat
    PROVE  Outcome(result, no) \in OutcomeType
  <1> DEFINE words == vendorRun.ending.words
  <1>1. words \in SUBSET STRING
    <2>1. vendorRun.ending \in Endings \cup {NoEnding}
      BY DEF AdapterInv, SendTypes, VendorRunType
    <2>2. CASE vendorRun.ending \in Endings
      BY <2>2, AdapterAssumption
    <2>3. CASE vendorRun.ending = NoEnding
      BY <2>3 DEF NoEnding
    <2>4. QED
      BY <2>1, <2>2, <2>3
  <1>2. sending.reason \in {"none", "cancelled", "timed_out"} /\ vendorRun.late \in BOOLEAN
    BY DEF AdapterInv, SendTypes, SendType, VendorRunType
  <1>3. Outcome(result, no) = [result |-> result, no |-> no, reason |-> sending.reason,
                               late |-> vendorRun.late, words |-> words]
    BY DEF Outcome
  <1> HIDE DEF words
  <1>4. QED
    BY <1>1, <1>2, <1>3 DEF OutcomeType

\* Nothing of its own is true of a send that ends well but that it was not stopped.
LEMMA EndedWell ==
    ASSUME AdapterInv, Answered
    PROVE  /\ sending.pc # "idle" /\ vendorRun.no \in Nat /\ answerFile.state = "absent"
           /\ ~vendorRun.late /\ (Spawns => sending.reason = "none")
  <1>1. RunFollowsSend /\ vendorRun \in VendorRunType /\ transport \in {"cli", "codex", "sdk", "http"}
    BY DEF AdapterInv, SendTypes
  <1>2. CASE sending.pc = "capturing"
    BY <1>1, <1>2 DEF RunFollowsSend, VendorRunType
  <1>3. CASE RunIsOver /\ ErrorOf = "none"
    <2>1. sending.pc = "waiting"
      BY <1>3 DEF RunIsOver, Waiting
    <2>2. Spawns => sending.reason = "none"
      <3>1. ASSUME Spawns, sending.reason # "none" PROVE FALSE
        <4>1. ErrorOf = classifyAdapterError(vendorRun.ending.words \cup Marker)
          BY <3>1 DEF ErrorOf
        <4>2. ErrorOf \in Named \cup {"transport"}
          BY <4>1, FirstPattern
        <4>3. QED
          BY <1>3, <4>2 DEF Named
      <3>2. QED
        BY <3>1
    <2>3. ~Spawns => vendorRun.ending.ok
      <3>1. ASSUME ~Spawns, ~vendorRun.ending.ok PROVE FALSE
        <4>1. CASE sending.reason # "none"
          BY <1>3, <3>1, <4>1 DEF ErrorOf
        <4>2. CASE sending.reason = "none"
          <5>1. ErrorOf = classifyAdapterError(vendorRun.ending.words)
            BY <3>1, <4>2 DEF ErrorOf
          <5>2. ErrorOf \in Named \cup {"transport"}
            BY <5>1, FirstPattern
          <5>3. QED
            BY <1>3, <5>2 DEF Named
        <4>3. QED
          BY <4>1, <4>2
      <3>2. QED
        BY <3>1
    <2>4. QED
      BY <1>1, <2>1, <2>2, <2>3 DEF RunFollowsSend, VendorRunType
  <1>4. QED
    BY <1>2, <1>3 DEF Answered

\* A send ends with the error that its run and its stop add up to.
LEMMA FailKeeps == ASSUME AdapterInv, SendFails PROVE AdapterInv'
  <1> DEFINE o == Outcome(ErrorOf, 0)
  <1>1. /\ sendOutcomes' = Append(sendOutcomes, o) /\ answerFile' = answerFile
        /\ sending' = NoSend /\ vendorRun' = [vendorRun EXCEPT !.state = "none"]
        /\ sandboxes' = sandboxes \ {vendorRun.no}
        /\ UNCHANGED <<transport, pipesHeld, adapterMishaps>>
    BY DEF SendFails, Ends
  <1>2. sending.pc = "waiting" /\ vendorRun.state = "ended" /\ ErrorOf # "none"
    BY DEF SendFails, RunIsOver, Waiting
  <1>3. ErrorOf \in SendResults \ {"answer", "error", "syntax_error"} /\ Reported(o, transport)
    BY <1>2, ErrorIsNamed
  <1>4. o \in OutcomeType
    <2>1. ErrorOf \in SendResults /\ 0 \in Nat
      BY <1>3
    <2>2. QED
      BY <2>1, OutcomeTyped, Zenon
  <1>5. Filed(o, answerFile', transport)
    <2>1. o.result = ErrorOf
      BY DEF Outcome
    <2>2. QED
      BY <1>3, <2>1 DEF Filed
  <1> HIDE DEF o
  <1>6. Outcomes'
    BY <1>1, <1>3, <1>4, <1>5, OneMoreOutcome DEF AdapterInv
  <1>7. pipesHeld \in BOOLEAN /\ answerFile \in [state : {"absent", "torn", "whole"}, no : Nat]
    BY DEF AdapterInv, SendTypes
  <1>8. SendTypes' /\ RunFollowsSend' /\ sending'.pc = "idle" /\ vendorRun'.no = vendorRun.no
    BY <1>1, <1>7, OverIsIdle
  <1>9. DirectoriesFollow'
    BY <1>1, <1>2, <1>8, DirectoryRemoved DEF AdapterInv
  <1>10. QED
    BY <1>6, <1>8, <1>9 DEF AdapterInv

\* The transcript is polled for once the run ended well.
LEMMA CaptureKeeps == ASSUME AdapterInv, captureTranscript PROVE AdapterInv'
  <1>1. transport = "sdk" /\ sending.pc = "waiting" /\ vendorRun.state = "ended"
        /\ RunIsOver /\ ErrorOf = "none"
    BY DEF captureTranscript, RunIsOver, Waiting
  <1>3. /\ sending \in SendType /\ sending' = [sending EXCEPT !.pc = "capturing", !.timer = FALSE]
        /\ UNCHANGED <<transport, vendorRun, pipesHeld, sandboxes, answerFile, sendOutcomes, adapterMishaps>>
    BY DEF AdapterInv, SendTypes, captureTranscript
  <1>4. /\ sending' \in SendType /\ sending'.pc = "capturing" /\ sending'.reason = sending.reason
    BY <1>3 DEF SendType
  <1>5. ~vendorRun.late
    <2>1. ~Spawns
      BY <1>1 DEF Spawns
    <2>2. vendorRun.ending.ok
      <3>1. ASSUME ~vendorRun.ending.ok PROVE FALSE
        <4>1. CASE sending.reason # "none"
          BY <1>1, <2>1, <3>1, <4>1 DEF ErrorOf
        <4>2. CASE sending.reason = "none"
          <5>1. ErrorOf = classifyAdapterError(vendorRun.ending.words)
            BY <3>1, <4>2 DEF ErrorOf
          <5>2. ErrorOf \in Named \cup {"transport"}
            BY <5>1, FirstPattern
          <5>3. QED
            BY <1>1, <5>2 DEF Named
        <4>3. QED
          BY <4>1, <4>2
      <3>2. QED
        BY <3>1
    <2>3. QED
      BY <1>1, <2>1, <2>2 DEF AdapterInv, RunFollowsSend
  <1>6. SendTypes'
    BY <1>3, <1>4 DEF AdapterInv, SendTypes
  <1>7. RunFollowsSend'
    <2>1. answerFile.state = "absent"
      BY <1>1 DEF AdapterInv, RunFollowsSend
    <2>2. sending'.reason # "none" => vendorRun'.state # "running"
      BY <1>1, <1>3
    <2>3. QED
      BY <1>1, <1>3, <1>4, <1>5, <2>1, <2>2 DEF RunFollowsSend, Spawns
  <1>8. DirectoriesFollow'
    BY <1>1, <1>3, <1>4, DirectoriesStay DEF AdapterInv
  <1>9. Outcomes'
    BY <1>3, NothingSaid DEF AdapterInv
  <1>10. QED
    BY <1>6, <1>7, <1>8, <1>9 DEF AdapterInv

\* An answer is filed, or lost.
LEMMA AnswerKeeps == ASSUME AdapterInv, SaveAnswer \/ EvidenceLost PROVE AdapterInv'
  <1>1. /\ sending.pc # "idle" /\ vendorRun.no \in Nat /\ answerFile.state = "absent"
        /\ ~vendorRun.late /\ (Spawns => sending.reason = "none") /\ vendorRun.ending \in Endings \cup {NoEnding}
    BY EndedWell DEF SaveAnswer, EvidenceLost, AdapterInv, SendTypes, VendorRunType
  <1>2. /\ sending' = NoSend /\ vendorRun' = [vendorRun EXCEPT !.state = "none"]
        /\ sandboxes' = sandboxes \ {vendorRun.no}
        /\ UNCHANGED <<transport, pipesHeld>> /\ adapterMishaps' \in {adapterMishaps, adapterMishaps + 1}
    BY DEF SaveAnswer, EvidenceLost, Ends
  <1>3. Outcomes' /\ answerFile' \in [state : {"absent", "torn", "whole"}, no : Nat]
    <2>1. CASE SaveAnswer
      <3> DEFINE o == Outcome("answer", vendorRun.no)
      <3>1. sendOutcomes' = Append(sendOutcomes, o) /\ answerFile' = [state |-> "whole", no |-> vendorRun.no]
        BY <2>1 DEF SaveAnswer, Ends
      <3>2. o \in OutcomeType
        <4>1. "answer" \in SendResults
          BY DEF SendResults
        <4>2. QED
          BY <1>1, <4>1, OutcomeTyped, Zenon
      <3>3. o.result = "answer" /\ o.no = vendorRun.no /\ o.late = vendorRun.late /\ o.reason = sending.reason
        BY DEF Outcome
      <3>4. Filed(o, answerFile', transport) /\ Reported(o, transport)
        BY <1>1, <3>1, <3>3 DEF Filed, Reported, Tells, Spawns
      <3> HIDE DEF o
      <3>5. QED
        BY <1>1, <1>2, <3>1, <3>2, <3>4, OneMoreOutcome DEF AdapterInv
    <2>2. CASE EvidenceLost
      <3> DEFINE o == Outcome("error", 0)
      <3>1. sendOutcomes' = Append(sendOutcomes, o) /\ answerFile' = answerFile
        BY <2>2 DEF EvidenceLost, Ends
      <3>2. o \in OutcomeType
        <4>1. "error" \in SendResults /\ 0 \in Nat
          BY DEF SendResults
        <4>2. QED
          BY <4>1, OutcomeTyped, Zenon
      <3>3. o.result = "error" /\ o.late = vendorRun.late /\ o.reason = sending.reason
        BY DEF Outcome
      <3>4. Filed(o, answerFile', transport) /\ Reported(o, transport)
        BY <1>1, <3>1, <3>3 DEF Filed, Reported, Tells, Spawns
      <3> HIDE DEF o
      <3>5. QED
        BY <1>1, <1>2, <3>1, <3>2, <3>4, OneMoreOutcome DEF AdapterInv, SendTypes
    <2>3. QED
      BY <2>1, <2>2
  <1>4. SendTypes' /\ RunFollowsSend' /\ sending'.pc = "idle" /\ vendorRun'.no = vendorRun.no
    <2>1. pipesHeld' \in BOOLEAN
      BY <1>2 DEF AdapterInv, SendTypes
    <2>2. QED
      BY <1>2, <1>3, <2>1, OverIsIdle
  <1>5. DirectoriesFollow'
    BY <1>1, <1>2, <1>4, DirectoryRemoved DEF AdapterInv
  <1>6. QED
    BY <1>3, <1>4, <1>5 DEF AdapterInv

\* A crash leaves the file torn, or as it is, and the directory behind.
LEMMA DeathKeeps == ASSUME AdapterInv, ProcessDies \/ DiesSaving PROVE AdapterInv'
  <1>1. /\ sending' = NoSend /\ vendorRun' = [vendorRun EXCEPT !.state = "none"] /\ pipesHeld' = FALSE
        /\ UNCHANGED <<transport, sandboxes, sendOutcomes>> /\ adapterMishaps' = adapterMishaps + 1
        /\ sending.pc # "idle" /\ answerFile.state = "absent" /\ vendorRun.no \in Nat
    <2>1. CASE ProcessDies
      BY <2>1 DEF ProcessDies, Dies, AdapterInv, RunFollowsSend, SendTypes, VendorRunType
    <2>2. CASE DiesSaving
      BY <2>2, EndedWell DEF DiesSaving, Dies
    <2>3. QED
      BY <2>1, <2>2
  <1>2. answerFile' = answerFile \/ answerFile' = [state |-> "torn", no |-> vendorRun.no]
    BY DEF ProcessDies, DiesSaving, Dies
  <1>3. answerFile' \in [state : {"absent", "torn", "whole"}, no : Nat]
    BY <1>1, <1>2 DEF AdapterInv, SendTypes
  <1>4. SendTypes' /\ RunFollowsSend' /\ sending'.pc = "idle" /\ vendorRun'.no = vendorRun.no
    BY <1>1, <1>3, OverIsIdle
  <1>5. DirectoriesFollow'
    BY <1>1, <1>4, DirectoryLeft DEF AdapterInv
  <1>6. Outcomes'
    BY <1>1, NothingSaid DEF AdapterInv
  <1>7. QED
    BY <1>4, <1>5, <1>6 DEF AdapterInv

\* An adapter starts idle.
LEMMA AdapterStarts == AdapterInit => AdapterInv
  <1> SUFFICES ASSUME AdapterInit PROVE AdapterInv
    OBVIOUS
  <1>1. /\ transport \in {"cli", "codex", "sdk", "http"} /\ sending = NoSend /\ pipesHeld = FALSE
        /\ vendorRun = [no |-> 0, state |-> "none", ending |-> NoEnding, late |-> FALSE]
        /\ sandboxes = {} /\ answerFile = [state |-> "absent", no |-> 0] /\ sendOutcomes = <<>> /\ adapterMishaps = 0
    BY DEF AdapterInit
  <1>2. sending \in SendType /\ sending.pc = "idle" /\ sending.reason = "none"
    BY <1>1 DEF NoSend, SendType
  <1>3. NoEnding \in Endings \cup {NoEnding}
    OBVIOUS
  <1>4. vendorRun \in VendorRunType /\ vendorRun.state = "none" /\ vendorRun.no = 0
    <2> HIDE DEF NoEnding
    <2>1. QED
      BY <1>1, <1>3 DEF VendorRunType
  <1>5. SendTypes /\ RunFollowsSend
    BY <1>1, <1>2, <1>4 DEF SendTypes, RunFollowsSend
  <1>6. DirectoriesFollow
    <2>1. Leftover = {} /\ Cardinality({}) = 0
      BY <1>1, <1>2, FS_EmptySet DEF Leftover
    <2>2. QED
      BY <1>1, <1>2, <1>4, <2>1 DEF DirectoriesFollow
  <1>7. Outcomes
    <2>1. sendOutcomes \in Seq(OutcomeType) /\ DOMAIN sendOutcomes = {}
      BY <1>1
    <2>2. QED
      BY <2>1 DEF Outcomes, AnswersAreFiled
  <1>8. QED
    BY <1>5, <1>6, <1>7 DEF AdapterInv

\* A step of an adapter keeps its invariant.
THEOREM AdapterStep == AdapterInv /\ [AdapterNext]_adapterVars => AdapterInv'
  <1> SUFFICES ASSUME AdapterInv, [AdapterNext]_adapterVars PROVE AdapterInv'
    OBVIOUS
  <1>1. \/ ServeReplay \/ RefuseAborted \/ (\E control, aborted \in BOOLEAN : send(control, aborted))
        \/ cancel \/ TimerFires \/ GraceEnds \/ ProviderEnds \/ PipesClose
        \/ SendFails \/ captureTranscript \/ SaveAnswer \/ EvidenceLost \/ ProcessDies \/ DiesSaving
        \/ UNCHANGED adapterVars
    BY Zenon DEF AdapterNext
  <1>2. QED
    BY <1>1, AtOnceSaid, SendBegins, CancelKeeps, TimerKeeps, RunEnds, PipesKeep, FailKeeps, CaptureKeeps,
       AnswerKeeps, DeathKeeps, Zenon

\* How many sends, runs and mishaps there were: a run is begun once per send, and a send
\* that a crash takes away is counted as the mishap it was.
SendCounts ==
    /\ Len(sendOutcomes) <= MaxSends /\ adapterMishaps <= MaxCrashes
    /\ vendorRun.no <= Len(sendOutcomes) + adapterMishaps + (IF sending.pc = "idle" THEN 0 ELSE 1)
    /\ sending.pc # "idle" => Len(sendOutcomes) < MaxSends
    /\ sandboxes # {} => Spawns

\* A step while a send waits counts nothing.
LEMMA WaitingSendCounts ==
    ASSUME AdapterInv, SendCounts, cancel \/ TimerFires \/ GraceEnds \/ ProviderEnds \/ captureTranscript
    PROVE  SendCounts'
  <1>1. sending.pc = "waiting" /\ sending \in SendType /\ vendorRun \in VendorRunType
    BY DEF AdapterInv, SendTypes, cancel, TimerFires, GraceEnds, ProviderEnds, captureTranscript, RunIsOver, Waiting
  <1>2. UNCHANGED <<transport, sandboxes, sendOutcomes, adapterMishaps>>
    BY DEF cancel, TimerFires, StopTold, GraceEnds, ProviderEnds, captureTranscript
  <1>3. sending'.pc # "idle"
    <2>1. CASE cancel \/ TimerFires
      BY <1>1, <2>1 DEF cancel, TimerFires, StopTold, SendType
    <2>2. CASE GraceEnds \/ ProviderEnds \/ captureTranscript
      BY <1>1, <2>2 DEF GraceEnds, ProviderEnds, captureTranscript, SendType
    <2>3. QED
      BY <2>1, <2>2
  <1>4. vendorRun'.no = vendorRun.no
    BY <1>1 DEF cancel, TimerFires, StopTold, GraceEnds, ProviderEnds, captureTranscript, VendorRunType
  <1>5. Spawns' = Spawns
    BY <1>2 DEF Spawns
  <1>6. QED
    BY <1>1, <1>2, <1>3, <1>4, <1>5 DEF SendCounts

\* A send() that is answered at once is a send, and one that begins is a run.
LEMMA BeginningCounts ==
    ASSUME AdapterInv, SendCounts,
           ServeReplay \/ RefuseAborted \/ \E control, aborted \in BOOLEAN : send(control, aborted)
    PROVE  SendCounts'
  <1>1. /\ sending.pc = "idle" /\ Len(sendOutcomes) < MaxSends /\ vendorRun.no \in Nat
        /\ Len(sendOutcomes) \in Nat /\ adapterMishaps \in Nat /\ MaxSends \in Nat
    <2>1. sendOutcomes \in Seq(OutcomeType)
      BY DEF AdapterInv, Outcomes
    <2>2. QED
      BY <2>1, AdapterAssumption DEF AdapterInv, SendTypes, VendorRunType, ServeReplay, RefuseAborted, send, MaySend
  <1>2. CASE ServeReplay \/ RefuseAborted
    <2>1. UNCHANGED <<transport, sending, vendorRun, sandboxes, adapterMishaps>>
      BY <1>2 DEF ServeReplay, RefuseAborted
    <2>2. \E o : sendOutcomes' = Append(sendOutcomes, o)
      BY <1>2 DEF ServeReplay, RefuseAborted
    <2>3. Len(sendOutcomes') = Len(sendOutcomes) + 1
      <3>1. sendOutcomes \in Seq(OutcomeType)
        BY DEF AdapterInv, Outcomes
      <3>2. QED
        BY <2>2, <3>1
    <2>4. Spawns' = Spawns
      BY <2>1 DEF Spawns
    <2>5. QED
      BY <1>1, <2>1, <2>3, <2>4 DEF SendCounts
  <1>3. CASE \E control, aborted \in BOOLEAN : send(control, aborted)
    <2>1. PICK control \in BOOLEAN, aborted \in BOOLEAN : send(control, aborted)
      BY <1>3
    <2>2. /\ sending'.pc = "waiting" /\ vendorRun'.no = vendorRun.no + 1
          /\ UNCHANGED <<transport, sendOutcomes, adapterMishaps>>
          /\ sandboxes' = IF Spawns THEN sandboxes \cup {vendorRun.no + 1} ELSE sandboxes
      BY <2>1 DEF send
    <2>3. Spawns' = Spawns
      BY <2>2 DEF Spawns
    <2>4. QED
      BY <1>1, <2>2, <2>3 DEF SendCounts
  <1>4. QED
    BY <1>2, <1>3

\* The end of a send counts it.
LEMMA EndingCounts ==
    ASSUME AdapterInv, SendCounts, SendFails \/ SaveAnswer \/ EvidenceLost
    PROVE  SendCounts'
  <1>1. sending.pc # "idle" /\ sendOutcomes \in Seq(OutcomeType) /\ vendorRun \in VendorRunType /\ adapterMishaps \in Nat
    BY DEF AdapterInv, Outcomes, SendTypes, SendFails, SaveAnswer, EvidenceLost, Answered, RunIsOver, Waiting
  <1>2. PICK result, no, file : Ends(result, no, file)
    BY DEF SendFails, SaveAnswer, EvidenceLost
  <1>3. /\ adapterMishaps' \in {adapterMishaps, adapterMishaps + 1} /\ adapterMishaps' <= MaxCrashes
    BY <1>1, AdapterAssumption DEF SendFails, SaveAnswer, EvidenceLost, SendCounts
  <1>4. /\ sending' = NoSend /\ vendorRun' = [vendorRun EXCEPT !.state = "none"]
        /\ sandboxes' = sandboxes \ {vendorRun.no} /\ transport' = transport
        /\ \E o : sendOutcomes' = Append(sendOutcomes, o)
    BY <1>2 DEF Ends
  <1>5. sending'.pc = "idle" /\ vendorRun'.no = vendorRun.no /\ vendorRun.no \in Nat
    BY <1>1, <1>4 DEF NoSend, VendorRunType
  <1>6. Len(sendOutcomes') = Len(sendOutcomes) + 1 /\ Len(sendOutcomes) \in Nat
    BY <1>1, <1>4
  <1>7. Spawns' = Spawns
    BY <1>4 DEF Spawns
  <1>8. QED
    BY <1>1, <1>3, <1>4, <1>5, <1>6, <1>7, AdapterAssumption DEF SendCounts

\* A process that dies is a mishap, and its send is gone.
LEMMA DeathCounts ==
    ASSUME AdapterInv, SendCounts, ProcessDies \/ DiesSaving
    PROVE  SendCounts'
  <1>1. sending.pc # "idle" /\ sendOutcomes \in Seq(OutcomeType) /\ vendorRun \in VendorRunType /\ adapterMishaps \in Nat
    BY DEF AdapterInv, Outcomes, SendTypes, ProcessDies, DiesSaving, Answered, RunIsOver, Waiting
  <1>2. PICK file : Dies(file)
    BY DEF ProcessDies, DiesSaving
  <1>3. /\ sending' = NoSend /\ vendorRun' = [vendorRun EXCEPT !.state = "none"]
        /\ adapterMishaps < MaxCrashes /\ adapterMishaps' = adapterMishaps + 1
        /\ UNCHANGED <<transport, sandboxes, sendOutcomes>>
    BY <1>2 DEF Dies
  <1>4. sending'.pc = "idle" /\ vendorRun'.no = vendorRun.no /\ vendorRun.no \in Nat
    BY <1>1, <1>3 DEF NoSend, VendorRunType
  <1>5. Spawns' = Spawns /\ Len(sendOutcomes) \in Nat
    BY <1>1, <1>3 DEF Spawns
  <1>6. QED
    BY <1>1, <1>3, <1>4, <1>5, AdapterAssumption DEF SendCounts

\* Nothing was sent yet.
LEMMA SendCountsStart == AdapterInit => SendCounts
  BY AdapterAssumption DEF AdapterInit, SendCounts, NoSend

\* Every step keeps the counts.
LEMMA SendCountsStep == AdapterInv /\ SendCounts /\ [AdapterNext]_adapterVars => SendCounts'
  <1> SUFFICES ASSUME AdapterInv, SendCounts, [AdapterNext]_adapterVars PROVE SendCounts'
    OBVIOUS
  <1>1. \/ ServeReplay \/ RefuseAborted \/ (\E control, aborted \in BOOLEAN : send(control, aborted))
        \/ cancel \/ TimerFires \/ GraceEnds \/ ProviderEnds \/ PipesClose
        \/ SendFails \/ captureTranscript \/ SaveAnswer \/ EvidenceLost \/ ProcessDies \/ DiesSaving
        \/ UNCHANGED adapterVars
    BY Zenon DEF AdapterNext
  <1>2. CASE PipesClose \/ UNCHANGED adapterVars
    <2>1. UNCHANGED <<transport, sending, vendorRun, sandboxes, sendOutcomes, adapterMishaps>>
      BY <1>2 DEF PipesClose, adapterVars
    <2>2. QED
      BY <2>1 DEF SendCounts, Spawns
  <1>3. QED
    BY <1>1, <1>2, BeginningCounts, WaitingSendCounts, EndingCounts, DeathCounts, Zenon

\* With the invariant they are the types of an adapter.
LEMMA AdapterTyped == AdapterInv /\ SendCounts => AdapterTypeOK
  <1> SUFFICES ASSUME AdapterInv, SendCounts PROVE AdapterTypeOK
    OBVIOUS
  <1>1. /\ sending \in SendType /\ vendorRun \in VendorRunType /\ adapterMishaps \in Nat
        /\ answerFile \in [state : {"absent", "torn", "whole"}, no : Nat]
        /\ sendOutcomes \in Seq(OutcomeType) /\ sandboxes \subseteq 1..vendorRun.no
    BY DEF AdapterInv, SendTypes, Outcomes, DirectoriesFollow
  <1>2. /\ sending.pc \in {"idle", "waiting", "capturing"} /\ sending.reason \in {"none", "cancelled", "timed_out"}
        /\ vendorRun.no \in Nat /\ vendorRun.state \in {"none", "running", "told", "ended"}
        /\ vendorRun.ending \in Endings \cup {NoEnding} /\ answerFile.state \in {"absent", "torn", "whole"}
        /\ Len(sendOutcomes) \in Nat
    BY <1>1 DEF SendType, VendorRunType
  <1>3. vendorRun.no <= MaxSends + MaxCrashes
    BY <1>1, <1>2, AdapterAssumption DEF SendCounts
  <1>4. QED
    BY <1>1, <1>2, <1>3, AdapterAssumption DEF SendCounts, AdapterTypeOK

\* The invariant says what is promised.
LEMMA AdapterInvSays == AdapterInv => SendsAreHonest
  <1> SUFFICES ASSUME AdapterInv PROVE SendsAreHonest
    OBVIOUS
  <1>1. /\ AnswersAreFiled /\ \A i \in DOMAIN sendOutcomes : Reported(sendOutcomes[i], transport)
        /\ sendOutcomes \in Seq(OutcomeType) /\ RunFollowsSend /\ DirectoriesFollow
    BY DEF AdapterInv, Outcomes
  <1>2. OneTimelyAnswer
    <2>1. ASSUME NEW i \in DOMAIN sendOutcomes, sendOutcomes[i].result = "answer" PROVE
            /\ \A j \in 1..i : sendOutcomes[j].result = "answer" => sendOutcomes[j].no = sendOutcomes[i].no
            /\ ~sendOutcomes[i].late /\ (Spawns => sendOutcomes[i].reason = "none")
      <3>1. 1..i \subseteq DOMAIN sendOutcomes
        BY <1>1
      <3>2. QED
        BY <1>1, <2>1, <3>1 DEF AnswersAreFiled, Filed, Spawns
    <2>2. QED
      BY <2>1 DEF OneTimelyAnswer
  <1>3. StopsAreReported
    BY <1>1 DEF StopsAreReported, Reported, Tells, Spawns
  <1>4. SendsEndThemselves
    <2>1. pipesHeld \in BOOLEAN
      BY DEF AdapterInv, SendTypes
    <2>2. QED
      BY <1>1, <2>1 DEF SendsEndThemselves, RunFollowsSend, RunIsOver, Waiting
  <1>5. SandboxFollowsChild
    BY <1>1 DEF SandboxFollowsChild, DirectoriesFollow, RunFollowsSend, Leftover
  <1>6. QED
    BY <1>2, <1>3, <1>4, <1>5 DEF SendsAreHonest

\* Every send of an adapter is honest: one timely answer per id, stops reported, nothing left
\* behind but by a crash.
\* (The send() functions of adapters/src, runChild, terminateChild.)
THEOREM AdaptersAreHonest == AdapterSpec => []SendsAreHonest
  <1>1. AdapterSpec => []AdapterInv
    BY AdapterStarts, AdapterStep, PTL DEF AdapterSpec
  <1>2. QED
    BY <1>1, AdapterInvSays, PTL

-------------------------------------------------------------------------------
(* The conformance suite against the fake adapter.                             *)
\* The types.
FakeType == [behavior : Behaviors, fault : {"none", "throw_quota_limited", "throw_transport"},
             attempts : Nat, replay : [RequestIds -> Nat]]
SuiteType == [at : 0..9, rounds : 0..2, held : Nat, failed : SUBSET RequestIds]

\* The request ids that were composed for.
ComposedIds == {id \in RequestIds : fake.replay[id] # 0}

\* An attempt is counted for each of them, unless the adapter burns twice.
FakeCounts ==
    IF fake.behavior = "double_burn" THEN fake.replay = [id \in RequestIds |-> 0]
    ELSE /\ IsFiniteSet(ComposedIds) /\ fake.attempts = Cardinality(ComposedIds)

\* The first attempt of all is the one for P1.
FirstIsP1 ==
    fake.behavior # "double_burn" =>
        /\ fake.attempts = 0 => suite.at \in {0, 1}
        /\ fake.attempts > 0 => fake.replay["P1"] = 1
        /\ \A id \in RequestIds \ {"P1"} : fake.replay[id] # 1
        /\ fake.replay["P1"] \in {0, 1}

\* What the probes decided so far, and the first answer of P8 while it is compared.
ProbesDecide ==
    /\ suite.at # 0 => suite.failed = OwnProbes(fake.behavior) \cap {Steps[i] : i \in 1..(suite.at - 1)}
    /\ suite.held # 0 =>
          /\ suite.at = 7
          /\ IF fake.behavior = "double_burn" THEN suite.held <= fake.attempts
             ELSE fake.replay["P8"] = suite.held

ConformanceInv ==
    /\ fake \in FakeType /\ suite \in SuiteType /\ FakeCounts /\ FirstIsP1 /\ ProbesDecide
    /\ EachFailsItsOwn /\ DOMAIN suiteRecords = 1..Len(suiteRecords) /\ suiteRecords \in Seq(SUBSET RequestIds)

\* The probes before a position.
Before(at) == {Steps[i] : i \in 1..(at - 1)}
\* What came before each position.
LEMMA StepsInOrder ==
    /\ Before(1) = {} /\ Before(2) = {"P1"} /\ Before(3) = {"P1", "P2"} /\ Before(4) = {"P1", "P2", "P3"}
    /\ Before(5) = {"P1", "P2", "P3", "P4"} /\ Before(6) = {"P1", "P2", "P3", "P4", "P5"}
    /\ Before(7) = {"P1", "P2", "P3", "P4", "P5", "P6"} /\ Before(8) = {"P1", "P2", "P3", "P4", "P5", "P6", "P8"}
    /\ Before(9) = {"P1", "P2", "P3", "P4", "P5", "P6", "P7", "P8"}
  <1>1. /\ Steps[1] = "P1" /\ Steps[2] = "P2" /\ Steps[3] = "P3" /\ Steps[4] = "P4" /\ Steps[5] = "P5"
        /\ Steps[6] = "P6" /\ Steps[7] = "P8" /\ Steps[8] = "P7"
    BY DEF Steps
  <1>2. ASSUME NEW at \in 1..9, NEW p PROVE p \in Before(at) <=> \E i \in 1..(at - 1) : p = Steps[i]
    BY DEF Before
  <1>3. Before(1) = {} /\ Before(2) = {"P1"} /\ Before(3) = {"P1", "P2"} /\ Before(4) = {"P1", "P2", "P3"}
    BY <1>1, <1>2
  <1>4. ASSUME NEW at \in 1..8 PROVE Before(at + 1) = Before(at) \cup {Steps[at]}
    <2>1. 1..at = 1..(at - 1) \cup {at}
      OBVIOUS
    <2>2. Before(at + 1) = {Steps[i] : i \in 1..at}
      BY DEF Before
    <2>3. QED
      BY <2>1, <2>2 DEF Before
  <1>5. Before(5) = {"P1", "P2", "P3", "P4"} /\ Before(6) = {"P1", "P2", "P3", "P4", "P5"}
    BY <1>1, <1>3, <1>4
  <1>6. Before(7) = {"P1", "P2", "P3", "P4", "P5", "P6"} /\ Before(8) = {"P1", "P2", "P3", "P4", "P5", "P6", "P8"}
    BY <1>1, <1>4, <1>5
  <1>7. Before(9) = {"P1", "P2", "P3", "P4", "P5", "P6", "P7", "P8"}
    BY <1>1, <1>4, <1>6
  <1>8. QED
    BY <1>3, <1>5, <1>6, <1>7

\* Each probe has one position.
LEMMA Positions ==
    ASSUME NEW at \in 0..9
    PROVE  /\ at # 0 /\ Steps[at] = "P1" => at = 1
           /\ at # 0 /\ Steps[at] = "P2" => at = 2
           /\ at # 0 /\ Steps[at] = "P3" => at = 3
           /\ at # 0 /\ Steps[at] = "P4" => at = 4
           /\ at # 0 /\ Steps[at] = "P5" => at = 5
           /\ at # 0 /\ Steps[at] = "P6" => at = 6
           /\ at # 0 /\ Steps[at] = "P8" => at = 7
           /\ at # 0 /\ Steps[at] = "P7" => at = 8
           /\ at # 0 /\ Steps[at] = "sample" => at = 9
  <1>1. /\ Steps[1] = "P1" /\ Steps[2] = "P2" /\ Steps[3] = "P3" /\ Steps[4] = "P4" /\ Steps[5] = "P5"
        /\ Steps[6] = "P6" /\ Steps[7] = "P8" /\ Steps[8] = "P7" /\ Steps[9] = "sample"
    BY DEF Steps
  <1>2. at \in {0, 1, 2, 3, 4, 5, 6, 7, 8, 9}
    OBVIOUS
  <1>3. QED
    BY <1>1, <1>2

\* What one send does to the adapter: an id it composed for already, a new one, or one burnt.
LEMMA SendKeeps ==
    ASSUME ConformanceInv, NEW id \in RequestIds, SendFake(id), suite.at # 0, suite.at = 1 => id = "P1"
    PROVE  /\ fake' \in FakeType /\ fake'.behavior = fake.behavior /\ FakeCounts'
           /\ AttemptOf(id) \in Nat /\ 1 <= AttemptOf(id) /\ fake.attempts <= fake'.attempts
           /\ fake.behavior = "double_burn" => AttemptOf(id) = fake.attempts + 1 /\ fake'.attempts = AttemptOf(id)
           /\ fake.behavior # "double_burn" =>
                 /\ fake'.replay[id] = AttemptOf(id) /\ fake'.attempts > 0
                 /\ fake.replay[id] # 0 => AttemptOf(id) = fake.replay[id]
                 /\ fake'.replay["P1"] = 1 /\ \A other \in RequestIds \ {"P1"} : fake'.replay[other] # 1
                 /\ AttemptOf(id) = 1 <=> id = "P1"
           /\ suite.at = 1 /\ fake.behavior # "double_burn" => AttemptOf("P1") = 1
  <1>1. /\ fake \in FakeType /\ fake.attempts \in Nat /\ fake.replay \in [RequestIds -> Nat] /\ "P1" \in RequestIds
        /\ FakeCounts /\ FirstIsP1 /\ fake.fault = "none"
    BY DEF ConformanceInv, FakeType, RequestIds, SendFake
  <1>2. CASE Cached(id)
    <2>1. fake' = fake /\ AttemptOf(id) = fake.replay[id] /\ fake.behavior # "double_burn" /\ fake.replay[id] # 0
      BY <1>2 DEF SendFake, AttemptOf, Cached
    <2>2. id \in ComposedIds /\ IsFiniteSet(ComposedIds) /\ fake.attempts = Cardinality(ComposedIds)
      BY <1>1, <2>1 DEF ComposedIds, FakeCounts
    <2>3. fake.attempts > 0
      <3>1. fake.attempts # 0
        BY <2>2, FS_EmptySet
      <3>2. QED
        BY <1>1, <3>1
    <2>4. FakeCounts'
      BY <1>1, <2>1 DEF FakeCounts, ComposedIds
    <2>5. /\ fake.replay["P1"] = 1 /\ \A other \in RequestIds \ {"P1"} : fake.replay[other] # 1
      BY <1>1, <2>1, <2>3 DEF FirstIsP1
    <2>6. fake.replay[id] \in Nat /\ (fake.replay[id] = 1 <=> id = "P1")
      BY <1>1, <2>5
    <2>7. QED
      BY <1>1, <2>1, <2>3, <2>4, <2>5, <2>6
  <1>3. CASE ~Cached(id) /\ fake.behavior = "double_burn"
    <2> DEFINE burnt == [fake.replay EXCEPT ![id] = 0]
    <2>1. fake' = [fake EXCEPT !.attempts = fake.attempts + 1, !.replay = burnt]
      BY <1>3 DEF SendFake
    <2>2. fake.replay = [other \in RequestIds |-> 0]
      BY <1>1, <1>3 DEF FakeCounts
    <2>3. burnt = fake.replay
      BY <2>2
    <2> HIDE DEF burnt
    <2>4. /\ fake' \in FakeType /\ fake'.behavior = fake.behavior /\ fake'.replay = fake.replay
          /\ fake'.attempts = fake.attempts + 1
      <3>1. burnt \in [RequestIds -> Nat]
        BY <1>1, <2>3
      <3> DEFINE count == fake.attempts + 1
      <3>2. count \in Nat
        BY <1>1
      <3> HIDE DEF count
      <3>3. fake' = [behavior |-> fake.behavior, fault |-> fake.fault, attempts |-> count, replay |-> burnt]
        BY <1>1, <2>1 DEF FakeType, count
      <3>4. fake' \in FakeType /\ fake'.behavior = fake.behavior /\ fake'.replay = burnt /\ fake'.attempts = count
        BY <1>1, <3>1, <3>2, <3>3 DEF FakeType
      <3>5. QED
        BY <2>3, <3>4 DEF count
    <2>5. FakeCounts'
      BY <1>3, <2>2, <2>4 DEF FakeCounts
    <2>6. AttemptOf(id) = fake.attempts + 1
      BY <1>3 DEF AttemptOf
    <2>7. QED
      BY <1>1, <1>3, <2>4, <2>5, <2>6
  <1>4. CASE ~Cached(id) /\ fake.behavior # "double_burn"
    <2> DEFINE next == [fake.replay EXCEPT ![id] = fake.attempts + 1]
    <2>1. fake' = [fake EXCEPT !.attempts = fake.attempts + 1, !.replay = next] /\ fake.replay[id] = 0
      BY <1>4 DEF SendFake, Cached
    <2>2. /\ next \in [RequestIds -> Nat] /\ next[id] = fake.attempts + 1
          /\ \A other \in RequestIds \ {id} : next[other] = fake.replay[other]
      BY <1>1
    <2> HIDE DEF next
    <2>3. /\ fake' \in FakeType /\ fake'.behavior = fake.behavior /\ fake'.replay = next
          /\ fake'.attempts = fake.attempts + 1
      BY <1>1, <2>1, <2>2 DEF FakeType
    <2>4. FakeCounts'
      <3>1. IsFiniteSet(ComposedIds) /\ fake.attempts = Cardinality(ComposedIds) /\ id \notin ComposedIds
        BY <1>1, <1>4, <2>1 DEF FakeCounts, ComposedIds
      <3>2. ComposedIds' = ComposedIds \cup {id}
        BY <1>1, <2>2, <2>3 DEF ComposedIds
      <3>3. IsFiniteSet(ComposedIds \cup {id}) /\ Cardinality(ComposedIds \cup {id}) = Cardinality(ComposedIds) + 1
        BY <3>1, FS_AddElement
      <3>4. QED
        BY <1>4, <2>3, <3>1, <3>2, <3>3 DEF FakeCounts
    <2>5. AttemptOf(id) = fake.attempts + 1
      BY <1>4 DEF AttemptOf
    <2>6. /\ fake.attempts = 0 => suite.at = 1
          /\ fake.attempts > 0 => fake.replay["P1"] = 1
          /\ \A other \in RequestIds \ {"P1"} : fake.replay[other] # 1
          /\ fake.replay["P1"] \in {0, 1}
      BY <1>1, <1>4 DEF FirstIsP1
    <2>7. fake.attempts = 0 <=> id = "P1"
      <3>1. fake.attempts = 0 => id = "P1"
        BY <2>6
      <3>2. id = "P1" => fake.attempts = 0
        BY <1>1, <2>1, <2>6
      <3>3. QED
        BY <3>1, <3>2
    <2>8. next["P1"] = 1 /\ \A other \in RequestIds \ {"P1"} : next[other] # 1
      <3>1. CASE id = "P1"
        BY <1>1, <2>2, <2>6, <2>7, <3>1
      <3>2. CASE id # "P1"
        <4>1. fake.attempts > 0 /\ next[id] # 1
          BY <1>1, <2>2, <2>7, <3>2
        <4>2. next["P1"] = fake.replay["P1"]
          BY <1>1, <2>2, <3>2
        <4>3. QED
          BY <2>2, <2>6, <4>1, <4>2
      <3>3. QED
        BY <3>1, <3>2
    <2>9. QED
      BY <1>1, <1>4, <2>1, <2>2, <2>3, <2>4, <2>5, <2>7, <2>8
  <1>5. QED
    BY <1>2, <1>3, <1>4

\* What the probes own, per behaviour.
LEMMA OwnedProbes ==
    ASSUME NEW behavior \in Behaviors
    PROVE  /\ "P1" \in OwnProbes(behavior) <=> behavior \in {"ignore_schema", "schema_fail_first"}
           /\ "P2" \in OwnProbes(behavior) <=> behavior = "prose_only"
           /\ "P3" \in OwnProbes(behavior) <=> behavior = "ignore_schema"
           /\ "P4" \notin OwnProbes(behavior) /\ "P5" \notin OwnProbes(behavior) /\ "P7" \notin OwnProbes(behavior)
           /\ "P6" \in OwnProbes(behavior) <=> behavior = "fabricate_execution"
           /\ "P8" \in OwnProbes(behavior) <=> behavior = "double_burn"
           /\ OwnProbes(behavior) \subseteq {"P1", "P2", "P3", "P6", "P8"}
  <1>1. CASE behavior = "prose_only"
    BY <1>1 DEF OwnProbes
  <1>2. CASE behavior = "fabricate_execution"
    BY <1>2 DEF OwnProbes
  <1>3. CASE behavior = "ignore_schema"
    BY <1>3 DEF OwnProbes
  <1>4. CASE behavior = "double_burn"
    BY <1>4 DEF OwnProbes
  <1>5. CASE behavior = "schema_fail_first"
    BY <1>5 DEF OwnProbes
  <1>6. CASE behavior \notin {"prose_only", "fabricate_execution", "ignore_schema", "double_burn", "schema_fail_first"}
    BY <1>6 DEF OwnProbes
  <1>7. QED
    BY <1>1, <1>2, <1>3, <1>4, <1>5, <1>6

\* A probe that ends is decided as its owner says, and the next one comes.
LEMMA VerdictKeeps ==
    ASSUME ConformanceInv, NEW id \in RequestIds, SendFake(id), suite.at \in 1..8, suite.at = 1 => id = "P1",
           NEW probe \in RequestIds, probe = Steps[suite.at], NEW pass \in BOOLEAN, Verdict(probe, pass),
           pass <=> probe \notin OwnProbes(fake.behavior), UNCHANGED suiteRecords
    PROVE  ConformanceInv'
  <1>1. /\ fake' \in FakeType /\ fake'.behavior = fake.behavior /\ FakeCounts'
        /\ fake.behavior # "double_burn" =>
              /\ fake'.attempts > 0
              /\ fake'.replay["P1"] = 1 /\ \A other \in RequestIds \ {"P1"} : fake'.replay[other] # 1
    BY SendKeeps
  <1>2. /\ suite \in SuiteType /\ ProbesDecide /\ EachFailsItsOwn
        /\ DOMAIN suiteRecords = 1..Len(suiteRecords) /\ suiteRecords \in Seq(SUBSET RequestIds)
    BY DEF ConformanceInv
  <1>3. /\ suite'.at = suite.at + 1 /\ suite'.rounds = 0 /\ suite'.held = 0
        /\ suite'.failed = (IF pass THEN suite.failed ELSE suite.failed \cup {probe}) /\ suite' \in SuiteType
    <2> DEFINE failed == IF pass THEN suite.failed ELSE suite.failed \cup {probe}
    <2>1. suite' = [at |-> suite.at + 1, rounds |-> 0, held |-> 0, failed |-> failed]
      BY DEF Verdict
    <2>2. failed \in SUBSET RequestIds /\ suite.at + 1 \in 0..9
      BY <1>2 DEF SuiteType
    <2> HIDE DEF failed
    <2>3. /\ suite'.at = suite.at + 1 /\ suite'.rounds = 0 /\ suite'.held = 0 /\ suite'.failed = failed
          /\ suite' \in SuiteType
      BY <2>1, <2>2 DEF SuiteType
    <2>4. QED
      BY <2>3 DEF failed
  <1>4. suite'.failed = OwnProbes(fake.behavior) \cap Before(suite.at + 1)
    <2>1. suite.failed = OwnProbes(fake.behavior) \cap Before(suite.at)
      BY <1>2 DEF ProbesDecide, Before
    <2>2. Before(suite.at + 1) = Before(suite.at) \cup {probe}
      <3>1. 1..suite.at = 1..(suite.at - 1) \cup {suite.at}
        OBVIOUS
      <3>2. Before(suite.at + 1) = {Steps[i] : i \in 1..suite.at}
        BY DEF Before
      <3>3. QED
        BY <3>1, <3>2 DEF Before
    <2>3. QED
      BY <1>3, <2>1, <2>2
  <1>5. ProbesDecide'
    <2>1. suite'.held = 0 /\ suite'.at = suite.at + 1
      BY <1>3
    <2>2. suite'.failed = OwnProbes(fake'.behavior) \cap {Steps[i] : i \in 1..(suite'.at - 1)}
      BY <1>1, <1>4, <2>1 DEF Before
    <2>3. QED
      BY <2>1, <2>2 DEF ProbesDecide
  <1>6. FirstIsP1'
    BY <1>1 DEF FirstIsP1
  <1>7. EachFailsItsOwn'
    BY <1>1, <1>2 DEF EachFailsItsOwn
  <1>8. QED
    BY <1>1, <1>2, <1>3, <1>5, <1>6, <1>7 DEF ConformanceInv

\* A send that decides nothing yet.
LEMMA PendingKeeps ==
    ASSUME ConformanceInv, NEW id \in RequestIds, SendFake(id), suite.at \in 2..8,
           suite' \in SuiteType, suite'.at = suite.at, suite'.failed = suite.failed, UNCHANGED suiteRecords,
           suite'.held # 0 =>
              /\ suite.at = 7
              /\ IF fake.behavior = "double_burn" THEN suite'.held <= fake'.attempts
                 ELSE fake'.replay["P8"] = suite'.held
    PROVE  ConformanceInv'
  <1>1. /\ fake' \in FakeType /\ fake'.behavior = fake.behavior /\ FakeCounts'
        /\ fake.behavior # "double_burn" =>
              /\ fake'.attempts > 0
              /\ fake'.replay["P1"] = 1 /\ \A other \in RequestIds \ {"P1"} : fake'.replay[other] # 1
    BY SendKeeps
  <1>2. /\ suite \in SuiteType /\ ProbesDecide /\ EachFailsItsOwn
        /\ DOMAIN suiteRecords = 1..Len(suiteRecords) /\ suiteRecords \in Seq(SUBSET RequestIds)
    BY DEF ConformanceInv
  <1>3. ProbesDecide'
    BY <1>1, <1>2 DEF ProbesDecide
  <1>4. FirstIsP1'
    BY <1>1 DEF FirstIsP1
  <1>5. EachFailsItsOwn'
    BY <1>1, <1>2 DEF EachFailsItsOwn
  <1>6. QED
    BY <1>1, <1>2, <1>3, <1>4, <1>5 DEF ConformanceInv

\* The probes that are one send.
LEMMA ProbeKeeps == ASSUME ConformanceInv, runProbe PROVE ConformanceInv'
  <1>1. PICK probe \in {"P1", "P2", "P4", "P5", "P6"} :
           /\ AtProbe(probe) /\ SendFake(probe)
           /\ Verdict(probe, Passes(probe, Response(probe, probe))) /\ UNCHANGED suiteRecords
    BY DEF runProbe
  <1>2. suite.at \in 0..9 /\ fake.behavior \in Behaviors
    BY DEF ConformanceInv, SuiteType, FakeType
  <1>3. /\ suite.at \in 1..8 /\ probe = Steps[suite.at] /\ probe \in RequestIds
        /\ suite.at = 1 => probe = "P1"
        /\ probe = "P1" => suite.at = 1
    BY <1>1, <1>2, Positions DEF AtProbe, RequestIds
  <1> DEFINE attempt == AttemptOf(probe)
             pass == Passes(probe, Response(probe, probe))
  <1>4. fake.behavior # "double_burn" => (attempt = 1 <=> probe = "P1")
    BY <1>1, <1>3, SendKeeps
  <1>5. pass \in BOOLEAN
    BY DEF Passes
  <1>6. pass <=> probe \notin OwnProbes(fake.behavior)
    <2>1. CASE probe = "P1"
      <3>1. pass <=> ~(fake.behavior = "ignore_schema" \/ (fake.behavior = "schema_fail_first" /\ attempt = 1))
        BY <2>1 DEF Passes, Response, compose
      <3>2. QED
        BY <1>2, <1>4, <2>1, <3>1, OwnedProbes
    <2>2. CASE probe = "P2"
      <3>1. pass <=> fake.behavior # "prose_only"
        BY <2>2 DEF Passes, Response, compose
      <3>2. QED
        BY <1>2, <2>2, <3>1, OwnedProbes
    <2>3. CASE probe = "P4"
      <3>1. pass <=> ~(fake.behavior = "schema_fail_first" /\ attempt = 1)
        BY <2>3 DEF Passes, Response, compose
      <3>2. QED
        BY <1>2, <1>4, <2>3, <3>1, OwnedProbes
    <2>4. CASE probe = "P5"
      <3>1. pass
        BY <2>4 DEF Passes, Response, compose
      <3>2. QED
        BY <1>2, <2>4, <3>1, OwnedProbes
    <2>5. CASE probe = "P6"
      <3>1. pass <=> fake.behavior # "fabricate_execution"
        BY <2>5 DEF Passes, Response, compose
      <3>2. QED
        BY <1>2, <2>5, <3>1, OwnedProbes
    <2>6. QED
      BY <1>1, <2>1, <2>2, <2>3, <2>4, <2>5
  <1> HIDE DEF pass
  <1>7. Verdict(probe, pass)
    BY <1>1 DEF pass
  <1>8. QED
    BY <1>1, <1>3, <1>5, <1>6, <1>7, VerdictKeeps

\* The repair rounds.
LEMMA RepairKeeps == ASSUME ConformanceInv, proposeWithRepair PROVE ConformanceInv'
  <1> DEFINE conforms == Response(RepairId, "P3").conforms
             attempt == AttemptOf(RepairId)
  <1>1. /\ AtProbe("P3") /\ SendFake(RepairId) /\ UNCHANGED suiteRecords
        /\ IF conforms \/ suite.rounds = maxRepairs THEN Verdict("P3", conforms)
           ELSE suite' = [suite EXCEPT !.rounds = @ + 1]
    BY DEF proposeWithRepair
  <1>2. suite \in SuiteType /\ suite.at \in 0..9 /\ fake.behavior \in Behaviors /\ suite.rounds \in {0, 1, 2}
    BY DEF ConformanceInv, SuiteType, FakeType
  <1>3. suite.at = 3 /\ "P3" = Steps[suite.at] /\ "P3" \in RequestIds
    BY <1>1, <1>2, Positions DEF AtProbe, RequestIds
  <1>4. RepairId \in RequestIds /\ RepairId # "P1"
    <2>1. CASE suite.rounds = 0
      BY <2>1 DEF RepairId, RequestIds
    <2>2. CASE suite.rounds = 1
      BY <2>2 DEF RepairId, RequestIds
    <2>3. CASE suite.rounds = 2
      BY <2>3 DEF RepairId, RequestIds
    <2>4. QED
      BY <1>2, <2>1, <2>2, <2>3
  <1>5. fake.behavior # "double_burn" => attempt # 1
    BY <1>1, <1>3, <1>4, SendKeeps
  <1>6. conforms \in BOOLEAN /\ (conforms <=> "P3" \notin OwnProbes(fake.behavior))
    <2>1. conforms = ~(fake.behavior = "ignore_schema" \/ (fake.behavior = "schema_fail_first" /\ attempt = 1))
      BY DEF Response, compose
    <2>2. QED
      BY <1>2, <1>5, <2>1, OwnedProbes
  <1> HIDE DEF conforms
  <1>7. CASE conforms \/ suite.rounds = maxRepairs
    <2>1. Verdict("P3", conforms)
      BY <1>1, <1>7
    <2>2. QED
      BY <1>1, <1>3, <1>4, <1>6, <2>1, VerdictKeeps
  <1>8. CASE ~(conforms \/ suite.rounds = maxRepairs)
    <2>1. suite' = [suite EXCEPT !.rounds = @ + 1]
      BY <1>1, <1>8
    <2>2. /\ suite' \in SuiteType /\ suite'.at = suite.at /\ suite'.failed = suite.failed /\ suite'.held = suite.held
      BY <1>2, <1>8, <2>1 DEF SuiteType, maxRepairs
    <2>3. suite'.held = 0
      BY <1>3, <2>2 DEF ConformanceInv, ProbesDecide
    <2>4. QED
      BY <1>1, <1>3, <1>4, <2>2, <2>3, PendingKeeps
  <1>9. QED
    BY <1>7, <1>8

\* The same id twice: the same answer, unless it burns twice.
LEMMA RetryKeeps == ASSUME ConformanceInv, RetryProbe PROVE ConformanceInv'
  <1> DEFINE attempt == AttemptOf("P8")
  <1>1. /\ AtProbe("P8") /\ SendFake("P8") /\ UNCHANGED suiteRecords
        /\ IF suite.held = 0 THEN suite' = [suite EXCEPT !.held = attempt]
           ELSE Verdict("P8", attempt = suite.held)
    BY DEF RetryProbe, Response, compose
  <1>2. suite \in SuiteType /\ suite.at \in 0..9 /\ fake.behavior \in Behaviors /\ suite.held \in Nat /\ fake.attempts \in Nat
    BY DEF ConformanceInv, SuiteType, FakeType
  <1>3. suite.at = 7 /\ "P8" = Steps[suite.at] /\ "P8" \in RequestIds
    BY <1>1, <1>2, Positions DEF AtProbe, RequestIds
  <1>4. /\ attempt \in Nat /\ 1 <= attempt
        /\ fake.behavior = "double_burn" => attempt = fake.attempts + 1 /\ fake'.attempts = attempt
        /\ fake.behavior # "double_burn" =>
              fake'.replay["P8"] = attempt /\ (fake.replay["P8"] # 0 => attempt = fake.replay["P8"])
    BY <1>1, <1>3, SendKeeps
  <1> HIDE DEF attempt
  <1>5. CASE suite.held = 0
    <2>1. suite' = [suite EXCEPT !.held = attempt]
      BY <1>1, <1>5
    <2>2. /\ suite' \in SuiteType /\ suite'.at = suite.at /\ suite'.failed = suite.failed /\ suite'.held = attempt
      BY <1>2, <1>4, <2>1 DEF SuiteType
    <2>3. QED
      BY <1>1, <1>3, <1>4, <2>2, PendingKeeps
  <1>6. CASE suite.held # 0
    <2>1. Verdict("P8", attempt = suite.held)
      BY <1>1, <1>6
    <2>2. (attempt = suite.held) <=> "P8" \notin OwnProbes(fake.behavior)
      <3>1. CASE fake.behavior = "double_burn"
        <4>1. attempt # suite.held
          BY <1>2, <1>4, <1>6, <3>1 DEF ConformanceInv, ProbesDecide
        <4>2. QED
          BY <1>2, <3>1, <4>1, OwnedProbes
      <3>2. CASE fake.behavior # "double_burn"
        <4>1. attempt = suite.held
          BY <1>2, <1>4, <1>6, <3>2 DEF ConformanceInv, ProbesDecide
        <4>2. QED
          BY <1>2, <3>2, <4>1, OwnedProbes
      <3>3. QED
        BY <3>1, <3>2
    <2>3. (attempt = suite.held) \in BOOLEAN
      OBVIOUS
    <2> DEFINE same == attempt = suite.held
    <2> HIDE DEF same
    <2>4. same \in BOOLEAN /\ Verdict("P8", same) /\ (same <=> "P8" \notin OwnProbes(fake.behavior))
      BY <2>1, <2>2, <2>3 DEF same
    <2>5. QED
      BY <1>1, <1>3, <2>4, VerdictKeeps
  <1>7. QED
    BY <1>5, <1>6

\* P7 scores and decides nothing.
LEMMA ScoreKeeps == ASSUME ConformanceInv, runP7 PROVE ConformanceInv'
  <1>1. AtProbe("P7") /\ SendFake("P7") /\ Verdict("P7", TRUE) /\ UNCHANGED suiteRecords
    BY DEF runP7
  <1>2. suite.at \in 0..9 /\ fake.behavior \in Behaviors
    BY DEF ConformanceInv, SuiteType, FakeType
  <1>3. suite.at = 8 /\ "P7" = Steps[suite.at] /\ "P7" \in RequestIds
    BY <1>1, <1>2, Positions DEF AtProbe, RequestIds
  <1>4. "P7" \notin OwnProbes(fake.behavior)
    BY <1>2, OwnedProbes
  <1> DEFINE pass == TRUE
  <1>5. pass \in BOOLEAN /\ (pass <=> "P7" \notin OwnProbes(fake.behavior)) /\ Verdict("P7", pass)
    BY <1>1, <1>4
  <1> HIDE DEF pass
  <1>6. QED
    BY <1>1, <1>3, <1>5, VerdictKeeps

\* The sample ends the suite, with its record.
LEMMA SampleKeeps == ASSUME ConformanceInv, SampleVersion PROVE ConformanceInv'
  <1>1. /\ AtProbe("sample") /\ SendFake("P2") /\ suite' = NoSuite
        /\ suiteRecords' = Append(suiteRecords, suite.failed)
    BY DEF SampleVersion
  <1>2. suite \in SuiteType /\ suite.at \in 0..9 /\ fake.behavior \in Behaviors
    BY DEF ConformanceInv, SuiteType, FakeType
  <1>3. suite.at = 9 /\ "P2" \in RequestIds
    BY <1>1, <1>2, Positions DEF AtProbe, RequestIds
  <1>4. /\ fake' \in FakeType /\ fake'.behavior = fake.behavior /\ FakeCounts'
        /\ fake.behavior # "double_burn" =>
              /\ fake'.attempts > 0
              /\ fake'.replay["P1"] = 1 /\ \A other \in RequestIds \ {"P1"} : fake'.replay[other] # 1
    BY <1>1, <1>3, SendKeeps
  <1>5. suite' \in SuiteType /\ suite'.at = 0 /\ suite'.held = 0
    BY <1>1 DEF NoSuite, SuiteType
  <1>6. suite.failed = OwnProbes(fake.behavior)
    <2>1. suite.failed = OwnProbes(fake.behavior) \cap Before(9)
      BY <1>3 DEF ConformanceInv, ProbesDecide, Before
    <2>2. OwnProbes(fake.behavior) \subseteq Before(9)
      BY <1>2, OwnedProbes, StepsInOrder
    <2>3. QED
      BY <2>1, <2>2
  <1>7. /\ suiteRecords' \in Seq(SUBSET RequestIds) /\ DOMAIN suiteRecords' = 1..Len(suiteRecords')
        /\ EachFailsItsOwn'
    <2>1. suiteRecords \in Seq(SUBSET RequestIds) /\ suite.failed \in SUBSET RequestIds /\ EachFailsItsOwn
      BY <1>2 DEF ConformanceInv, SuiteType
    <2> DEFINE record == suite.failed
    <2> HIDE DEF record
    <2>2. record \in SUBSET RequestIds /\ suiteRecords' = Append(suiteRecords, record)
      BY <1>1, <2>1 DEF record
    <2>3. /\ suiteRecords' \in Seq(SUBSET RequestIds) /\ DOMAIN suiteRecords' = 1..Len(suiteRecords')
          /\ \A i \in DOMAIN suiteRecords' : suiteRecords'[i] = record \/ (i \in DOMAIN suiteRecords /\ suiteRecords'[i] = suiteRecords[i])
      BY <2>1, <2>2
    <2>4. QED
      BY <1>4, <1>6, <2>1, <2>3 DEF EachFailsItsOwn, record
  <1>8. ProbesDecide' /\ FirstIsP1'
    BY <1>4, <1>5 DEF ProbesDecide, FirstIsP1
  <1>9. QED
    BY <1>4, <1>5, <1>7, <1>8 DEF ConformanceInv

\* A suite that starts, and one that throws: the adapter is as it was.
LEMMA SuiteKeeps ==
    ASSUME ConformanceInv, runConformanceSuite \/ SuiteThrows \/ UNCHANGED conformanceVars
    PROVE  ConformanceInv'
  <1>1. UNCHANGED <<fake, suiteRecords>>
    BY DEF runConformanceSuite, SuiteThrows, conformanceVars
  <1>2. FakeCounts' /\ EachFailsItsOwn'
    BY <1>1 DEF ConformanceInv, FakeCounts, ComposedIds, EachFailsItsOwn
  <1>3. CASE UNCHANGED suite
    BY <1>1, <1>2, <1>3 DEF ConformanceInv, FirstIsP1, ProbesDecide
  <1>4. CASE runConformanceSuite
    <2>1. suite' = [at |-> 1, rounds |-> 0, held |-> 0, failed |-> {}]
      BY <1>4 DEF runConformanceSuite, NoSuite
    <2>2. suite' \in SuiteType /\ suite'.at = 1 /\ suite'.held = 0 /\ suite'.failed = {}
      BY <2>1 DEF SuiteType
    <2>3. ProbesDecide'
      <3>1. 1..(suite'.at - 1) = {}
        BY <2>2
      <3>2. QED
        BY <2>2, <3>1 DEF ProbesDecide
    <2>4. FirstIsP1'
      BY <1>1, <2>2 DEF ConformanceInv, FirstIsP1
    <2>5. QED
      BY <1>1, <1>2, <2>2, <2>3, <2>4 DEF ConformanceInv
  <1>5. CASE SuiteThrows
    <2>1. suite' = NoSuite
      BY <1>5 DEF SuiteThrows
    <2>2. suite' \in SuiteType /\ suite'.at = 0 /\ suite'.held = 0
      BY <2>1 DEF NoSuite, SuiteType
    <2>3. ProbesDecide' /\ FirstIsP1'
      BY <1>1, <2>2 DEF ConformanceInv, FirstIsP1, ProbesDecide
    <2>4. QED
      BY <1>1, <1>2, <2>2, <2>3 DEF ConformanceInv
  <1>6. QED
    BY <1>3, <1>4, <1>5 DEF conformanceVars

\* An adapter that has answered nothing.
LEMMA ConformanceStarts == ConformanceInit => ConformanceInv
  <1> SUFFICES ASSUME ConformanceInit PROVE ConformanceInv
    OBVIOUS
  <1>1. /\ fake \in [behavior : Behaviors, fault : {"none", "throw_quota_limited", "throw_transport"},
                     attempts : {0}, replay : {[id \in RequestIds |-> 0]}]
        /\ suite = NoSuite /\ suiteRecords = <<>>
    BY DEF ConformanceInit
  <1> DEFINE none == [id \in RequestIds |-> 0]
  <1>2. none \in [RequestIds -> Nat] /\ \A id \in RequestIds : none[id] = 0
    OBVIOUS
  <1>3. fake.replay = none
    BY <1>1
  <1> HIDE DEF none
  <1>4. fake \in FakeType /\ fake.attempts = 0
    <2>1. fake \in [behavior : Behaviors, fault : {"none", "throw_quota_limited", "throw_transport"},
                     attempts : {0}, replay : {none}]
      BY <1>1 DEF none
    <2>2. QED
      BY <1>2, <2>1 DEF FakeType
  <1>5. FakeCounts
    <2>1. ComposedIds = {}
      BY <1>2, <1>3 DEF ComposedIds
    <2>2. QED
      BY <1>3, <1>4, <2>1, FS_EmptySet DEF FakeCounts, none
  <1>6. suite \in SuiteType /\ suite.at = 0 /\ suite.held = 0
    BY <1>1 DEF NoSuite, SuiteType
  <1>7. ProbesDecide /\ FirstIsP1
    BY <1>2, <1>3, <1>4, <1>6 DEF ProbesDecide, FirstIsP1, RequestIds
  <1>8. EachFailsItsOwn /\ DOMAIN suiteRecords = 1..Len(suiteRecords) /\ suiteRecords \in Seq(SUBSET RequestIds)
    BY <1>1 DEF EachFailsItsOwn
  <1>9. QED
    BY <1>4, <1>5, <1>6, <1>7, <1>8 DEF ConformanceInv

\* A step of a suite keeps its invariant.
THEOREM ConformanceStep == ConformanceInv /\ [ConformanceNext]_conformanceVars => ConformanceInv'
  <1> SUFFICES ASSUME ConformanceInv, [ConformanceNext]_conformanceVars PROVE ConformanceInv'
    OBVIOUS
  <1>1. \/ runConformanceSuite \/ runProbe \/ proposeWithRepair \/ RetryProbe \/ runP7 \/ SampleVersion
        \/ SuiteThrows \/ UNCHANGED conformanceVars
    BY Zenon DEF ConformanceNext
  <1>2. QED
    BY <1>1, ProbeKeeps, RepairKeeps, RetryKeeps, ScoreKeeps, SampleKeeps, SuiteKeeps, Zenon

\* The sends of a suite before a position, repairs and the retry included.
SentBefore(at) == IF at <= 3 THEN IF at = 0 THEN 0 ELSE at - 1 ELSE IF at <= 7 THEN at + 1 ELSE at + 2

\* Each suite sends twelve requests at most, and an attempt that is replayed was made.
SuiteCounts ==
    /\ fake.fault # "none" => fake.attempts = 0
    /\ fake.attempts <= 12 * Len(suiteRecords) + SentBefore(suite.at) + suite.rounds
                        + (IF suite.held = 0 THEN 0 ELSE 1)
    /\ \A id \in RequestIds : fake.replay[id] <= fake.attempts
    /\ suite.rounds # 0 => suite.at = 3
    /\ Len(suiteRecords) <= MaxSuites /\ (suite.at # 0 => Len(suiteRecords) < MaxSuites)

\* What a suite has sent at most, and by the end of the place it stands at.
LEMMA SentByThen ==
    ASSUME NEW at \in 0..9, NEW rounds \in {0, 1, 2}, NEW held \in {0, 1},
           rounds # 0 => at = 3, held # 0 => at = 7
    PROVE  /\ SentBefore(at) \in Nat
           /\ at \in 1..8 => /\ SentBefore(at) + rounds + held + 1 <= SentBefore(at + 1)
                            /\ SentBefore(at + 1) \in Nat
           /\ at = 0 => SentBefore(at) + rounds + held = 0
           /\ SentBefore(at) + rounds + held <= 12
  <1>1. at \in {0, 1, 2, 3, 4, 5, 6, 7, 8, 9}
    OBVIOUS
  <1>2. /\ SentBefore(0) = 0 /\ SentBefore(1) = 0 /\ SentBefore(2) = 1 /\ SentBefore(3) = 2
        /\ SentBefore(4) = 5 /\ SentBefore(5) = 6 /\ SentBefore(6) = 7 /\ SentBefore(7) = 8
        /\ SentBefore(8) = 10 /\ SentBefore(9) = 11
    BY DEF SentBefore
  <1>3. rounds <= 2 /\ held <= 1 /\ (at # 3 => rounds = 0) /\ (at # 7 => held = 0)
    OBVIOUS
  <1>4. QED
    BY <1>1, <1>2, <1>3

\* A send composes once at most.
LEMMA SendCounted ==
    ASSUME ConformanceInv, SuiteCounts, NEW id \in RequestIds, SendFake(id)
    PROVE  /\ fake.fault = "none" /\ fake'.fault = "none" /\ fake'.attempts \in {fake.attempts, fake.attempts + 1}
           /\ \A other \in RequestIds : fake'.replay[other] <= fake'.attempts
  <1>1. fake \in FakeType /\ fake.attempts \in Nat /\ fake.replay \in [RequestIds -> Nat] /\ fake.fault = "none"
    BY DEF ConformanceInv, FakeType, SendFake
  <1>2. CASE fake' = fake
    BY <1>1, <1>2 DEF SuiteCounts
  <1>3. CASE fake' # fake
    <2> DEFINE n == IF fake.behavior = "double_burn" THEN 0 ELSE fake.attempts + 1
               next == [fake.replay EXCEPT ![id] = n]
    <2>1. fake' = [fake EXCEPT !.attempts = fake.attempts + 1, !.replay = next]
      BY <1>3 DEF SendFake
    <2>2. n \in Nat /\ n <= fake.attempts + 1
      BY <1>1
    <2> HIDE DEF n
    <2>3. \A other \in RequestIds : next[other] = IF other = id THEN n ELSE fake.replay[other]
      BY <1>1
    <2> HIDE DEF next
    <2>4. fake'.attempts = fake.attempts + 1 /\ fake'.replay = next /\ fake'.fault = fake.fault
      BY <1>1, <2>1 DEF FakeType
    <2>5. ASSUME NEW other \in RequestIds PROVE fake'.replay[other] <= fake'.attempts
      <3>1. fake.replay[other] \in Nat /\ fake.replay[other] <= fake.attempts
        BY <1>1 DEF SuiteCounts
      <3>2. QED
        BY <1>1, <2>2, <2>3, <2>4, <3>1
    <2>6. QED
      BY <1>1, <2>4, <2>5
  <1>4. QED
    BY <1>2, <1>3

\* A probe sends once and moves on, or waits for a repair or the retry.
LEMMA ProbeCounts ==
    ASSUME ConformanceInv, SuiteCounts, runProbe \/ proposeWithRepair \/ RetryProbe \/ runP7
    PROVE  SuiteCounts'
  <1>1. /\ suite \in SuiteType /\ suite.at \in 0..9 /\ suite.rounds \in {0, 1, 2} /\ suite.held \in Nat
        /\ fake.attempts \in Nat /\ Len(suiteRecords) \in Nat
        /\ suite.held # 0 => suite.at = 7
    BY DEF ConformanceInv, SuiteType, FakeType, ProbesDecide
  <1>2. PICK probe \in RequestIds, id \in RequestIds :
           /\ AtProbe(probe) /\ SendFake(id) /\ suiteRecords' = suiteRecords
           /\ \/ \E pass : Verdict(probe, pass)
              \/ /\ probe = "P3" /\ suite.rounds # maxRepairs /\ suite' = [suite EXCEPT !.rounds = @ + 1]
              \/ /\ probe = "P8" /\ suite.held = 0 /\ suite' = [suite EXCEPT !.held = AttemptOf("P8")]
                 /\ id = "P8"
    <2>1. CASE runProbe
      BY <2>1 DEF runProbe, RequestIds
    <2>2. CASE proposeWithRepair
      <3>1. RepairId \in RequestIds
        <4>1. suite.rounds = 0 => RepairId = "P3"
          BY DEF RepairId
        <4>2. suite.rounds = 1 => RepairId = "P3#r1"
          BY DEF RepairId
        <4>3. suite.rounds = 2 => RepairId = "P3#r2"
          BY DEF RepairId
        <4>4. QED
          BY <1>1, <4>1, <4>2, <4>3 DEF RequestIds
      <3>2. "P3" \in RequestIds
        BY DEF RequestIds
      <3> DEFINE conforms == Response(RepairId, "P3").conforms
      <3>3. /\ AtProbe("P3") /\ SendFake(RepairId) /\ suiteRecords' = suiteRecords
            /\ IF conforms \/ suite.rounds = maxRepairs THEN Verdict("P3", conforms)
               ELSE suite' = [suite EXCEPT !.rounds = @ + 1]
        BY <2>2 DEF proposeWithRepair
      <3> HIDE DEF conforms
      <3>4. QED
        BY <3>1, <3>2, <3>3
    <2>3. CASE RetryProbe
      BY <2>3 DEF RetryProbe, RequestIds, Response, compose
    <2>4. CASE runP7
      BY <2>4 DEF runP7, RequestIds
    <2>5. QED
      BY <2>1, <2>2, <2>3, <2>4
  <1>3. /\ fake.fault = "none" /\ fake'.fault = "none" /\ fake'.attempts \in {fake.attempts, fake.attempts + 1}
        /\ \A other \in RequestIds : fake'.replay[other] <= fake'.attempts
    BY <1>2, SendCounted
  <1>4. /\ suite.at \in 1..8
        /\ probe = "P3" => suite.at = 3
        /\ probe = "P8" => suite.at = 7
    <2>1. suite.at # 0 /\ Steps[suite.at] = probe /\ probe # "sample"
      BY <1>2 DEF AtProbe, RequestIds
    <2>2. Steps[9] = "sample"
      BY DEF Steps
    <2>3. QED
      BY <1>1, <2>1, <2>2, Positions
  <1> DEFINE held == IF suite.held = 0 THEN 0 ELSE 1
             next == IF suite'.held = 0 THEN 0 ELSE 1
  <1>5. /\ held \in {0, 1} /\ (held # 0 => suite.at = 7) /\ (suite.rounds # 0 => suite.at = 3)
        /\ fake.attempts <= 12 * Len(suiteRecords) + SentBefore(suite.at) + suite.rounds + held
    BY <1>1 DEF SuiteCounts
  <1>6. SentBefore(suite.at) \in Nat /\ SentBefore(suite.at + 1) \in Nat
        /\ SentBefore(suite.at) + suite.rounds + held + 1 <= SentBefore(suite.at + 1)
    <2> HIDE DEF held
    <2>1. QED
      BY <1>1, <1>4, <1>5, SentByThen
  <1>7. /\ fake'.attempts <= 12 * Len(suiteRecords) + SentBefore(suite.at) + suite.rounds + held + 1
         /\ fake'.attempts <= 12 * Len(suiteRecords) + SentBefore(suite.at + 1)
         /\ SentBefore(suite.at) \in Nat /\ SentBefore(suite.at + 1) \in Nat /\ held \in {0, 1}
         /\ fake'.attempts \in Nat /\ Len(suiteRecords) \in Nat /\ suite.rounds \in Nat
    <2>1. fake.attempts \in Nat /\ Len(suiteRecords) \in Nat /\ suite.rounds \in Nat
      BY <1>1
    <2>2. held \in {0, 1} /\ fake.attempts <= 12 * Len(suiteRecords) + SentBefore(suite.at) + suite.rounds + held
      BY <1>5
    <2>3. fake'.attempts <= fake.attempts + 1 /\ fake'.attempts \in Nat
      BY <1>3, <2>1
    <2> HIDE DEF held
    <2> DEFINE past == 12 * Len(suiteRecords)
               sent == SentBefore(suite.at)
               then == SentBefore(suite.at + 1)
               old == fake.attempts
               new == fake'.attempts
               rounds == suite.rounds
    <2>4. /\ past \in Int /\ sent \in Int /\ then \in Int /\ old \in Int /\ new \in Int
          /\ rounds \in Int /\ held \in Int
          /\ new <= old + 1 /\ old <= past + sent + rounds + held /\ sent + rounds + held + 1 <= then
      BY <1>6, <2>1, <2>2, <2>3
    <2>5. new <= past + sent + rounds + held + 1 /\ new <= past + then
      <3> HIDE DEF past, sent, then, old, new, rounds
      <3>1. QED
        BY <2>4
    <2>6. QED
      BY <1>6, <2>1, <2>2, <2>3, <2>5
  <1>8. SUFFICES /\ fake'.attempts <= 12 * Len(suiteRecords) + SentBefore(suite'.at) + suite'.rounds + next
                 /\ (suite'.rounds # 0 => suite'.at = 3) /\ suite'.at # 0
    <2>1. Len(suiteRecords) <= MaxSuites /\ Len(suiteRecords) < MaxSuites
      BY <1>1, <1>4, ConformanceAssumption DEF SuiteCounts
    <2>2. QED
      BY <1>2, <1>3, <1>8, <2>1 DEF SuiteCounts
  <1>9. CASE \E pass : Verdict(probe, pass)
    <2>1. suite'.at = suite.at + 1 /\ suite'.rounds = 0 /\ suite'.held = 0
      BY <1>9 DEF Verdict
    <2>2. next = 0
      BY <2>1
    <2>3. suite'.at # 0
      BY <1>4, <2>1
    <2> HIDE DEF held, next
    <2>4. fake'.attempts <= 12 * Len(suiteRecords) + SentBefore(suite'.at)
      BY <1>7, <2>1
    <2>5. SentBefore(suite'.at) + suite'.rounds + next = SentBefore(suite'.at)
      BY <1>6, <2>1, <2>2
    <2>6. QED
      BY <1>7, <1>6, <2>1, <2>2, <2>3, <2>4
  <1>10. CASE probe = "P3" /\ suite.rounds # maxRepairs /\ suite' = [suite EXCEPT !.rounds = @ + 1]
    <2>1. suite'.at = suite.at /\ suite'.rounds = suite.rounds + 1 /\ suite'.held = suite.held
      BY <1>1, <1>10 DEF SuiteType
    <2>2. next = held
      BY <2>1
    <2>3. suite'.at # 0 /\ suite'.at = 3
      BY <1>4, <1>10, <2>1
    <2> HIDE DEF held, next
    <2>4. QED
      BY <1>7, <2>1, <2>2, <2>3
  <1>11. CASE /\ probe = "P8" /\ suite.held = 0 /\ suite' = [suite EXCEPT !.held = AttemptOf("P8")] /\ id = "P8"
    <2>1. AttemptOf("P8") \in Nat /\ 1 <= AttemptOf("P8")
      BY <1>2, <1>4, <1>11, SendKeeps
    <2>2. suite'.at = suite.at /\ suite'.rounds = suite.rounds /\ suite'.held = AttemptOf("P8")
      BY <1>1, <1>11 DEF SuiteType
    <2>3. next = 1 /\ held = 0
      BY <1>11, <2>1, <2>2
    <2>4. suite'.at # 0 /\ (suite'.rounds # 0 => suite'.at = 3)
      BY <1>4, <1>5, <2>2
    <2> HIDE DEF held, next
    <2>5. QED
      BY <1>7, <2>2, <2>3, <2>4
  <1>12. QED
    BY <1>2, <1>9, <1>10, <1>11

\* The suite begins, ends with its sample, or is left by an error of the adapter.
LEMMA SuiteBoundsCounts ==
    ASSUME ConformanceInv, SuiteCounts, runConformanceSuite \/ SampleVersion \/ SuiteThrows
    PROVE  SuiteCounts'
  <1>1. /\ suite \in SuiteType /\ suite.at \in 0..9 /\ suite.rounds \in {0, 1, 2} /\ suite.held \in Nat
        /\ fake.attempts \in Nat /\ Len(suiteRecords) \in Nat /\ MaxSuites \in Nat
        /\ suite.held # 0 => suite.at = 7
    BY ConformanceAssumption DEF ConformanceInv, SuiteType, FakeType, ProbesDecide
  <1>2. CASE runConformanceSuite
    <2>1. suite'.at = 1 /\ suite'.rounds = 0 /\ suite'.held = 0 /\ UNCHANGED <<fake, suiteRecords>>
      BY <1>2 DEF runConformanceSuite, NoSuite
    <2>2. SentBefore(1) = 0 /\ SentBefore(0) = 0
      BY DEF SentBefore
    <2>3. suite.at = 0 /\ suite.rounds = 0 /\ suite.held = 0 /\ Len(suiteRecords) < MaxSuites
      BY <1>1, <1>2 DEF runConformanceSuite, SuiteCounts
    <2>4. QED
      BY <1>1, <2>1, <2>2, <2>3 DEF SuiteCounts
  <1>3. CASE SampleVersion
    <2>1. AtProbe("sample") /\ SendFake("P2") /\ suite' = NoSuite /\ suiteRecords' = Append(suiteRecords, suite.failed)
      BY <1>3 DEF SampleVersion
    <2>2. suite.at = 9
      BY <1>1, <2>1, Positions DEF AtProbe
    <2>11. suite.rounds = 0 /\ suite.held = 0
      BY <1>1, <2>2 DEF SuiteCounts
    <2>3. /\ fake.fault = "none" /\ fake'.fault = "none" /\ fake'.attempts \in {fake.attempts, fake.attempts + 1}
          /\ \A other \in RequestIds : fake'.replay[other] <= fake'.attempts
      BY <2>1, SendCounted DEF RequestIds
    <2>4. Len(suiteRecords') = Len(suiteRecords) + 1
      BY <2>1 DEF ConformanceInv
    <2>5. suite'.at = 0 /\ suite'.rounds = 0 /\ suite'.held = 0
      BY <2>1 DEF NoSuite
    <2>6. SentBefore(9) = 11 /\ SentBefore(0) = 0
      BY DEF SentBefore
    <2>7. Len(suiteRecords) < MaxSuites
      BY <2>2 DEF SuiteCounts
    <2>8. fake.attempts <= 12 * Len(suiteRecords) + 11
      BY <1>1, <2>2, <2>6, <2>11 DEF SuiteCounts
    <2>9. fake'.attempts <= 12 * Len(suiteRecords')
      BY <1>1, <2>3, <2>4, <2>8
    <2>10. QED
      BY <1>1, <2>3, <2>4, <2>5, <2>6, <2>7, <2>9 DEF SuiteCounts
  <1>4. CASE SuiteThrows
    <2>1. suite' = NoSuite /\ UNCHANGED <<fake, suiteRecords>> /\ fake.attempts = 0
      BY <1>4 DEF SuiteThrows, SuiteCounts
    <2>2. suite'.at = 0 /\ suite'.rounds = 0 /\ suite'.held = 0 /\ SentBefore(0) = 0
      BY <2>1 DEF NoSuite, SentBefore
    <2>3. QED
      BY <1>1, <2>1, <2>2 DEF SuiteCounts
  <1>5. QED
    BY <1>2, <1>3, <1>4

\* Before the first suite.
LEMMA SuiteCountsStart == ConformanceInit => SuiteCounts
  <1> SUFFICES ASSUME ConformanceInit PROVE SuiteCounts
    OBVIOUS
  <1>1. /\ fake.attempts = 0 /\ fake.replay = [id \in RequestIds |-> 0] /\ suiteRecords = <<>>
        /\ suite.at = 0 /\ suite.rounds = 0 /\ suite.held = 0
    BY DEF ConformanceInit, NoSuite
  <1>2. Len(suiteRecords) = 0 /\ SentBefore(0) = 0
    BY <1>1 DEF SentBefore
  <1>3. QED
    BY <1>1, <1>2, ConformanceAssumption DEF SuiteCounts

\* Every step keeps the counts.
LEMMA SuiteCountsStep == ConformanceInv /\ SuiteCounts /\ [ConformanceNext]_conformanceVars => SuiteCounts'
  <1> SUFFICES ASSUME ConformanceInv, SuiteCounts, [ConformanceNext]_conformanceVars PROVE SuiteCounts'
    OBVIOUS
  <1>1. CASE UNCHANGED conformanceVars
    BY <1>1 DEF conformanceVars, SuiteCounts
  <1>2. CASE ConformanceNext
    BY <1>2, ProbeCounts, SuiteBoundsCounts DEF ConformanceNext
  <1>3. QED
    BY <1>1, <1>2

\* With the invariant they are the types of the suite.
LEMMA ConformanceTyped == ConformanceInv /\ SuiteCounts => ConformanceTypeOK
  <1> SUFFICES ASSUME ConformanceInv, SuiteCounts PROVE ConformanceTypeOK
    OBVIOUS
  <1>1. /\ suite \in SuiteType /\ suite.at \in 0..9 /\ suite.rounds \in {0, 1, 2} /\ suite.held \in Nat
        /\ fake.behavior \in Behaviors /\ fake.attempts \in Nat /\ fake.replay \in [RequestIds -> Nat]
        /\ Len(suiteRecords) \in Nat /\ MaxSuites \in Nat
        /\ suite.held # 0 => suite.at = 7
    BY ConformanceAssumption DEF ConformanceInv, SuiteType, FakeType, ProbesDecide
  <1> DEFINE held == IF suite.held = 0 THEN 0 ELSE 1
  <1>2. /\ held \in {0, 1} /\ (held # 0 => suite.at = 7) /\ (suite.rounds # 0 => suite.at = 3)
        /\ fake.attempts <= 12 * Len(suiteRecords) + SentBefore(suite.at) + suite.rounds + held
    BY <1>1 DEF SuiteCounts
  <1>3. fake.attempts <= 12 * MaxSuites
    <2> HIDE DEF held
    <2>1. /\ SentBefore(suite.at) \in Nat /\ SentBefore(suite.at) + suite.rounds + held <= 12
          /\ suite.at = 0 => SentBefore(suite.at) + suite.rounds + held = 0
      BY <1>1, <1>2, SentByThen
    <2>4. Len(suiteRecords) \in Nat /\ fake.attempts \in Nat /\ suite.rounds \in Nat /\ held \in Nat
      BY <1>1, <1>2
    <2>5. fake.attempts <= 12 * Len(suiteRecords) + 12
      BY <1>2, <2>1, <2>4
    <2>6. suite.at = 0 => fake.attempts <= 12 * Len(suiteRecords)
      BY <1>2, <2>1, <2>4
    <2>3. Len(suiteRecords) <= MaxSuites /\ (suite.at # 0 => Len(suiteRecords) + 1 <= MaxSuites)
      BY <1>1 DEF SuiteCounts
    <2>7. MaxSuites \in Nat
      BY <1>1
    <2>8. QED
      BY <2>3, <2>4, <2>5, <2>6, <2>7
  <1>4. \A id \in RequestIds : fake.replay[id] \in 0..fake.attempts
    BY <1>1 DEF SuiteCounts
  <1>5. Len(Steps) = 9 /\ maxRepairs = 2
    BY DEF Steps, maxRepairs
  <1>6. QED
    BY <1>1, <1>3, <1>4, <1>5 DEF SuiteCounts, ConformanceTypeOK

\* The invariant says what is promised.
LEMMA ConformanceInvSays == ConformanceInv => SuiteDiscriminates
  BY DEF ConformanceInv, SuiteDiscriminates, IdsCostOnce, FakeCounts, ComposedIds

\* Every suite tells its adapter's behaviour, and an id costs once.
\* (runConformanceSuite, FakeAdapter.send.)
THEOREM SuitesDiscriminate == ConformanceSpec => []SuiteDiscriminates
  <1>1. ConformanceSpec => []ConformanceInv
    BY ConformanceStarts, ConformanceStep, PTL DEF ConformanceSpec
  <1>2. QED
    BY <1>1, ConformanceInvSays, PTL

-------------------------------------------------------------------------------
(* ProposalsAreSound: what comes from a model, through the source, an adapter  *)
(* and the probes, for any policies, worktrees, answers and faults.            *)
\* (createAALProposalSource, the send() functions of adapters/src, runConformanceSuite.)
THEOREM ProposalsHold ==
    ProposalSpec /\ AdapterSpec /\ ConformanceSpec => []ProposalsAreSound
  <1>1. ProposalsAreCovered /\ SendsAreHonest /\ SuiteDiscriminates => ProposalsAreSound
    BY DEF ProposalsAreSound
  <1>2. QED
    BY <1>1, RoundsAreCovered, AdaptersAreHonest, SuitesDiscriminate, PTL

===============================================================================
