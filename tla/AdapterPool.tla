------------------------------ MODULE AdapterPool ------------------------------
(* What a run knows of the adapters it may send to, and how it orders them:    *)
(* the registry (aal/src/registry.ts), one circuit breaker per adapter         *)
(* (breaker.ts), the eligibility decision (eligibility.ts), the routers        *)
(* (router.ts, and the shadow recorder of console/backend/src/loop-run.ts),    *)
(* the outcome statistics they read (shadow.ts) and the guarded routing policy *)
(* (routing-config.ts).  All of it is synchronous: operators over a `pool`     *)
(* record, used by the processes that hold one (ProposalSource, Fusion).       *)
(*                                                                             *)
(* allowProbe of breaker.ts has no caller outside its tests and is left out:   *)
(* the half-open probe of the code is whatever send the next round makes.      *)
EXTENDS Integers, Sequences, FiniteSets, SequencesExt

CONSTANTS
    Traits,      \* adapter -> [structured, lineage, probed]: its manifest, and whether it has a health probe
    WindowSize   \* recent sends the breaker counts (5 in the source)

Adapters == DOMAIN Traits
Roles == {"implementer", "test_designer", "diagnostician", "planner", "reviewer"}
HealthReports == {"ok", "quota_threshold", "probe_failed"}

ASSUME AdapterPoolAssumption ==
    /\ WindowSize \in Nat \ {0}
    /\ \A a \in Adapters :
          Traits[a] \in [structured : BOOLEAN, lineage : STRING, probed : BOOLEAN]

-----------------------------------------------------------------------------
(* The circuit breaker of one adapter@model key.  cooled stands for            *)
(* now() - openedAt >= openMs.                                                 *)
ClosedBreaker == [status |-> "closed", window |-> <<>>, cooled |-> FALSE]
OpenBreaker   == [status |-> "open", window |-> <<>>, cooled |-> FALSE]

\* An open breaker becomes half open the first time it is looked at after its cooldown.
Promote(b) ==
    IF b.status = "open" /\ b.cooled THEN [b EXCEPT !.status = "half_open"] ELSE b

Slide(window, ok) ==
    LET longer == Append(window, ok)
    IN  IF Len(longer) > WindowSize THEN Tail(longer) ELSE longer

Failures(window) == Cardinality({i \in DOMAIN window : ~window[i]})

\* failureThreshold is one half of a full window.
TripsOpen(window) == Len(window) >= WindowSize /\ 2 * Failures(window) >= Len(window)

RecordSuccess(b) ==
    IF b.status = "half_open" THEN ClosedBreaker
    ELSE [b EXCEPT !.window = Slide(@, TRUE)]

RecordFailure(b) ==
    CASE b.status = "half_open" -> OpenBreaker
      [] b.status = "open"      -> b
      [] b.status = "closed"    ->
            LET window == Slide(b.window, FALSE)
            IN  IF TripsOpen(window) THEN OpenBreaker ELSE [b EXCEPT !.window = window]

-----------------------------------------------------------------------------
(* The registry: entries in registration order; per entry the conformance      *)
(* record (does it pass, the P7 score), staleness, breaker and cached health.  *)
Entry(passes, score) ==
    [passes |-> passes, score |-> score, stale |-> FALSE,
     breaker |-> ClosedBreaker, health |-> "unknown"]

EmptyPool == [order |-> <<>>, entry |-> <<>>]

\* register(): an adapter whose pass/fail probes do not all pass is refused.
Register(pool, a, passes, score) ==
    IF ~passes THEN pool
    ELSE [order |-> IF a \in DOMAIN pool.entry THEN pool.order ELSE Append(pool.order, a),
          entry |-> [b \in DOMAIN pool.entry \cup {a} |->
                        IF b = a THEN Entry(passes, score) ELSE pool.entry[b]]]

\* A drift-canary run replaces the record; a regression marks the adapter stale.
RecordConformance(pool, a, passes, score) ==
    [pool EXCEPT !.entry[a] = [@ EXCEPT !.passes = passes, !.score = score, !.stale = ~passes]]

Probed(pool) == {a \in DOMAIN pool.entry : Traits[a].probed}

\* refreshHealth(): every probe's report is cached; a probe that throws or hangs reports probe_failed.
RefreshHealth(pool, report) ==
    [pool EXCEPT !.entry = [a \in DOMAIN @ |->
        IF a \in Probed(pool) THEN [@[a] EXCEPT !.health = report[a]] ELSE @[a]]]

HealthChanges(pool, report) == {a \in Probed(pool) : pool.entry[a].health # report[a]}

-----------------------------------------------------------------------------
(* evaluateEligibility: the reasons that deny an adapter, and those that leave *)
(* it unknown.  Only a denial takes it out of the registry's list.             *)
NoHints == [cap |-> 1, excluded |-> {}]    \* no susceptibility cap: every score is within 1

Denials(entry, a, role, hints) ==
    {reason \in {"structured_output_required", "conformance_failed", "stale_conformance",
                 "breaker_open", "health_unavailable", "susceptibility_exceeded", "lineage_excluded"} :
        CASE reason = "structured_output_required" ->
                role \in {"implementer", "test_designer"} /\ ~Traits[a].structured
          [] reason = "conformance_failed"      -> ~entry.passes
          [] reason = "stale_conformance"       -> entry.stale
          [] reason = "breaker_open"            -> entry.breaker.status = "open"
          [] reason = "health_unavailable"      -> entry.health \in HealthReports \ {"ok"}
          [] reason = "susceptibility_exceeded" -> entry.score > hints.cap
          [] reason = "lineage_excluded"        -> Traits[a].lineage \in hints.excluded}

evaluateEligibility(entry, a, role, hints) ==
    CASE Denials(entry, a, role, hints) # {} -> "ineligible"
      [] Denials(entry, a, role, hints) = {} /\ Traits[a].probed /\ entry.health = "unknown" -> "unknown"
      [] OTHER -> "eligible"

\* Looking at a breaker promotes it, so eligible() also changes the pool.
Looked(pool) ==
    [pool EXCEPT !.entry = [a \in DOMAIN @ |-> [@[a] EXCEPT !.breaker = Promote(pool.entry[a].breaker)]]]

eligible(pool, role, hints) ==
    SelectSeq(pool.order, LAMBDA a :
        evaluateEligibility(Looked(pool).entry[a], a, role, hints) # "ineligible")

-----------------------------------------------------------------------------
(* Outcome statistics: a task counts once per adapter that was its live        *)
(* choice, and as a success when it reached REVIEWING.  Routes are the         *)
(* SHADOW_ROUTE events of the log.                                             *)
computeShadowOutcomeStats(routes, reviewing) ==
    [a \in {r.live : r \in ToSet(routes)} |->
        LET tasks == {r.task : r \in {s \in ToSet(routes) : s.live = a}}
        IN  [attempts |-> Cardinality(tasks), reached |-> Cardinality(tasks \cap reviewing)]]

Better(stats, a, b) == stats[a].reached * stats[b].attempts > stats[b].reached * stats[a].attempts

\* The first adapter of the order no other rated one beats; the live choice without evidence.
shadowWouldChoose(order, stats) ==
    LET rated == SelectSeq(order, LAMBDA a : a \in DOMAIN stats)
    IN  IF rated = <<>> THEN order[1]
        ELSE rated[CHOOSE i \in DOMAIN rated :
                /\ \A j \in DOMAIN rated : ~Better(stats, rated[j], rated[i])
                /\ \A j \in 1..(i - 1) : Better(stats, rated[i], rated[j])]

shadowFrozen(pool) == \E a \in DOMAIN pool.entry : pool.entry[a].stale

compareShadow(routes) ==
    [n |-> Len(routes), divergences |-> Cardinality({i \in DOMAIN routes : routes[i].live # routes[i].would})]

shadowProven(routes, minSamples, minDivergences) ==
    LET seen == compareShadow(routes)
    IN  seen.n >= minSamples /\ seen.divergences >= minDivergences

\* The slots of the order that hold a rated adapter, and the rated adapters by rate (a stable sort).
RatedSlots(order, stats) == SelectSeq([i \in DOMAIN order |-> i], LAMBDA i : order[i] \in DOMAIN stats)

RankedByRate(order, stats) ==
    LET rated == SelectSeq(order, LAMBDA a : a \in DOMAIN stats)
        before(i, j) == \/ Better(stats, rated[i], rated[j])
                        \/ i < j /\ ~Better(stats, rated[j], rated[i])
    IN  [k \in DOMAIN rated |->
            rated[CHOOSE i \in DOMAIN rated :
                    Cardinality({j \in DOMAIN rated : j # i /\ before(j, i)}) = k - 1]]

\* Rated adapters trade places among themselves; an unrated one keeps its slot.
reorderByOutcome(order, stats) ==
    LET slots == RatedSlots(order, stats)
    IN  [i \in DOMAIN order |->
            IF \E k \in DOMAIN slots : slots[k] = i
            THEN RankedByRate(order, stats)[CHOOSE k \in DOMAIN slots : slots[k] = i]
            ELSE order[i]]

swapWithRatedRunnerUp(order, slots) ==
    IF Len(slots) < 2 THEN order
    ELSE [order EXCEPT ![slots[1]] = order[slots[2]], ![slots[2]] = order[slots[1]]]

\* The plain router, the outcome router (wrapRouterForOutcome) and what both leave in the log.
\* explore is the outcome of the hash of the round's key against epsilon.
Ordered(pool, role, hints, mode, stats, explore) ==
    LET plain == eligible(pool, role, hints)
        best  == reorderByOutcome(plain, stats)
        slots == RatedSlots(plain, stats)
    IN  CASE mode # "active" \/ shadowFrozen(pool) -> plain
          [] OTHER -> IF explore THEN swapWithRatedRunnerUp(best, slots) ELSE best

\* wrapRouterForShadow records the live choice of every round that is not frozen.
ShadowRoute(pool, order, mode, stats, task) ==
    IF mode = "off" \/ order = <<>> \/ shadowFrozen(pool) THEN <<>>
    ELSE <<[task |-> task, live |-> order[1], would |-> shadowWouldChoose(order, stats)]>>

-----------------------------------------------------------------------------
(* The routing policy: a field that is missing or malformed ("bad") falls back *)
(* to the strictest value, never to a looser one.                              *)
DEFAULT_ROUTING_CONFIG == [cap |-> 0, maxParallel |-> 1, bucketed |-> {}, mode |-> "off", epsilon |-> 0]

guardSusceptibility(v) == IF v \in {0, 1} THEN v ELSE DEFAULT_ROUTING_CONFIG.cap
guardMaxParallel(v)    == IF v \in Nat \ {0} THEN v ELSE DEFAULT_ROUTING_CONFIG.maxParallel
guardMode(v)           == IF v \in {"off", "shadow", "active"} THEN v ELSE DEFAULT_ROUTING_CONFIG.mode
guardEpsilon(v)        == IF v \in 0..99 THEN v ELSE DEFAULT_ROUTING_CONFIG.epsilon
guardBuckets(buckets)  == {b.adapter : b \in {c \in buckets : c.capacity >= 0 /\ c.refill >= 0}}

parseRoutingConfig(raw) ==
    IF raw = <<>> THEN DEFAULT_ROUTING_CONFIG
    ELSE [cap |-> guardSusceptibility(raw.cap), maxParallel |-> guardMaxParallel(raw.maxParallel),
          bucketed |-> guardBuckets(raw.buckets), mode |-> guardMode(raw.mode),
          epsilon |-> guardEpsilon(raw.epsilon)]

BreakerType ==
    [status : {"closed", "open", "half_open"}, window : {w \in Seq(BOOLEAN) : Len(w) <= WindowSize},
     cooled : BOOLEAN]

EntryType ==
    [passes : BOOLEAN, score : Int, stale : BOOLEAN, breaker : BreakerType,
     health : HealthReports \cup {"unknown"}]

PoolTypeOK(pool) ==
    /\ pool = [order |-> pool.order, entry |-> pool.entry]
    /\ pool.order \in Seq(Adapters)
    /\ pool.entry \in [ToSet(pool.order) -> EntryType]
=============================================================================
