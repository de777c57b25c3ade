----------------------------- MODULE ProposalSource -----------------------------
(* createAALProposalSource (aal/src/source.ts) with its bounded schema repair  *)
(* (repair.ts): one call of propose() after another for one task.  A round     *)
(* builds the context, refreshes health, routes, appends PROPOSAL_INTENT under *)
(* the task's fence, sends (with at most one re-route) and judges the answer.  *)
(* Steps end where the code awaits; what another process may change meanwhile  *)
(* (the lease) changes between steps.                                          *)
EXTENDS AdapterPool, ContextBuilder

CONSTANTS
    Seeds,            \* the literal seed paths, in order
    Worktrees,        \* the worktrees a round may find
    Registrations,    \* the pools a run may have composed
    RawPolicies,      \* the routing.json values it may have read
    DataPolicies,     \* adapter -> its data policy
    Lessons, Plans,   \* the approved lessons, and the sets (at most one) of resolved plans
    RoundInputs,      \* [role, hints, feedback] of a round
    SendAnswers,          \* what an adapter may answer
    MaxRepairRounds,  \* re-asks of one send (2 in the source's composition)
    MaxAccumulated,   \* requested paths carried into the next seed (20 in the source)
    MaxProposeRounds         \* bound of the model: rounds of one run

\* Register() makes pools of this type, and the proposal schema has these claims only.
ASSUME ProposalAssumption ==
    /\ Worktrees \subseteq [PathSet -> PathContents]
    /\ \A p \in Registrations : PoolTypeOK(p)
    /\ \A a \in SendAnswers : a.claim \in {"WORKING", "READY_FOR_VERIFICATION", "BLOCKED"}

VARIABLES
    pool,    \* the adapters
    src,     \* what outlives a round: policy, plan, asked, evicted, fenced out, rounds
    round,   \* the round in progress
    offers   \* the proposal of the last round that returned, with the round's evidence

sourceVars == <<pool, src, round, offers>>

ProposeInputs == {"building", "routing", "sending", "awaiting"}
NoRound == [pc |-> "idle"]
NoOffer == [claim |-> "NONE", actions |-> <<>>, tree |-> <<>>, covered |-> {}, sends |-> <<>>]

ProposalInit ==
    /\ pool \in Registrations
    /\ \E raw \in RawPolicies, plan \in Plans :
          src = [config |-> parseRoutingConfig(raw), plan |-> plan, asked |-> <<>>, evicted |-> {},
                 lost |-> FALSE, rounds |-> 0, routes |-> <<>>, reviewing |-> {}]
    /\ round = NoRound
    /\ offers = NoOffer

-----------------------------------------------------------------------------
(* The accumulated seed: paths the model asked for, without the ones that do   *)
(* not normalise and the evicted ones, the newest MaxAccumulated of them.      *)
Newest(paths) == SubSeq(paths, Len(paths) - MaxAccumulated + 1, Len(paths))

accumulatedSeedPaths(s) ==
    LET kept == SelectSeq(s.asked, LAMBDA p : Normalises(p) /\ p \notin s.evicted)
    IN  IF Len(kept) > MaxAccumulated THEN Newest(kept) ELSE kept

SeedList(s) == Seeds \o accumulatedSeedPaths(s)

\* A round starts: the drain may evict at most as many paths as are accumulated now.
Propose ==
    /\ round.pc = "idle"
    /\ src.rounds < MaxProposeRounds
    /\ \E input \in RoundInputs, tree \in Worktrees :
          round' = [pc |-> "building", input |-> input, tree |-> tree, evictions |-> 0,
                    drainBudget |-> Len(accumulatedSeedPaths(src)),
                    pieces |-> {}, eligible |-> <<>>, failed |-> {}, rerouted |-> FALSE,
                    chosen |-> "none", repairs |-> 0, sends |-> <<>>]
    /\ src' = [src EXCEPT !.rounds = @ + 1]
    /\ offers' = NoOffer
    /\ UNCHANGED pool

\* propose() returns a proposal.
ProposeReturns(claim, actions) ==
    /\ offers' = [claim |-> claim, actions |-> actions, tree |-> round.tree,
                  covered |-> BundlePaths(round.pieces) \cup ToSet(src.asked), sends |-> round.sends]
    /\ round' = NoRound

\* A secret of an accumulated path that is no literal seed is evicted and the build retried.
Evictable(p) == p \in ToSet(accumulatedSeedPaths(src)) \ ToSet(Seeds)

EvictAndRetry ==
    /\ round.pc = "building"
    /\ SeededSecrets(round.tree, SeedList(src)) # {}
    /\ \E secret \in {FirstSecret(round.tree, SeedList(src))} :
          /\ Evictable(secret)
          /\ round.evictions < round.drainBudget
          /\ src' = [src EXCEPT !.evicted = @ \cup {secret}]
          /\ round' = [round EXCEPT !.evictions = @ + 1]
    /\ UNCHANGED <<pool, offers>>

\* Any other secret in a seeded path: ESCALATED secret_in_context.
SecretInContext ==
    /\ round.pc = "building"
    /\ SeededSecrets(round.tree, SeedList(src)) # {}
    /\ Evictable(FirstSecret(round.tree, SeedList(src))) => round.evictions >= round.drainBudget
    /\ ProposeReturns("BLOCKED", <<>>)
    /\ UNCHANGED <<pool, src>>

BundleBuilt ==
    /\ round.pc = "building"
    /\ SeededSecrets(round.tree, SeedList(src)) = {}
    /\ round' = [round EXCEPT !.pc = "routing",
                   !.pieces = buildContext(round.tree, SeedList(src), Lessons, src.plan).pieces]
    /\ UNCHANGED <<pool, src, offers>>

-----------------------------------------------------------------------------
(* Routing: health is refreshed, the susceptibility cap is dropped for a       *)
(* bundle without file content, and the ordered eligible list is taken once.   *)
RouteHints(input, pieces, config) ==
    [cap |-> IF input.untrusted /\ \E p \in pieces : p.kind = "file" THEN config.cap ELSE NoHints.cap,
     excluded |-> input.excluded]

Feedback(input) == IF input.feedback THEN {Piece("feedback", Inline)} ELSE {}

Route ==
    /\ round.pc = "routing"
    /\ \E report \in [Probed(pool) -> HealthReports] :
       \E explore \in IF src.config.epsilon > 0 THEN BOOLEAN ELSE {FALSE} :
          LET fresh == Looked(RefreshHealth(pool, report))
              hints == RouteHints(round.input, round.pieces, src.config)
              stats == computeShadowOutcomeStats(src.routes, src.reviewing)
              list  == Ordered(fresh, round.input.role, hints, src.config.mode, stats, explore)
          IN  /\ pool' = fresh
              /\ src' = [src EXCEPT !.routes =
                            @ \o ShadowRoute(fresh, list, src.config.mode, stats, src.rounds)]
              /\ \/ /\ list = <<>>     \* ESCALATED no_capacity
                    /\ ProposeReturns("BLOCKED", <<>>)
                 \/ /\ list # <<>>
                    /\ IF src.lost     \* the fenced PROPOSAL_INTENT is refused: propose() throws
                       THEN /\ round' = NoRound
                            /\ UNCHANGED offers
                       ELSE /\ round' = [round EXCEPT !.pc = "sending", !.eligible = list,
                                            !.chosen = list[1],
                                            !.pieces = @ \cup Feedback(round.input)]
                            /\ UNCHANGED offers

\* Nothing leaves for an adapter whose data policy a piece violates.
DataPolicyViolation ==
    /\ round.pc = "sending"
    /\ ~checkDataPolicy(round.pieces, DataPolicies[round.chosen])
    /\ ProposeReturns("BLOCKED", <<>>)
    /\ UNCHANGED <<pool, src>>

SendTo(a) == [round EXCEPT !.pc = "awaiting", !.repairs = 0,
                           !.sends = Append(@, [adapter |-> a, pieces |-> round.pieces])]

(* defect: the data policy is asked for the first adapter only *)
SendRerouted ==
    /\ round.pc = "sending"
    /\ round.rerouted \/ checkDataPolicy(round.pieces, DataPolicies[round.chosen])
    /\ round' = SendTo(round.chosen)
    /\ UNCHANGED <<pool, src, offers>>

Send ==
    /\ round.pc = "sending"
    /\ checkDataPolicy(round.pieces, DataPolicies[round.chosen])
    /\ round' = SendTo(round.chosen)
    /\ UNCHANGED <<pool, src, offers>>

-----------------------------------------------------------------------------
(* The answer to a send.                                                       *)
Breaker(outcome(_)) == [pool EXCEPT !.entry[round.chosen].breaker = outcome(@)]

\* An AdapterError: the breaker counts it; the first one re-routes to an adapter that has not failed.
AdapterFails ==
    /\ round.pc = "awaiting"
    /\ pool' = Breaker(RecordFailure)
    /\ LET failed == round.failed \cup {round.chosen}
       IN  \/ /\ round.rerouted \/ ToSet(round.eligible) \subseteq failed
              /\ ProposeReturns("BLOCKED", <<>>)
           \/ /\ ~round.rerouted
              /\ \E i \in DOMAIN round.eligible :
                    /\ round.eligible[i] \notin failed
                    /\ \A j \in 1..(i - 1) : round.eligible[j] \in failed
                    /\ round' = [round EXCEPT !.pc = "sending", !.failed = failed,
                                   !.rerouted = TRUE, !.chosen = round.eligible[i]]
              /\ UNCHANGED offers
    /\ UNCHANGED src

\* A usage the budget cannot take: invalid_response, no breaker outcome, no re-route.
InvalidUsage ==
    /\ round.pc = "awaiting"
    /\ ProposeReturns("BLOCKED", <<>>)
    /\ UNCHANGED <<pool, src>>

\* proposeWithRepair re-asks the same adapter while the schema check fails.
Repair ==
    /\ round.pc = "awaiting"
    /\ round.repairs < MaxRepairRounds
    /\ round' = [round EXCEPT !.repairs = @ + 1]
    /\ UNCHANGED <<pool, src, offers>>

RepairExhausted ==
    /\ round.pc = "awaiting"
    /\ round.repairs = MaxRepairRounds
    /\ pool' = Breaker(RecordSuccess)
    /\ ProposeReturns("BLOCKED", <<>>)
    /\ UNCHANGED src

\* The round's token in the answer, or a diagnostician's hypotheses: no action is proposed.
NoActionAnswer ==
    /\ round.pc = "awaiting"
    /\ pool' = Breaker(RecordSuccess)
    /\ ProposeReturns("WORKING", <<>>)
    /\ UNCHANGED src

\* READ_FILE requests join the seed of the next round, in the order they were first made.
Accumulate(asked, actions) ==
    FoldLeft(LAMBDA acc, a :
        IF a.type = "READ_FILE" /\ a.path # "malformed" /\ a.path \notin ToSet(acc)
        THEN Append(acc, a.path) ELSE acc,
        asked, actions)

\* Paths a WRITE_FILE may overwrite: those of the bundle and those asked for in an earlier answer.
Allowed == BundlePaths(round.pieces) \cup ToSet(src.asked)

ContextViolations(actions) ==
    {a \in ToSet(actions) :
        /\ a.type = "WRITE_FILE"
        /\ a.path \notin Allowed
        /\ a.path = "malformed" \/ worktreeEntryExists(round.tree, a.path)}

\* A valid answer: one violation drops the whole batch, the requests of it are kept all the same.
Answer ==
    /\ round.pc = "awaiting"
    /\ round.input.role # "diagnostician"
    /\ \E a \in SendAnswers :
          /\ src' = [src EXCEPT !.asked = Accumulate(@, a.actions)]
          /\ IF ContextViolations(a.actions) = {}
             THEN ProposeReturns(a.claim, a.actions)
             ELSE ProposeReturns("WORKING", <<>>)
    /\ pool' = Breaker(RecordSuccess)

-----------------------------------------------------------------------------
(* Around the source: cooldowns pass, the lease is lost, the task is reviewed, *)
(* a drift canary is re-run.                                                   *)
Cooldown ==
    /\ round.pc = "idle"
    /\ \E a \in DOMAIN pool.entry :
          /\ pool.entry[a].breaker.status = "open"
          /\ ~pool.entry[a].breaker.cooled
          /\ pool' = [pool EXCEPT !.entry[a].breaker.cooled = TRUE]
    /\ UNCHANGED <<src, round, offers>>

LeaseLost ==
    /\ ~src.lost
    /\ src' = [src EXCEPT !.lost = TRUE]
    /\ UNCHANGED <<pool, round, offers>>

Reviewed ==
    /\ round.pc = "idle"
    /\ src.rounds \notin src.reviewing
    /\ src' = [src EXCEPT !.reviewing = @ \cup {src.rounds}]
    /\ UNCHANGED <<pool, round, offers>>

DriftCanary ==
    /\ round.pc = "idle"
    /\ \E a \in DOMAIN pool.entry : ~pool.entry[a].stale /\ pool' = RecordConformance(pool, a, FALSE, 1)
    /\ UNCHANGED <<src, round, offers>>

ProposalNext ==
    \/ Propose \/ EvictAndRetry \/ SecretInContext \/ BundleBuilt \/ Route
    \/ DataPolicyViolation \/ Send \/ AdapterFails \/ InvalidUsage \/ Repair
    \/ RepairExhausted \/ NoActionAnswer \/ Answer
    \/ Cooldown \/ LeaseLost \/ Reviewed \/ DriftCanary

ProposalSpec == ProposalInit /\ [][ProposalNext]_sourceVars

-----------------------------------------------------------------------------
ProposalTypeOK ==
    /\ PoolTypeOK(pool)
    /\ round.pc \in ProposeInputs \cup {"idle"}
    /\ src.evicted \subseteq PathSet
    /\ offers.claim \in {"NONE", "WORKING", "READY_FOR_VERIFICATION", "BLOCKED"}

\* The sends of the round in progress, or of the one that returned last.
LatestSends == IF round.pc \in {"sending", "awaiting"} THEN round.sends ELSE offers.sends
LatestTree  == IF round.pc \in {"sending", "awaiting"} THEN round.tree ELSE offers.tree

\* Whatever the route, the failure and the re-route of a round: what left for an
\* adapter was allowed by that adapter's own data policy, held no file with a secret,
\* and went to no adapter twice and to at most two adapters; and a proposal handed to
\* the loop overwrites only existing files that were in its bundle or asked for in an
\* earlier answer (source.ts:209-600).
ProposalsAreCovered ==
    /\ \A i \in DOMAIN LatestSends :
          LET s == LatestSends[i]
          IN  /\ \A p \in s.pieces : IF p.path = Inline THEN p.kind \in DataPolicies[s.adapter].pathlessKinds
                                     ELSE p.path \in DataPolicies[s.adapter].allowPaths
              /\ \A p \in BundlePaths(s.pieces) : LatestTree[p] = "plain"
              /\ \A j \in DOMAIN LatestSends : j # i => LatestSends[j].adapter # s.adapter
    /\ Len(LatestSends) <= 2
    /\ \A a \in ToSet(offers.actions) :
          (a.type = "WRITE_FILE" /\ worktreeEntryExists(offers.tree, a.path)) => a.path \in offers.covered
=============================================================================
