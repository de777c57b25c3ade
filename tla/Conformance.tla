------------------------------ MODULE Conformance ------------------------------
(* The conformance suite (aal/src/conformance/harness.ts) against the fake     *)
(* adapter (aal/src/fake-adapter.ts), a compliant one or a saboteur.  One      *)
(* action per send; the suite may run again on the same instance, as the drift *)
(* canary does.  A response is what the verdicts look at.                      *)
EXTENDS Naturals, Sequences, FiniteSets

CONSTANTS MaxSuites  \* bound on runs of the suite

ASSUME ConformanceAssumption == MaxSuites \in Nat

VARIABLES
    fake,     \* the adapter: [behavior, fault, attempts, replay]
    suite,    \* the suite under way: [at, rounds, held, failed]
    suiteRecords  \* the probes that failed, per finished suite

conformanceVars == <<fake, suite, suiteRecords>>

\* The order of runConformanceSuite; the sample re-sends the request of P2.
Steps == <<"P1", "P2", "P3", "P4", "P5", "P6", "P8", "P7", "sample">>
Behaviors == {"compliant", "prose_only", "fabricate_execution", "ignore_schema", "double_burn",
              "schema_fail_first", "repairable", "exhaust_hypotheses"}
maxRepairs == 2
RequestIds == {"P1", "P2", "P3", "P4", "P5", "P6", "P7", "P8", "P3#r1", "P3#r2"}

------------------------------------------------------------------------------
(* FakeAdapter.                                                                *)
compose(behavior, probe, attempt) ==
    LET shapeless == \/ behavior = "ignore_schema" /\ probe \in {"P1", "P3"}
                     \/ behavior = "prose_only" /\ probe = "P2"
                     \/ behavior = "schema_fail_first" /\ attempt = 1
    IN  [attempt   |-> attempt,
         conforms  |-> ~shapeless,
         echoes    |-> probe = "P1" /\ ~shapeless,
         proposes  |-> ~(behavior = "prose_only" /\ probe = "P2"),
         asksTool  |-> probe = "P5",
         executed  |-> behavior = "fabricate_execution" /\ probe = "P6",
         leaks     |-> FALSE]

Cached(id) == fake.behavior # "double_burn" /\ fake.replay[id] # 0
AttemptOf(id) == IF Cached(id) THEN fake.replay[id] ELSE fake.attempts + 1

Response(id, probe) == compose(fake.behavior, probe, AttemptOf(id))

\* A request id is composed for once, unless the adapter burns twice.
SendFake(id) ==
    /\ fake.fault = "none"
    /\ fake' = IF Cached(id) THEN fake
               ELSE [fake EXCEPT !.attempts = @ + 1,
                                 !.replay[id] = IF fake.behavior = "double_burn" THEN 0
                                                ELSE fake.attempts + 1]

------------------------------------------------------------------------------
(* The suite.                                                                  *)
NoSuite == [at |-> 0, rounds |-> 0, held |-> 0, failed |-> {}]
AtProbe(probe) == suite.at # 0 /\ Steps[suite.at] = probe

Verdict(probe, pass) ==
    suite' = [at |-> suite.at + 1, rounds |-> 0, held |-> 0,
              failed |-> IF pass THEN suite.failed ELSE suite.failed \cup {probe}]

Passes(probe, resp) ==
    /\ probe = "P1" => resp.echoes
    /\ probe = "P2" => resp.proposes
    /\ probe = "P4" => resp.conforms
    /\ probe = "P5" => resp.asksTool
    /\ probe = "P6" => ~resp.executed

runConformanceSuite ==
    /\ suite.at = 0 /\ Len(suiteRecords) < MaxSuites
    /\ suite' = [NoSuite EXCEPT !.at = 1] /\ UNCHANGED <<fake, suiteRecords>>

runProbe ==
    \E probe \in {"P1", "P2", "P4", "P5", "P6"} :
        /\ AtProbe(probe) /\ SendFake(probe)
        /\ Verdict(probe, Passes(probe, Response(probe, probe))) /\ UNCHANGED suiteRecords

RepairId == <<"P3", "P3#r1", "P3#r2">>[suite.rounds + 1]

\* A response that does not conform is asked for again, under an id of its own.
proposeWithRepair ==
    LET conforms == Response(RepairId, "P3").conforms
    IN  /\ AtProbe("P3") /\ SendFake(RepairId) /\ UNCHANGED suiteRecords
        /\ IF conforms \/ suite.rounds = maxRepairs THEN Verdict("P3", conforms)
           ELSE suite' = [suite EXCEPT !.rounds = @ + 1]

\* Once, then again under the same id: the whole response is compared.
RetryProbe ==
    LET attempt == Response("P8", "P8").attempt
    IN  /\ AtProbe("P8") /\ SendFake("P8") /\ UNCHANGED suiteRecords
        /\ IF suite.held = 0 THEN suite' = [suite EXCEPT !.held = attempt]
           ELSE Verdict("P8", attempt = suite.held)

\* A score, not a verdict.
runP7 == AtProbe("P7") /\ SendFake("P7") /\ Verdict("P7", TRUE) /\ UNCHANGED suiteRecords

SampleVersion ==
    /\ AtProbe("sample") /\ SendFake("P2") /\ suite' = NoSuite
    /\ suiteRecords' = Append(suiteRecords, suite.failed)

\* A typed AdapterError leaves the suite, which has no record then.
SuiteThrows ==
    /\ suite.at # 0 /\ fake.fault # "none"
    /\ suite' = NoSuite /\ UNCHANGED <<fake, suiteRecords>>

------------------------------------------------------------------------------
ConformanceInit ==
    /\ fake \in [behavior : Behaviors, fault : {"none", "throw_quota_limited", "throw_transport"},
                 attempts : {0}, replay : {[id \in RequestIds |-> 0]}]
    /\ suite = NoSuite /\ suiteRecords = <<>>

ConformanceNext ==
    \/ runConformanceSuite \/ runProbe \/ proposeWithRepair \/ RetryProbe \/ runP7 \/ SampleVersion
    \/ SuiteThrows

ConformanceSpec == ConformanceInit /\ [][ConformanceNext]_conformanceVars

------------------------------------------------------------------------------
ConformanceTypeOK ==
    /\ fake.behavior \in Behaviors /\ fake.attempts \in 0..(12 * MaxSuites)
    /\ \A id \in RequestIds : fake.replay[id] \in 0..fake.attempts
    /\ suite.at \in 0..Len(Steps) /\ suite.rounds \in 0..maxRepairs
    /\ Len(suiteRecords) <= MaxSuites

OwnProbes(behavior) ==
    CASE behavior = "prose_only"          -> {"P2"}
      [] behavior = "fabricate_execution" -> {"P6"}
      [] behavior = "ignore_schema"       -> {"P1", "P3"}
      [] behavior = "double_burn"         -> {"P8"}
      [] behavior = "schema_fail_first"   -> {"P1"}
      [] OTHER                            -> {}

(* The suite tells the behaviours apart: a saboteur fails the probes that own  *)
(* its misbehaviour and no other, however the attempts are counted; the one    *)
(* that errs on its first send alone is caught where that send happened to be. *)
\* (FakeBehavior, runProbe.)
EachFailsItsOwn == \A i \in DOMAIN suiteRecords : suiteRecords[i] = OwnProbes(fake.behavior)

(* A request id costs once: however often the suite runs, the retry of P8, the *)
(* repair rounds and the sample included, an adapter that replays composes one *)
(* response per id.                                                            *)
\* (FakeAdapter.send, runConformanceSuite's sample.)
IdsCostOnce ==
    fake.behavior # "double_burn" =>
        fake.attempts = Cardinality({id \in RequestIds : fake.replay[id] # 0})

SuiteDiscriminates == EachFailsItsOwn /\ IdsCostOnce

==============================================================================
