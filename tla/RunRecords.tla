------------------------------ MODULE RunRecords ------------------------------
(* What a run is judged by afterwards: the reports of its gates, and what the  *)
(* out-of-band auditor says of its merges.  Gate runner and auditor meet in    *)
(* the event log only, of which each module keeps the part it reads.           *)
EXTENDS GateRun, OobAudit

(* No report passes that was not earned, nothing is frozen as red that was not *)
(* red, and a verdict compares a merge with what it was authorised on.         *)
\* (core/src/gates/runner.ts runTier, core/src/gates/red-provenance.ts,
\* core/src/audit/oob.ts runOobAudit.)
RecordsAreTrue == EvidenceIsTrue /\ AuditsAreTrue

===============================================================================
