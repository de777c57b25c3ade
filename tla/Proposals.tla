------------------------------- MODULE Proposals -------------------------------
(* What comes from a model: a round of the proposal source, the send() of the  *)
(* vendor adapter it goes through, and the suite that decided which adapters   *)
(* may be asked.  They meet in a promise and in the registry's snapshot; each  *)
(* module keeps the side it is about.                                          *)
EXTENDS ProposalSource, VendorAdapter, Conformance

(* What is sent is covered by the policies and comes back as it was, a send is *)
(* answered once and ends, and a suite tells the saboteurs apart.              *)
\* (createAALProposalSource, the send() functions of adapters/src, runConformanceSuite.)
ProposalsAreSound == ProposalsAreCovered /\ SendsAreHonest /\ SuiteDiscriminates

===============================================================================
