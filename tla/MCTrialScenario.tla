-------------------------- MODULE MCTrialScenario --------------------------
(* Small instances of the trial lifecycle for TLC. *)
EXTENDS TrialScenario, TLC

\* One trial, whose pattern matches only its own jobs.
MCOwn == [t \in Trials |-> {t}]

CandidateSymmetry == Permutations(Candidates)
=============================================================================
