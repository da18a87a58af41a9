----------------------------- MODULE MCJobQueue -----------------------------
(* Small instances of the job queue for TLC. *)
EXTENDS JobQueue, TLC

\* One tick before the second attempt, two before the third.
MCBackoff == [n \in 1..MaxAttempts |-> IF n = 1 THEN 1 ELSE Horizon]

WorkerSymmetry == Permutations(Workers)
RequestSymmetry == Permutations(Requests)
=============================================================================
