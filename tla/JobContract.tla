---------------------------- MODULE JobContract ----------------------------
(***************************************************************************)
(* What the durable job queue promises to those who use it, without        *)
(* leases, clocks, attempts or copies: a handler starts only on a job that *)
(* is queued or running, possibly on a job that another worker still runs; *)
(* a job gets its outcome from a worker that has held it or from an        *)
(* operator; a job never disappears.  JobQueue implements this contract,   *)
(* and the modules that use the queue (DayFlow, Recording, EvaluationRun,  *)
(* WorkspaceCleanup) keep to it.                                           *)
(***************************************************************************)
CONSTANTS Jobs, Workers

VARIABLES
  status,  \* jobs.status, "absent" before the row exists
  held     \* pairs of a worker and the job whose claim it works on

vars == <<status, held>>

Outcomes == {"succeeded", "queued", "dead_letter"}
Claimable == {"queued", "running"}

TypeOK ==
  /\ status \in [Jobs -> {"absent", "running"} \cup Outcomes]
  /\ held \subseteq Workers \X Jobs

Init ==
  /\ status = [j \in Jobs |-> "absent"]
  /\ held = {}

\* One transaction may insert several jobs.
Enqueue(js) ==
  /\ \A j \in js : status[j] = "absent"
  /\ status' = [j \in Jobs |-> IF j \in js THEN "queued" ELSE status[j]]
  /\ UNCHANGED held

Idle(w) == \A j \in Jobs : <<w, j>> \notin held

\* At least once: a running job may be claimed again.
Claim(w, j) ==
  /\ Idle(w)
  /\ status[j] \in Claimable
  /\ status' = [status EXCEPT ![j] = "running"]
  /\ held' = held \cup {<<w, j>>}

\* A worker records an outcome of the job it holds, whoever holds it too.
Report(w, j, outcome) ==
  /\ <<w, j>> \in held
  /\ status' = [status EXCEPT ![j] = outcome]
  /\ held' = held \ {<<w, j>>}

\* A worker dies or finds that it has nothing to record.
Abandon(w, j) ==
  /\ <<w, j>> \in held
  /\ held' = held \ {<<w, j>>}
  /\ UNCHANGED status

\* The handler puts its own job back.
PutBack(w, j) ==
  /\ <<w, j>> \in held
  /\ status[j] \in Claimable
  /\ status' = [status EXCEPT ![j] = "queued"]
  /\ UNCHANGED held

\* A requeue or a cancellation from outside.
Intervene(j, outcome) ==
  /\ status[j] # "absent"
  /\ status' = [status EXCEPT ![j] = outcome]
  /\ UNCHANGED held

WorkerStep(w) ==
  \E j \in Jobs :
    \/ Claim(w, j)
    \/ \E outcome \in Outcomes : Report(w, j, outcome)
    \/ Abandon(w, j)
    \/ PutBack(w, j)

Operator ==
  \E j \in Jobs, outcome \in {"queued", "dead_letter"} : Intervene(j, outcome)

Next ==
  \/ \E js \in SUBSET Jobs : Enqueue(js)
  \/ Operator
  \/ \E w \in Workers : WorkerStep(w)

Spec == Init /\ [][Next]_vars
=============================================================================
