--------------------------- MODULE EvaluationRun ---------------------------
(***************************************************************************)
(* The evaluation of one candidate session: the jobs that talent partners  *)
(* and the TrialEvaluator ask for, the pipeline that a worker runs for     *)
(* each, the run rows and the report it leaves, the evaluation state and   *)
(* the notice that the report is ready (app/evaluations).                  *)
(*                                                                         *)
(* The jobs' steps are steps of JobContract, which JobQueue implements.     *)
(* A run is inserted at the start of the pipeline's transaction and        *)
(* committed with its outcome: others see no row before that, but the      *)
(* unique index on job_id makes a second insert wait for the first.        *)
(***************************************************************************)
EXTENDS Naturals, FiniteSets

CONSTANTS
  Workers,      \* worker processes
  None,         \* no job
  MaxEvidence,  \* bound: how many bases the session's evidence goes through
  Ready,        \* those that include a ready Day 4 transcript
  MaxRetries,   \* WINOE_SYNTHESIS_VALIDATION_MAX_RETRIES
  MaxAttempts,  \* EVALUATION_RUN_JOB_MAX_ATTEMPTS
  MaxFaults,    \* bound on crashes, overruns, refused snapshots, operator retries
  MaxPasses     \* bound on passes of the TrialEvaluator

ASSUME EvaluationAssumption ==
  /\ MaxEvidence \in Nat \ {0} /\ Ready \subseteq 1..MaxEvidence
  /\ MaxRetries \in Nat /\ MaxAttempts \in Nat \ {0}
  /\ MaxFaults \in Nat /\ MaxPasses \in Nat

VARIABLES
  evidence,  \* what submissions, day audits and transcript add up to now
  job,       \* status of each evaluation job
  wk,        \* what each worker holds in memory
  run,       \* evaluation_runs as committed, by job_id
  begun,     \* pairs of jobs with a run, committed or not, in order of started_at
  marker,    \* the job whose run the winoe_reports row and citations are of
  state,     \* trial_evaluation_states: the state and validationRetryCount
  notice,    \* the winoe_report_ready notification job
  passes,    \* TrialEvaluator passes so far
  faults     \* bound counter

vars == <<evidence, job, wk, run, begun, marker, state, notice, passes, faults>>

-----------------------------------------------------------------------------
(* Rows *)

\* The fingerprint of the evidence is the basis of a job's idempotency key; the
\* TrialEvaluator's n-th validation retry adds ":evidence_validation_retry:<n>".
Jobs == (1..MaxEvidence) \X (0..MaxRetries)
Canonical(e) == <<e, 0>>

ASSUME NoneAssumption == None \notin Jobs

RunStatuses == {"none", "completed", "failed"}
Run == [st : RunStatuses, evidence : 0..MaxEvidence, sound : BOOLEAN]
NoRun == [st |-> "none", evidence |-> 0, sound |-> FALSE]

Targets == {"none", "succeeded", "dead_letter", "retry"}
Worker == [pc : {"idle", "claimed", "starting", "evaluating", "done"},
           job : Jobs \cup {None}, attempt : Nat, evidence : 0..MaxEvidence,
           target : Targets]
Idle == [pc |-> "idle", job |-> None, attempt |-> 0, evidence |-> 0,
         target |-> "none"]

States == {"none", "DAY_5_DEADLINE_PASSED", "REVIEWERS_DISPATCHED",
           "WINOE_SYNTHESIZING", "REPORT_FINALIZED", "NOTIFICATION_SENT",
           "FAILED"}
EvaluationState == [name : States, retries : Nat]

\* What the queue promises of these jobs.
Queue == INSTANCE JobContract WITH
  status <- [j \in Jobs |-> job[j].st],
  held <- {p \in Workers \X Jobs : wk[p[1]].job = p[2]}

Init ==
  /\ evidence = 1
  /\ job = [j \in Jobs |-> [st |-> "absent", attempt |-> 0]]
  /\ wk = [w \in Workers |-> Idle]
  /\ run = [j \in Jobs |-> NoRun]
  /\ begun = {}
  /\ marker = None
  /\ state = [name |-> "none", retries |-> 0]
  /\ notice = "none"
  /\ passes = 0 /\ faults = 0

Fault == faults < MaxFaults /\ faults' = faults + 1

-----------------------------------------------------------------------------
(* Requests *)

\* A transcript gets ready, a recording is replaced or deleted, an audit is
\* written: the session has another basis than ever before.
ChangeEvidence ==
  /\ evidence < MaxEvidence
  /\ evidence' = evidence + 1
  /\ UNCHANGED <<job, wk, run, begun, marker, state, notice, passes,
                 faults>>

\* Mutant: a job that is over is made anew.
CreateOrRestart(j) ==
  IF job[j].st \in {"absent", "succeeded", "dead_letter"}
    THEN [job EXCEPT ![j] = [st |-> "queued", attempt |-> 0]] ELSE job

\* create_or_get_idempotent: an existing job is returned as it is, also when it
\* is over; enqueue_evaluation_run then writes its own id into its payload.
CreateOrGet(j) ==
  IF job[j].st = "absent"
    THEN [job EXCEPT ![j] = [st |-> "queued", attempt |-> 0]] ELSE job

\* generate_winoe_report for the evidence of the moment.
Generate ==
  /\ job' = CreateOrGet(Canonical(evidence))
  /\ UNCHANGED <<evidence, wk, run, begun, marker, state, notice, passes, faults>>

\* requeue_job keeps the attempt, the copy of retry-dead-jobs begins anew; the
\* copy's payload names the original's id, so that both find the same run.
RetryDead(j) ==
  /\ Fault
  /\ job[j].st = "dead_letter"
  /\ \E n \in {0, job[j].attempt} :
       job' = [job EXCEPT ![j] = [st |-> "queued", attempt |-> n]]
  /\ UNCHANGED <<evidence, wk, run, begun, marker, state, notice, passes>>
  /\ Queue!Intervene(j, "queued")

-----------------------------------------------------------------------------
(* The pipeline: process_evaluation_run_job on a worker *)

Holders(j) == {w \in Workers : wk[w].job = j}

\* Mutant: a lock on the job taken when the look-up finds nothing.
EvaluatingOrStarting(j) ==
  \E w \in Holders(j) : wk[w].pc \in {"starting", "evaluating"}

\* An open transaction has inserted the job's run.
Evaluating(j) == \E w \in Holders(j) : wk[w].pc = "evaluating"

\* Taking a job from a worker that still runs it needs an overrun lease.
Claim(w, j) ==
  /\ wk[w].pc = "idle"
  /\ IF Holders(j) = {} THEN UNCHANGED faults ELSE Fault
  /\ job' = [job EXCEPT ![j] = [st |-> "running", attempt |-> @.attempt + 1]]
  /\ wk' = [wk EXCEPT ![w] = [Idle EXCEPT !.pc = "claimed", !.job = j,
                                          !.attempt = job[j].attempt + 1]]
  /\ UNCHANGED <<evidence, run, begun, marker, state, notice, passes>>
  /\ Queue!Claim(w, j)

\* Jobs with a run, and the order once j has the last one.
Begun == {i \in Jobs : <<i, i>> \in begun}
Begin(j) == begun \cup {<<i, j>> : i \in Begun \cup {j}}

\* The order when j's run is rolled back.
Without(j) == {p \in begun : p[1] # j /\ p[2] # j}

Finish(w, target) ==
  [wk EXCEPT ![w] = [@ EXCEPT !.pc = "done", !.target = target]]

RunOf(e, status, sound) == [st |-> status, evidence |-> e, sound |-> sound]

\* _record_invalid_snapshot_run: a failed run in one transaction, without asking
\* whether the job has one already; the unique index then refuses the insert.
RefuseSnapshot(w) ==
  LET j == wk[w].job
  IN /\ wk[w].pc = "claimed"
     /\ Fault
     /\ ~Evaluating(j)
     /\ IF run[j].st = "none"
          THEN /\ run' = [run EXCEPT ![j] = RunOf(evidence, "failed", FALSE)]
               /\ begun' = Begin(j)
               /\ wk' = Finish(w, "dead_letter")
          ELSE /\ wk' = Finish(w, "retry")
               /\ UNCHANGED <<run, begun>>
     /\ UNCHANGED <<evidence, job, marker, state, notice, passes>>

\* Mutant: the failed run of an earlier attempt taken for a finished one.
OutcomeOfAnyRun(j) == IF run[j].st = "none" THEN "none" ELSE "succeeded"

\* _completed_response, or _failed_response and the PermanentJobError of it.
OutcomeOfRun(j) ==
  CASE run[j].st = "completed" -> "succeeded"
    [] run[j].st = "failed" -> "dead_letter"
    [] OTHER -> "none"

\* The context is read as it is now, not as it was when the job was made; then
\* _get_or_start_run: get_run_by_job_id sees committed rows only.
LookUp(w) ==
  LET known == OutcomeOfRun(wk[w].job)
  IN /\ wk[w].pc = "claimed"
     /\ wk' = IF known = "none"
                THEN [wk EXCEPT ![w] = [@ EXCEPT !.pc = "starting",
                                                 !.evidence = evidence]]
                ELSE Finish(w, known)
     /\ UNCHANGED <<evidence, job, run, begun, marker, state, notice, passes, faults>>

\* Mutant: no unique index on evaluation_runs.job_id.
InsertAdmitted(j) == TRUE

\* The unique index on evaluation_runs.job_id.
RunUnique(j) == run[j].st = "none"

\* start_run: the insert waits for another worker's open transaction on the
\* same job, and is refused when that has committed.
StartRun(w) ==
  LET j == wk[w].job
  IN /\ wk[w].pc = "starting"
     /\ ~Evaluating(j)
     /\ IF RunUnique(j)
          THEN /\ begun' = Begin(j)
               /\ wk' = [wk EXCEPT ![w].pc = "evaluating"]
          ELSE /\ wk' = Finish(w, "retry")
               /\ UNCHANGED begun
     /\ UNCHANGED <<evidence, job, run, marker, state, notice, passes,
                    faults>>

Finalized == [name |-> "REPORT_FINALIZED", retries |-> 0]

\* Mutant: the notice left to a transaction of its own.
NoticeAfter == notice

\* enqueue_winoe_report_ready_notification: one job per session, ever.
NoticeOnce == IF notice = "none" THEN "queued" ELSE notice

\* _evaluate_and_finalize_run: the run, the report's marker and citations, the
\* evaluation state and the notice in one commit.
Complete(w) ==
  /\ wk[w].pc = "evaluating"
  /\ \E sound \in BOOLEAN :
       run' = [run EXCEPT ![wk[w].job] = RunOf(wk[w].evidence, "completed", sound)]
  /\ marker' = wk[w].job
  /\ state' = Finalized
  /\ notice' = NoticeOnce
  /\ wk' = Finish(w, "succeeded")
  /\ UNCHANGED <<evidence, job, begun, passes, faults>>

\* _mark_failed_run: three invalid reports, or any error that is not retryable.
Fail(w) ==
  /\ wk[w].pc = "evaluating"
  /\ run' = [run EXCEPT ![wk[w].job] = RunOf(wk[w].evidence, "failed", FALSE)]
  /\ wk' = Finish(w, "dead_letter")
  /\ UNCHANGED <<evidence, job, begun, marker, state, notice, passes,
                 faults>>

\* A retryable provider error, or a first report's marker inserted by two jobs
\* at once: the transaction is rolled back with the run it began.
Abort(w) ==
  /\ wk[w].pc = "evaluating"
  /\ begun' = Without(wk[w].job)
  /\ wk' = Finish(w, "retry")
  /\ UNCHANGED <<evidence, job, run, marker, state, notice, passes,
                 faults>>

\* Mutant: the exception's name for the job's status.
OutcomeAsIs(w) == wk[w].target

\* retry_or_dead_letter by the attempt the worker claimed.
Outcome(w) ==
  IF wk[w].target # "retry" THEN wk[w].target
  ELSE IF wk[w].attempt < MaxAttempts THEN "queued" ELSE "dead_letter"

Record(w) ==
  /\ wk[w].pc = "done"
  /\ job' = [job EXCEPT ![wk[w].job].st = Outcome(w)]
  /\ wk' = [wk EXCEPT ![w] = Idle]
  /\ UNCHANGED <<evidence, run, begun, marker, state, notice, passes,
                 faults>>
  /\ Queue!Report(w, wk[w].job, Outcome(w))

\* The process dies; an open transaction goes with it.
Crash(w) ==
  /\ wk[w].pc # "idle"
  /\ Fault
  /\ begun' = IF wk[w].pc = "evaluating" THEN Without(wk[w].job) ELSE begun
  /\ wk' = [wk EXCEPT ![w] = Idle]
  /\ UNCHANGED <<evidence, job, run, marker, state, notice, passes>>
  /\ Queue!Abandon(w, wk[w].job)

-----------------------------------------------------------------------------
(* The latest run *)

Committed(s) == {j \in Jobs : run[j].st = s}

\* The last of the given jobs by started_at.
LatestOf(js) ==
  IF js \cap Begun = {} THEN None
  ELSE CHOOSE j \in js \cap Begun : \A i \in js \cap Begun : <<i, j>> \in begun

LatestSuccess == LatestOf(Committed("completed"))

-----------------------------------------------------------------------------
(* The notification job and the TrialEvaluator *)

IsFinalized == state.name \in {"REPORT_FINALIZED", "NOTIFICATION_SENT"}

\* process_winoe_report_ready_notification_job: raises, and is tried again,
\* while the state is not a finalized one.
SendNotice ==
  /\ notice = "queued"
  /\ IsFinalized
  /\ notice' = "sent"
  /\ UNCHANGED <<evidence, job, wk, run, begun, marker, state, passes,
                 faults>>

Pass(name, retries) ==
  /\ passes < MaxPasses
  /\ passes' = passes + 1
  /\ state' = [name |-> name, retries |-> retries]
  /\ UNCHANGED <<evidence, wk, run, begun, marker, notice>>

\* _missing_required_artifacts: the Day 4 transcript is not ready.
PassMissing ==
  /\ evidence \notin Ready
  /\ Pass("DAY_5_DEADLINE_PASSED", 0)
  /\ UNCHANGED <<job, faults>>

\* _reviewer_status: the latest completed run has all four reviewers' reports
\* only if it was made with the transcript.
ReviewersComplete ==
  LatestSuccess # None /\ run[LatestSuccess].evidence \in Ready

PassDispatch ==
  /\ evidence \in Ready
  /\ ~ReviewersComplete
  /\ Pass("REVIEWERS_DISPATCHED", 0)
  /\ job' = CreateOrGet(Canonical(evidence))
  /\ UNCHANGED faults

\* _validate_persisted_report compares the latest run's report with the
\* citations of the marker, which may be another run's.
Validations ==
  IF marker = LatestSuccess THEN {run[LatestSuccess].sound} ELSE BOOLEAN

PassValid ==
  /\ evidence \in Ready /\ ReviewersComplete
  /\ TRUE \in Validations
  /\ Pass(IF notice = "sent" THEN "NOTIFICATION_SENT" ELSE "REPORT_FINALIZED", 0)
  /\ UNCHANGED <<job, faults>>

\* The retries so far are kept in failure_context_json, which every other
\* transition and every completed run overwrites.
PassInvalid ==
  LET n == state.retries + 1
  IN /\ evidence \in Ready /\ ReviewersComplete
     /\ FALSE \in Validations
     /\ IF n <= MaxRetries
          THEN /\ Pass("WINOE_SYNTHESIZING", n)
               /\ job' = CreateOrGet(<<evidence, n>>)
          ELSE /\ Pass("FAILED", n)
               /\ UNCHANGED job
     /\ UNCHANGED faults

\* Any exception ends in FAILED: here a snapshot that generation refuses.
PassRaises ==
  /\ evidence \in Ready
  /\ ReviewersComplete => FALSE \in Validations
  /\ Fault
  /\ Pass("FAILED", 0)
  /\ UNCHANGED job

Evaluate ==
  PassMissing \/ PassDispatch \/ PassValid \/ PassInvalid \/ PassRaises

-----------------------------------------------------------------------------
WorkerStep(w) ==
  \/ LookUp(w) \/ StartRun(w)
  \/ Complete(w) \/ Fail(w) \/ Abort(w) \/ Record(w)

Next ==
  \/ ChangeEvidence \/ Generate \/ SendNotice \/ Evaluate
  \/ \E j \in Jobs : RetryDead(j)
  \/ \E w \in Workers : WorkerStep(w) \/ RefuseSnapshot(w) \/ Crash(w)
  \/ \E w \in Workers, j \in Jobs : Claim(w, j)

Spec == Init /\ [][Next]_vars

\* Workers go on with what they hold and come back for what can be claimed.
Fairness ==
  /\ \A w \in Workers : WF_vars(WorkerStep(w))
  /\ \A j \in Jobs : WF_vars(\E w \in Workers : Holders(j) = {} /\ Claim(w, j))

FairSpec == Spec /\ Fairness

-----------------------------------------------------------------------------
(* Properties *)

\* Every row and memory holds values of its columns and fields.
TypeOK ==
  /\ evidence \in 1..MaxEvidence
  /\ job \in [Jobs -> [st : Queue!Claimable \cup Queue!Outcomes \cup {"absent"},
                       attempt : Nat]]
  /\ wk \in [Workers -> Worker]
  /\ run \in [Jobs -> Run]
  /\ begun \subseteq Jobs \X Jobs
  /\ marker \in Jobs \cup {None}
  /\ state \in EvaluationState
  /\ notice \in {"none", "queued", "sent"}
  /\ passes \in Nat /\ faults \in Nat

\* A job has one run, and the run it commits is final: no second worker on the
\* job, no repetition after a crash and no retry of a dead letter evaluates it
\* again or changes what was found (get_run_by_job_id, ix_evaluation_runs_job_id).
RunsStay ==
  [][\A j \in Jobs : run[j].st # "none" => run'[j] = run[j]]_vars

\* Nobody is told of a report that is not there, and no report is there of
\* which nobody is told: completed run, marker with its citations and notice
\* appear in one commit (_evaluate_and_finalize_run).
ReportTogether ==
  /\ (marker # None) <=> (Committed("completed") # {})
  /\ (marker # None) <=> (notice # "none")
  /\ marker # None => run[marker].st = "completed"

\* The evaluation state, one row that every pass and every run overwrites, never
\* claims a report or a notice that is not there (TrialEvaluator._transition).
StateTruthful ==
  /\ IsFinalized => marker # None
  /\ state.name = "NOTIFICATION_SENT" => notice = "sent"

OutcomeTogether == ReportTogether /\ StateTruthful

\* A job is recorded as succeeded only if its report is there, whatever worker
\* reports last and however often the job was claimed.
SucceededHasReport ==
  \A j \in Jobs : job[j].st = "succeeded" => run[j].st = "completed"

\* A request for a report is answered: its job succeeds or is a dead letter in
\* the end, although workers crash, overrun their leases and wait for each
\* other's inserts, and although the provider may fail every time.
RequestSettles ==
  \A j \in Jobs :
    job[j].st = "queued" ~> job[j].st \in {"succeeded", "dead_letter"}
=============================================================================
