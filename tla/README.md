# Winoe backend: TLA+ models and proofs

The backend runs hiring trials. A talent partner creates a trial; language
models generate its scenario; candidates are invited, work through five timed
days and submit code, text and recordings; agents evaluate the work into a
"Winoe report". The API is FastAPI over one PostgreSQL database, and everything
slow runs in worker processes fed by a job table in that database. What goes
wrong in such a system goes wrong between transactions: a worker that overruns
its lease, a request that goes on with rows it read before somebody else
committed, a job that runs twice, a termination in the middle of a batch. These
models are about that.

Paths below are under `src/app/` unless they begin with `src/`.

## Inventory

| part | state it keeps | operations | what is hard | what makes it correct |
|---|---|---|---|---|
| Job queue (`shared/jobs/repositories`, `shared/jobs/worker_runtime`) | `jobs`, `failed_jobs` | enqueue, update, claim, mark, requeue, retry, cancel | unfenced writes by id, leases never renewed, ORM writes from stale reads, crashes | a claim is unique, a finished job stays finished, attempts are bounded, every dead letter is copied, every job settles |
| Worker and heartbeat (`shared/jobs/shared_jobs_worker*`) | `worker_heartbeats`, process memory | run_once loop, heartbeat, readiness | death and restart, an exception that leaves the loop | a worker that works is reported ready |
| Trials, scenario versions, invites (`trials/`, generation handlers) | `trials`, `scenario_versions`, invites in `candidate_sessions` | create, generate, regenerate, edit, approve, activate, fall back, terminate, invite, batch invite | requests of several transactions with one set of ORM objects, generation at least once, termination in between | an invite pins an approved, frozen version; a trial never waits for a generation nobody owes; a terminated trial invites nobody |
| Admin operations (`talent_partners/.../admin_ops`) | the tables of the others | requeue a job, use a fallback scenario, reset a session, move a day window | act beside the normal flow | the invariants of the other parts survive them |
| Candidate session (`candidates/`) | `candidate_sessions`, day windows | claim, schedule, progress, complete | concurrent claims, clock against windows, reschedule | one owner; days in order; no work outside its window |
| Day close (`shared/jobs/handlers/*day_close*`) | `candidate_day_audits`, submissions | finalize text, enforce the cutoff | cutoff against a late submission, repeated runs | at most one submission of a task; the cutoff is recorded once and stays |
| Evaluation and report (`evaluations/`) | evaluation runs, day scores, reports | request, run, retry, fetch | idempotency keys that outlive their job, retry of a failed run | one final run of a job; report, citations and notice in one commit; every request is answered |
| Media (`media/`, transcription handler) | recordings, transcripts | init, complete, transcribe, delete, purge | duplicate jobs, deletion during transcription | a ready transcript stays; deleted data does not come back |
| Submissions and workspaces (`submissions/`) | submissions, workspaces, drafts | draft, submit, provision on GitHub, revoke, clean up | partial failure of remote calls, retries | the evidence of a day is final; a repository is kept for its retention and closed afterwards |
| Notifications (`notifications/`) | delivery audits | send, repeat | check then send | one mail per event, at least once |
| Rate limiting (`shared/auth/rate_limit`) | in-memory windows | allow | none: no await between read and write | limit per window |
| Authentication, HTTP, perf, logging (`shared/`) | none of their own | | | |
| AI policies (`ai/`), integrations (`integrations/`), demo and seed data, migrations | JSON, remote services | | pure functions or I/O | |

The parts call each other in three ways. Requests and handlers write tables
directly; requests and handlers enqueue jobs (idempotency keys make this
repeatable) that workers run at least once; and the same tables are locked row
by row (`SELECT ... FOR UPDATE` of the trial's row for anything that touches a
trial). The session is created with `expire_on_commit=False`, so a request that
commits and goes on keeps the objects of its first transaction: half of what is
hard here comes from that.

`PROJECT.json` lists the places of the code where each hazard bites.

## Modules

| module | role |
|---|---|
| `JobQueue`, `MCJobQueue` | jobs and failed_jobs, workers, requests; its instances for TLC |
| `JobContract` | the abstract at-least-once queue that the rest of the program relies on |
| `JobQueueProofs`, `JobQueueRefinement` | the queue's theorems; that it implements the contract |
| `TrialScenario`, `MCTrialScenario`, `TrialScenarioProofs` | trials, scenario versions, generation jobs, invites |
| `DayFlow`, `MCDayFlow`, `DayFlowProofs` | one candidate's session, drafts, submissions, workspaces, day-close jobs |
| `Recording`, `RecordingProofs` | the Day 4 upload, its transcription, deletion and purge |
| `EvaluationRun`, `EvaluationProofs` | report requests, evaluation runs, the report's outcome and notice |
| `WorkspaceCleanup`, `WorkspaceCleanupProofs` | the end of the repositories: retention and termination |

`JobContract` is what composes them. `JobQueue` implements it (below);
`EvaluationRun` and `WorkspaceCleanup` instantiate it with the status of their
jobs and with who holds them, and each of their job steps is a conjunction of a
step of the contract (`Queue!Claim`, `Queue!Report`, `Queue!Abandon`,
`Queue!Enqueue`, `Queue!Intervene`) with what the handler does. So they get
overrun leases (a running job may be claimed again), crashes and late outcomes,
and nothing that the queue does not do. `DayFlow` and `Recording` have several
handlers of their own shape and write their job steps out. That all four keep to
the contract is proved (`ClosingKeepsContract`, `TranscriptionKeepsContract`,
`EvaluationKeepsContract`, `CleanupKeepsContract`): for the first two modules it
is the whole claim, and for the others it covers the steps without a conjunct,
the handlers' own and the enqueueing ones. `TrialScenario` sees a generation job
only from outside.

### JobQueue

One step is one statement with the commit that ends its transaction, or a
transaction that locks the row it changes. Two patterns of the code decide the
grain. The claim is a compare-and-set: `Select` reads a runnable row without a
lock, `ClaimHit`/`ClaimMiss` is the `UPDATE ... WHERE attempt = ...` and its row
count, `LoadClaimed` the read after the commit. And the writes that end an
attempt (`mark_succeeded`, `mark_failed_and_reschedule`, `mark_dead_letter`),
the update of an existing job, the dead-letter retry and the cancellation read a
row without a lock and write back what the ORM sees changed, so each is a load
and a write with anything in between: `MarkLoad`/`MarkWrite`,
`UpdateLoad`/`UpdateWrite`, `RetryLoad`/`RetryWrite`, `CancelLoad`/`CancelWrite`.
`WriteBack` writes only the columns that differ from what was read, as the unit
of work does.

`row` is the jobs table, `failed` the failed_jobs table (per job: no copy,
copied, copied and retried), `wk` what each worker process holds in memory
between its statements, `req` the same for a request or operator command. A job
is named by its idempotency key and its place in the chain of dead-letter
retries. Time is relative and saturates at `Horizon`: `due` until next_run_at,
`lockAge` since locked_at, `age` since the worker's claim_time. `overtaken`
is a history variable: the jobs that were moved (by an expired lease, an
operator, a cancellation) while a worker held them.

Payloads are a version number; the order in which runnable jobs are claimed is
left open, so no property depends on it.

### TrialScenario

Every operation of a trial locks the trial's row for its transaction, so one
step is one transaction. Two requests take several: approving for inviting
commits the lock of the scenario and then activates (`Approve`,
`ApproveFinish`), and a batch invites row by row (`Invite` keeping `batch`,
`BatchRow`, `BatchEnds`). Their later transactions lock the row again but test
the trial object of the first. `ApproveFinish` and `BatchRow` therefore have the
guards the code really evaluates: those of the remembered object.

`trial` is status, active and pending version; `ver` the versions (status and a
content bit that every change flips, so that a change is visible and states
stay few); `job` the generation job of each version (version 1 stands for the
default job, which carries no version id), seen from outside: queued, succeeded
or dead letter, with `GenerateAgain` for the runs the queue may add; `newest`
the job that the regeneration of a lost default scenario finds by
`ORDER BY created_at` over the trial's pattern; `inv` the invites, whose status
"in_progress" stands for every one after the candidate has begun (`Begin`).
`Extends` says which trials' correlation ids a `LIKE 'trial:<id>%'` matches.
`unlocked`, `stale` and `reset` are history variables that name the three
exceptions: a trial whose default generation overwrote a locked version, a trial
that was changed by a request with an outdated object, and a session that an
operator has reset after the termination. The reset (`Reset`,
`reset_candidate_session`) asks neither for the trial's status nor for the
session's: an expired session of a terminated trial is open again, and
`TerminatedRevoked` leaves it out.

A queued generation job runs at least once or ends as a dead letter; that is the
queue's contract below, used informally here since a run of the handler is one
transaction.

### JobContract

`status` is the status column, `held` the pairs of a worker and the job it works
on. A claim takes a queued or running job and may be the second on it; whoever
holds a job may record any outcome (`Report`), also after another worker has
claimed it; a handler may put its own job back; an operator or a cancellation
may give a job another status (`Intervene`). What the contract excludes is what
the users rely on: a handler that starts on a finished job, a status that
changes without a holder or an operator, a job that disappears. Leases, times,
attempts, copies and payloads are details of `JobQueue`.

### DayFlow

One candidate session. `sess` is its row, `sub` and `draft` the submissions and
drafts by day, `audit` the head recorded at a cutoff, `repo` the repository on
GitHub with its workspace rows (what is in it counts as `head`, the number of
the last push; `base` is what the branch was last forced to), `job` the
day-close jobs, `rq` and `wk` what requests and workers remember.

A request checks its gates on what it has read and writes later, so a submission
is `BeginSubmit` (window, order, current task), `GateCode` (the cutoff, for code)
and `CreateSubmission`, `FinishSubmit` (progress, with the session object of the
beginning); a save of a draft is two steps; an init of the codespace goes
through `BeginInit`, `Grant`, `Bootstrap`, `StoreRow`, with what GitHub does as
an effect on `repo`; `Abandon` is a request that dies or fails. Claim, take-over,
schedule, reset, handoff completion and the reading of the current task are
single transactions. The finalizer is `LoadText`, `FinalizeText`, `MarkDraft`,
`FinishText`; the cutoff `LoadCode`, `Revoke`, `RecordRevocation`, `ReadHead`,
`CreateAudit`, the last of which may meet the row of a second worker and then
keeps it. A crash leaves the job to be claimed again.

The jobs' statuses are those of the table. `Runnable` is the queue's filter; an
outcome is written over whatever the job has become (`Outcome`), the choice
between another attempt and a dead letter is made with the attempt number the
worker claimed, and a run that comes before the end of the window puts its job
back (`PutBack`, refused when the job is over) and reads the row again in a later
transaction (`VerifyRescheduled`): if another worker has claimed it by then, this
run counts as failed and writes its outcome over the other's claim. `tries`
stops counting at `MaxAttempts`, beyond which the decision no longer depends on
it.

A day's window is one unit of time. Evaluation, review and the candidate's
profile are left out; text is the number of the draft's version. `late` is a
history variable: a request whose gate was passed before the cutoff gave the
access back after its day or a later one was cut off.

### Recording

`rec`, `transcript`, `object` (the storage), `pointer` (the submission's
recording) and `job` are the rows; `wk` a worker between the handler's
transactions: `Claim`, `MarkProcessing`, `ReadAgain` (the second read before the
provider is called), `Transcribe` or `TranscribeFails`, then `MarkReady`,
`MarkRetrying` or `MarkFailure`, then `Finish`. A transaction that locks the
recording is one step, except the deletion, whose row is read before the lock
and kept by the session (`BeginDelete`, `CommitDelete`), and the purge, which
deletes the object under the lock and commits afterwards (`ListPurge`,
`EraseObject`, `CommitPurge`, `PurgeFails`). `Free` is that lock. `phase` says
where Day 4 and the retention are. `NewPurge` starts over after the run that a
storage error ended. Media deletion is taken to be enabled, signed URLs and
audit rows of a purge are left out.

### EvaluationRun

One session. `evidence` numbers the bases (what submissions, audits and
transcript add up to); a basis is the idempotency key, so a job is a basis and
the number of validation retries. `Generate` is the request, with its
create-or-get of the job; a worker goes through `LookUp` (a run of this job
exists already), `StartRun` (whose insert waits for another open insert of the
same job and is refused when that has committed), then `Complete`, `Fail` or
`Abort`, and `Record` writes the job's outcome. Insert and outcome are one
database transaction: `run` holds what is committed, an open insert is a worker
that is "evaluating". `begun` is the order of `started_at`, as a relation on the
jobs with a run, committed or open: `Begin` puts a job last, `Without` takes a
rolled-back one out, and `LatestOf` is the look-up of the report to show. `marker` is the report's row with its citations, `notice`
the job of the mail. `RefuseSnapshot` is the error path before the run, and
`RetryDead` the operator's retry. `Evaluate` is the TrialEvaluator, a second
state machine over `state`, that only tests call at this commit. Scoring is a
choice of outcomes.

### WorkspaceCleanup

`workspace_cleanup` closes what has outlived its retention, `trial_cleanup`
everything of a terminated trial. A run lists its targets with one query
(`List`) and keeps those objects; `Process` is what it does for one target up to
the commit, with the calls to GitHub that happen in it (revocation and closing,
each with its refusals, lost answers and "not found"); `Commit` writes the
columns that differ from the listed ones, whatever is in the row by then. In
between, a candidate submits, a request that passed its gates opens the
repository again (`Begin`, `Act`: a test run takes it out of the archive, an
init also creates a deleted one), an operator resets the session, another run
works on the same records, and an approval that was under way at the termination
brings the trial back (`Revive`, the trace of `trial-terminated` seen from here).
`repo` says what GitHub holds: "reopened" is a repository that was closed and is
open again.

What a run remembers of a target has two marks besides its record: it was due,
and its trial was terminated (`over`). `RetentionKept` compares the listing with
the session at the moment of the closing; the two who may find a repository gone
that is still kept are the operator who takes a completion back (`reset`) and
the owner of a trial that came back while a run was at work on the listing of
before (`Outdated`).

`TerminatedSettled` says that the job of a termination ends for good, as succeeded
or dead letter, and that `Accounted` holds from then on: once the trial's cleanup
has succeeded, every repository is closed, or its record says "failed" and the
cleanup itself has committed that target (`tried`; a failure of before does not
count). `Undone` names what may end this: the trial came back (`revived`), a
company's run with an older listing wrote "pending" over the outcome (`pended`),
or a request that passed its gates before opened the repository again, while its
record stays complete. `Accounted` is proved for every instance.

One row stands for a repository: with two coding days the second row names the
same repository and the listing keeps one of them. Collaborators are not
followed beyond the columns; the order of the targets is open; retention counts
in units of the clock; `Closed` is what the configuration makes of a repository.
The run has `Closed = "archived"`; the proofs cover both values. The cutoff
(`CutOff`) fails at most `MaxFaults` times between its two commits.

### Where the models are coarser than the code

Places where a handler does a little more than its action, and why no property
depends on it:

- A handler that puts its own job back (`JobQueue!HandlerRequeues`) finds the row
  by the handler's canonical key. In a job that an operator made by retrying a
  dead letter this is the row of the first job of the chain; the model takes the
  worker's own row. Unless someone has put the first job back too, it is a dead
  letter, the requeue is refused and the handler raises (`HandlerRaises`).
- `DayFlow!CompleteUpload` checks the window and stores the upload in one step;
  the code asks the storage for the object in between, so an upload may be stored
  shortly after its window. A handoff is in no order with the other days, and
  what follows from the upload does not depend on the clock.
- `DayFlow!Grant` and `StoreRow` leave the user with access. They differ from the
  code only after a reset of a session with coding days, which no run has
  (`MaxResets = 0` there).
- `Recording!PutObject` ends with the window; a signed URL that was issued at its
  end is good for some minutes more. Retention starts days later, so it is not
  reached by such an upload, which is all that `PurgedErased` asks.
- `EvaluationRun!LookUp` leaves out the returns for a broken payload, an unknown
  session and another company: the application enqueues no such job. `SendNotice`
  leaves out the talent partner without an address. `Evaluate` begins with a
  completed session, which is what a report is requested for; before that it
  would only note `AWAITING_DAY_5_DEADLINE`.

## Runs

| run | instance | question |
|---|---|---|
| `queue-safety` | 2 workers, 1 request, 1 job, 2 attempts, 2 faults | claims unique (`ClaimUnique`); two holders only after the job was taken away (`Exclusive`); attempts bounded (`AttemptsBounded`); taken away only after the lease or by an operator (`LeaseProtects`); finished stays finished (`FinishedStays`); every step is one of the contract (`ImplementsContract`) |
| `queue-recovery` | 2 workers, 2 requests, a job and its retry, 1 attempt, 1 fault, fairness | every dead letter has its copy unless it was cancelled (`DeadLetterCopied`); attempts grow (`AttemptsGrow`); every enqueued job settles (`Settles`) |
| `trial-lifecycle` | 1 trial, 2 versions, 2 candidates, 1 generation too many | `InvitedLocked`, `InvitedFrozen`, `InvitedApproved`, `PendingOpen`, `GenerationOwed`, `TerminatedRevoked`, also when operators reset sessions |
| `day-flow-order` | first text day, handoff and reflection; 1 worker, 1 request, 1 crash, 1 reset, fairness | submissions in order (`InOrder`), completion with every task (`CompletedHasAll`), drafts closed by submissions and days closed when their job has succeeded (`DaysSettled`), the jobs within the queue's contract (`KeepsContract`), every day closed (`DaysClose`) |
| `day-flow-cutoff` | two coding days, 2 workers, 1 request, 1 crash or overrun, fairness | what was cut off stays what it was (`EvidenceFrozen`, `RecordsStay`), every cutoff is recorded or its job a dead letter (`DaysClose`) |
| `recording-life` | 1 recording, 2 workers, 3 attempts, 2 faults, fairness | erased text does not come back (`ErasedText`), the two rows agree (`ReadyTogether`), purged means erased (`PurgedErased`), ready is not transcribed again (`ReadyKept`), a completed upload settles (`TranscriptionSettles`) |
| `evaluation-life` | 2 bases, 2 workers, 2 attempts, 1 fault, 2 TrialEvaluator passes, fairness | completed run, marker and notice in one commit and a state that claims nothing else (`OutcomeTogether`), success means a report (`SucceededHasReport`), committed runs stay (`RunsStay`), requests are answered (`RequestSettles`) |
| `cleanup-life` | 1 session, a company's run and the trial's job on 2 workers, 1 fault (also: 1 reset, 1 revival), fairness | nothing closed too early (`RetentionKept`), no record of a closing that never happened (`RecordTruthful`), a cleanup that ends and accounts for every repository for good (`TerminatedSettled`) |
| `queue-cancel` | violation of `CancelledStays` | a cancelled running job comes back |
| `trial-terminated` | violation of `TerminatedStays` | an approval brings a terminated trial back |
| `day-flow-rewrite` | violation of `WorkContinues` | the first init of Day 3 forces the branch to a tree without the work of Day 2 |
| `recording-purge` | violation of `BatchRuns` | a storage error ends a purge run with recordings of its list left |

`queue-safety`, `trial-lifecycle`, `recording-life`, `evaluation-life` and
`cleanup-life` also check the type invariant (`TypeOK`) of their module; that of
DayFlow is left to its proof. The violation runs check what a document, a docstring or a test of the
repository says; the findings in `PROJECT.json` quote the line and give the
trace's story. None of them is about a bound: each trace uses one trial or one
session and at most two actors.

**Bounds.** Two workers are enough for every pairwise race on a row: jobs are
independent but for the logical key, which `queue-recovery` exercises with a job
and its retry. In the queue two attempts make both sides of the retry decision
happen, and `Horizon = 2` with `Lease = 1`, `AdminStale = 2` and back-offs of 1
and 2 puts every comparison of times on both of its sides. Faults (crashes,
overrun leases, operator interventions) are bounded by `MaxFaults`, payload
updates by `MaxVersion`, retry chains by `MaxRetry`. In TrialScenario two
versions are an active and a pending one, which is all that can be told apart at
one time, and two candidates make a batch of two rows. DayFlow needs three days
of different kinds to get the order wrong and two coding days to get the cutoff
wrong; four or five days in one instance are beyond TLC, hence two runs, and
windows open every second instant so that there is a time between them. The
horizons are the ends of the last windows: in `day-flow-cutoff` of a schedule
that starts at once, in `day-flow-order` also of a second schedule that moves
everything by one, so that a run of the first one comes too early and puts its
job back. One row for both coding days (`Grouped`) is covered by the proofs
alone. Recording's properties
speak of one recording at a time, and the only operation that goes from one to
the next is the purge, whose run has two. Evaluation needs two bases for an outdated one to be
evaluated after a new one; with `MaxRetries = 0` the job that a failed
validation adds is not reached by TLC (the proofs hold for any `MaxRetries`).
Cleanup needs two jobs on one record, and one fault at a time: that a reset, a
revival and a crash meet in one behaviour is left to the proofs; `Retention = 0`
still has a clock that reaches and passes the end of it. The proofs hold for
every value of all of these.

**Deadlock** is checked in the runs of JobQueue and TrialScenario. The other
systems end: the clock reaches its horizon, everything is submitted, closed or
purged and nobody has anything left to do, so their configurations turn it off,
and their liveness properties say what must have happened by then.

**Fairness.** `run_worker_forever` takes a worker from one step to the next by
construction, a handler's calls return or raise, and a supervisor starts a dead
process again: so each `FairSpec` has weak fairness of a worker's own steps and,
where a job must be picked up, of somebody claiming it. The queue also assumes
that time passes and that a request that loaded a row writes it; DayFlow that
time passes; Recording that a purge releases the lock it has taken. The users of
the queue assume the claim of a job only while nobody holds it, so no worker is
promised a job that another one is busy with. Nothing is assumed of crashes,
operators, candidates or of any answer of GitHub, the storage or a provider
being a success. Only `Settles`, `DaysClose`, `TranscriptionSettles`,
`RequestSettles` and `TerminatedSettled` need fairness.

## Proofs

Each theorem holds for every value of the constants that satisfies the module's
assumption. Most state a property which a run checks on a small instance; those
marked "no run" say what no run's configuration names.

| theorem | property | argument |
|---|---|---|
| `JobQueueProofs!TypeSafe` | `TypeOK` | inductive with the shape of the memories (`MemoryShape`); lemmas on rows and saturating times |
| `ClaimsAreUnique` | `ClaimUnique` | a worker's token never exceeds the row's attempt, and only the compare-and-set raises it |
| `WorkIsExclusive` | `Exclusive` | a second claim needs an expired lease or a requeue, and both mark the job as overtaken |
| `AttemptsAreMonotone` | `AttemptsGrow` | no writer but the claim touches the attempt |
| `FinishedJobsStay` | `FinishedStays` | on a job not overtaken the only writer is the one holder, and it forgets the job with its write |
| `LeasesProtect` | `LeaseProtects` | below |
| `DeadLettersAreCopied` | `DeadLetterCopied` | below |
| `AttemptsAreBounded` | `AttemptsBounded` | below |
| `JobQueueRefinement!QueueImplementsContract` | `ImplementsContract` | below |
| `TrialScenarioProofs!TypeSafe` | `TypeOK` | inductive as it stands |
| `InvitesPinVersions`, `InvitesAreFrozen`, `InvitesAreApproved`, `PendingStaysOpen`, `GenerationsAreOwed`, `TerminationRevokes` | `InvitedLocked`, `InvitedFrozen`, `InvitedApproved`, `PendingOpen`, `GenerationOwed`, `TerminatedRevoked` | below |
| `DayFlowProofs!TypeSafe` | `TypeOK` (no run) | inductive as it stands |
| `InTheirOrder`, `CompletionIsEarned`, `DaysAreSettled`, `RecordsAreFinal`, `EvidenceIsFinal`, `ClosingKeepsContract` | `InOrder`, `CompletedHasAll`, `DaysSettled`, `RecordsStay`, `EvidenceFrozen`, `KeepsContract` | below |
| `RecordingProofs!TypeSafe` | `TypeOK` | |
| `DeletionErases`, `RowsAgree`, `RetentionErases`, `ReadyStays` | `ErasedText`, `ReadyTogether`, `PurgedErased`, `ReadyKept` | below |
| `TranscriptionKeepsContract` | no run: a step-by-step refinement of `JobContract` | below |
| `EvaluationProofs!TypeSafe` | `TypeOK` | inductive with the order of the runs (below) |
| `SuccessMeansReport`, `OutcomeIsAtomic`, `RunsAreFinal` | `SucceededHasReport`, `OutcomeTogether`, `RunsStay` | below |
| `LatestIsKnown`, `AttemptsAreBounded`, `EvaluationKeepsContract` | no run | below |
| `WorkspaceCleanupProofs!TypeSafe` | `TypeOK` | |
| `RecordsAreTruthful`, `RetentionIsKept` | `RecordTruthful`, `RetentionKept` | below |
| `CleanupAccounts` | `Accounted`, on which `TerminatedSettled` rests | below |
| `ClosedStaysClosed`, `AttemptsAreBounded`, `CleanupKeepsContract` | no run | below |

**Queue.** All but the types and the attempts rests on `OwnInv`: while nobody took
a job from its worker, that worker is alone with it and the row, also as its
pending write has read it, is what its claim left. `LeaseInv` adds that the lock
in the row is no older than the claim in memory, so that an expired lease in the
row is an overrun one at the worker. `CopyInv` adds that a copy a worker has
seen is still there, since no copy is removed. The attempts are bounded by
`Limit`, max_attempts and one more for each crash or intervention so far.
`Budget` says of every job that nobody overtook that a queued job, and a running
one without a worker, is below the limit (its next claim comes without a fault),
that a worker decides from the attempt it claimed, and that nobody copies or
retries a job before it is a dead letter, so that no worker's write is refused.

**Refinement.** The mapping shows the status column and, as `held`, the workers
between a successful claim and the write of their outcome. `RefInv` is the type
invariant, that a row absent from the table has no attempt, and that a
cancellation in flight is about a row that exists. Every step of the queue is
then a step of the contract or leaves both variables alone: `ClaimHit` is
`Claim`, `MarkWrite` is `Report`, the handler's requeue is `PutBack`, a crash
is `Abandon`, and the unfenced writes of requests and operators are
`Intervene`, which is why the contract has to allow it.

On the other side of the contract every user is a refinement of the same module,
with its status column and the job each worker remembers. The mapped steps are
`Enqueue` (of several jobs in DayFlow, where a schedule inserts one for each
day), `Claim`, `Report`, `PutBack`, `Abandon` and, for the operator's retry of an
evaluation, `Intervene`. Needed is only that a worker that is not idle has a job
and that an outcome is one the contract knows; in DayFlow also that a worker is
never at a step of another day than the one it claimed (`JInv`).

**Trials.** The trial properties are not inductive one by one. `InvitedLocked` alone does
not exclude that the version of an invite is created afresh by a regeneration;
`PendingOpen` does not exclude that a batch locks the pending version, or that
an old job writes a version above it. The inductive invariant `IInv` adds, per
trial, that an active version exists once there is one and that there is no
version before (`ActiveOf`), that a job, an invite and a batch name versions
that exist (`JobsOf`, `InvitesOf`, `BatchOf`), that an invite and a batch never
name the pending version, and that version 1 is never pending (`PendingOf`). The
idea behind all of them is that a version never becomes absent again and that a
new one takes an index nobody can have named. `Sound(t)` collects the parts of
one trial. A step of another trial leaves the rows of `t` alone but for jobs
that are cancelled or requeued (`Elsewhere`, `SameSound`), which is where the
cross-trial effects of the termination and of the restored generation are dealt
with once; for the trial of the step there is one lemma per operation, with the
three operations that write a version, those that lock one and those that invite
sharing `GeneratedSound`, `EditSound` and `InvitedSound`, and the two that move
only a session `SessionSound`: neither changes which version an invite names.

**Days.** Two invariants that do not need each other. `Submissions` says that
what a request or a run has found out before it writes is still so when it
writes: submissions are never removed, so a passed order check stays true, a day
that is being marked is submitted, and a draft that a run read only grows.
`Cutoffs` says of each workspace row (`RowOK`) that once its access is cut nobody
has access and the head is the audit's, unless the row is `Reopened` by a later
day's bootstrap or an excused request; of a run that the row it is about to audit
was cut and the head it read is still the head; and of a request that the
revocation it looked for was not there when it looked, which is what makes it
excused if it gives the access back later.

A third invariant, `Closing`, is about the jobs: until an operator resets the
session, a session that has jobs has its schedule, so no run takes it for
unscheduled and succeeds at once, and a run that is past its loading has a job
of the right kind of day and, before it completes the session, a submission. With
`SchedulesStay` (only the reset takes a schedule back, and a closed day stays
closed) a run can write "succeeded" only for a day that is closed, whatever the
job has become in the meantime, which is `SuccessIsClosed`.

**Recording.** `ErasedText` is not inductive: a transcription or a deletion goes on
with what it has read. `Rows` says that the flags of a deletion show in the
status, that a gone or missing transcript has no text and that the pair agrees
on being ready; `DeleterOK` that a deletion that has read a gone recording will
find it gone; `PurgerOK` that what is on a purge's list is not purged and that
retention runs only when nothing can be uploaded any more; `Retention` the same
for the rows it has written. `ReadyKept` needs no more: a run that is not past
`MarkProcessing` meets the ready row under its lock.

**Evaluation.** `OneInsert` is the unique index: at most one worker per job is
evaluating, and while it is, no run of the job is committed (`MemoryOf`). So a
committed run is final. A worker carries "succeeded" only with a completed run,
which by finality is still there when it reports, however late.

`Order` says that `begun` is a total order of exactly the jobs with a run,
committed or open: a run that begins is put last (`AppendOrder`), an aborted or
crashed one disappears (`RemoveOrder`). The finished runs are a finite set, so
one of them began last (`LastExists`, by the well-foundedness of strict inclusion
on the sets of runs that began after one), and antisymmetry makes it the only
one: `LatestIsKnown`. With `Order` the type invariant is inductive.

`OutcomeIsAtomic` holds because one commit makes all three and no step removes
any; for the state, a pass that finalizes has found a report and
a pass that notes the notice has found it sent, and neither is ever taken back.
The attempts (`Attempts`, in the two modules that count them) follow the queue's
argument from outside: a job that can be claimed without a fault is below the
limit, and a worker is behind its row by no more than the faults so far.

**Cleanup.** A run acts on a listing that may be arbitrarily old, so the
invariant speaks of memories: what was true of a target when it was listed is
still true (`TargetOK`: a cleaned record stays the record of a repository that
was closed; a session past its retention stays past it unless it was reset, and
one that is not past it was listed while its trial was terminated), and what a
run is about to write of a closing has happened (`MemoryOK`). `Told` then says
that `cleaned_at` is only set once the repository is not the original live one,
and `Ends` ties the session's columns to each other. Nothing in this needs the
trial to stay terminated. What a request of before the termination does to a
closed repository is bounded by `ClosedStaysClosed`: no new request passes its
gates on a terminated trial, so once none is under way nothing opens the
repository any more, until the trial comes back.

`CleanupAccounts` needs a second invariant, `AInv`, because the status that a run
of the trial's job writes is lost when the listed record has it already: the
commit then leaves whatever another run has put there. `RunOK` says that what a
run has read of a record is no more than what it says now (`Seen`): a date is
never taken back, and an ending ("failed", "archived", "deleted") is only left
for "pending", which `pended` remembers. So every target that the trial's run has
committed has an ending or is in `pended` (`RowOK`). `Behind` says that the run
leaves no session behind that it has not tried, and `JobOK` that the job exists
only since a termination, so a run that finds the trial living has found it
revived.

Only model-checked: the five liveness properties (that the job of `TerminatedSettled`
ends; what holds then is proved), since liveness under fairness is out of the prover's reach. The violation runs are counterexamples and need no
proof. One branch is only proved about: in DayFlow, that another worker has
claimed a job between its requeue and the verification. It needs two workers on a
text day, and `day-flow-order`, which has the text days, has one worker.

## Not modelled

- The bulk upsert of jobs (`create_or_update_many_idempotent`) and its recovery,
  the claim order (`next_run_at, created_at`), the heartbeat and readiness.
- The task rows that a later generation rewrites for the whole trial; texts,
  scores, rubrics, report content, wording, authorization, logging.
- Results of Actions runs: a webhook overwrites the conclusion of a run without
  comparing it with what is stored, and a delivery that comes before its
  submission's row is dropped. The parsing of artifacts.
- The admin's day-window control, mails and their delivery audits other than the
  report's notice, the rate limiter (no await between its read and its write).
- Authentication, policies and prompts, clients of remote services, demo data,
  migrations: no state of their own, pure functions, or I/O.

The last item is most of the repository by lines, together with the schemas,
routes and serialisers of every part: the map names the lines that change or
guard the state of the modelled parts, about a tenth of the implementation, and
no definition stands for code it does not translate.

What the code does that no run asks about, seen while modelling: nothing in the
application enqueues `workspace_cleanup` or calls the purges for retention and
data requests, and only tests call the TrialEvaluator. A company's cleanup run
with an old listing may write "pending" or "failed" over "archived", or "pending"
over the failure that the trial's cleanup has recorded, and then nothing says any
more that a live repository was to be closed. A request that passed its gates
before the end may open a closed repository, which no later run closes, since its
record is complete. A trial that came back from its termination and is
terminated again gets no second cleanup, since the key of the first one's job is
taken. `TerminatedSettled` names each of these as an exception. In the run of
`trial-lifecycle` there is one trial, so that a termination that cancels the
generation of another trial by the prefix of its id is covered by the theorem
`GenerationsAreOwed` alone. The hazards of `PROJECT.json` without a property have a note that
says what a model would have to add.

## Plan

Done: the queue, its contract and the refinement; trials; days; recordings;
evaluation; cleanup; with the proofs above. In the order of what they would add:

1. Task rows in TrialScenario, so that a submission and the version its candidate
   was invited to can be compared.
2. Results of Actions runs against submissions: deliveries that are repeated,
   late or out of order.
3. Notifications (check, send, audit), the heartbeat and readiness.
4. The bulk upsert, with the transaction that an integrity error aborts.
