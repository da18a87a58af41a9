------------------------------ MODULE JobQueue ------------------------------
(***************************************************************************)
(* The durable job queue: the jobs and failed_jobs tables, the workers     *)
(* that claim and run jobs, and the requests that enqueue, update, requeue,*)
(* retry and cancel them.                                                  *)
(*                                                                         *)
(* One step of this module is one database statement together with the     *)
(* commit that ends its transaction, or the statements of a transaction    *)
(* that locks the row it changes.  The mark_* writes and the ORM updates   *)
(* of requests read a row without locking it and write back only the       *)
(* columns that differ from what they read: they are a Load step and a     *)
(* Write step with anything in between.                                    *)
(*                                                                         *)
(* Time is relative: "due" is how long until next_run_at (0 once reached), *)
(* "lockAge" the time since locked_at, and a worker's "age" the time since *)
(* its claim_time.  All three stop changing at Horizon, which no threshold *)
(* exceeds.                                                                *)
(***************************************************************************)
EXTENDS Integers, FiniteSets

CONSTANTS
  Workers,       \* worker processes
  Requests,      \* API requests and operator commands that may be in flight
  Keys,          \* idempotency keys of first-hand jobs (company, type, key)
  None,          \* SQL NULL
  MaxRetry,      \* bound: longest chain of dead-letter retries of one key
  MaxAttempts,   \* max_attempts of every job
  Lease,         \* lease_seconds
  AdminStale,    \* age at which an operator may requeue without force
  Backoff,       \* delay after the n-th attempt fails
  Horizon,       \* where the relative times saturate
  Delays,        \* the delays callers ask for when they enqueue or update
  MaxFaults,     \* bound on crashes and interventions
  MaxVersion     \* bound on payload updates of one job

ASSUME ConstantAssumption ==
  /\ None \notin Workers /\ None \notin Keys
  /\ MaxRetry \in Nat /\ MaxFaults \in Nat /\ MaxVersion \in Nat
  /\ MaxAttempts \in Nat \ {0}
  /\ Horizon \in Nat
  /\ Lease \in 1..Horizon /\ AdminStale \in 1..Horizon
  /\ Backoff \in [1..MaxAttempts -> 1..Horizon]
  /\ Delays \subseteq 0..Horizon

VARIABLES
  row,        \* the jobs table
  failed,     \* the failed_jobs table: "none", "copied" or "retried"
  wk,         \* what each worker holds in memory
  req,        \* what each request holds in memory
  faults,     \* crashes and interventions so far
  overtaken   \* history: jobs moved by others while a worker held them

vars == <<row, failed, wk, req, faults, overtaken>>

(***************************************************************************)
(* A job is a key and its place in the chain of dead-letter retries: the   *)
(* retry's own idempotency key is "<original>:retry:<failed job>", which   *)
(* the unique index admits once.                                           *)
(***************************************************************************)
Jobs == Keys \X (0..MaxRetry)
Retry(j) == <<j[1], j[2] + 1>>

\* payload originalIdempotencyKey, or the job's own key: a retry names the
\* job it was made from, also when that job was a retry itself.
LogicalKey(j) == IF j[2] = 0 THEN j ELSE <<j[1], j[2] - 1>>

Terminal == {"succeeded", "dead_letter"}
Statuses == {"absent", "queued", "running"} \cup Terminal

Rows == [st : Statuses, attempt : Nat, due : 0..Horizon,
         by : Workers \cup {None}, lockAge : 0..Horizon, ver : Nat]

NoRow == [st |-> "absent", attempt |-> 0, due |-> 0,
          by |-> None, lockAge |-> 0, ver |-> 0]

\* A row as create_or_get_idempotent and the dead-letter retry insert it.
NewRow(d, v) == [st |-> "queued", attempt |-> 0, due |-> d,
                 by |-> None, lockAge |-> 0, ver |-> v]

Locked(r) == r.by # None

\* Mutant: a requeue that leaves locked_by behind.
UnlockKeepingOwner(r) == [r EXCEPT !.lockAge = 0]
Unlock(r) == [r EXCEPT !.by = None, !.lockAge = 0]

(***************************************************************************)
(* A worker's memory: the job it works on, the attempt its claim wrote     *)
(* ("token"), the attempt and payload version of the row object it loaded  *)
(* afterwards, the age of its claim_time, the status it means to write and *)
(* what the write's SELECT saw.                                            *)
(***************************************************************************)
WorkerStates == {"idle", "selected", "claimed", "loaded", "handling",
                 "requeued", "finishing", "marking", "down"}

Seen == [st : Statuses, locked : BOOLEAN, copied : BOOLEAN]
NoSeen == [st |-> "absent", locked |-> FALSE, copied |-> FALSE]

\* Mutant: the copy looked up by key, so that a retry finds its original's.
SeeAnyOfKey(j) == [st |-> row[j].st, locked |-> Locked(row[j]),
                   copied |-> \E i \in Jobs : i[1] = j[1] /\ failed[i] # "none"]
See(j) == [st |-> row[j].st, locked |-> Locked(row[j]),
           copied |-> failed[j] # "none"]

Targets == {"none", "succeeded", "queued", "dead_letter"}

WorkerMem == [pc : WorkerStates, job : Jobs \cup {None}, token : Nat,
              attempt : Nat, ver : Nat, age : 0..Horizon,
              target : Targets, seen : Seen]

Blank(p) == [pc |-> p, job |-> None, token |-> 0, attempt |-> 0, ver |-> 0,
             age |-> 0, target |-> "none", seen |-> NoSeen]

\* Between the commit of its claim and its last write a worker holds a job.
HoldingStates == {"claimed", "loaded", "handling", "requeued",
                  "finishing", "marking"}
Holds(w, j) == wk[w].pc \in HoldingStates /\ wk[w].job = j
Holders(j) == {w \in Workers : Holds(w, j)}

RequestMem == [op : {"none", "update", "retry", "cancel"},
               job : Jobs \cup {None}, ver : Nat, seen : Seen]
NoRequest == [op |-> "none", job |-> None, ver |-> 0, seen |-> NoSeen]

Init ==
  /\ row = [j \in Jobs |-> NoRow]
  /\ failed = [j \in Jobs |-> "none"]
  /\ wk = [w \in Workers |-> Blank("idle")]
  /\ req = [r \in Requests |-> NoRequest]
  /\ faults = 0
  /\ overtaken = {}

-----------------------------------------------------------------------------
(* Time *)

Younger(t) == IF t = 0 THEN 0 ELSE t - 1

\* Mutant: a clock that does not saturate.
OlderForever(t) == t + 1
Older(t) == IF t = Horizon THEN Horizon ELSE t + 1

TickRow(r) ==
  [r EXCEPT !.due = Younger(@),
            !.lockAge = IF Locked(r) THEN Older(@) ELSE @]

TickWorker(m) ==
  IF m.pc \in HoldingStates THEN [m EXCEPT !.age = Older(@)] ELSE m

\* A tick is at least the shortest back-off, so it never falls between the
\* claim_time a worker takes and the UPDATE that claims with it.
Tick ==
  /\ \A w \in Workers : wk[w].pc # "selected"
  /\ row' = [j \in Jobs |-> TickRow(row[j])]
  /\ wk' = [w \in Workers |-> TickWorker(wk[w])]
  /\ UNCHANGED <<failed, req, faults, overtaken>>

-----------------------------------------------------------------------------
(* Claiming: claim_next_runnable *)

\* Mutant: the lease treated as over one tick early.
RunnableEarly(r) ==
  \/ r.st = "queued" /\ r.due = 0
  \/ r.st = "running" /\ (~Locked(r) \/ r.lockAge >= Lease - 1)

\* Mutant: expired leases never looked at.
RunnableQueuedOnly(r) == r.st = "queued" /\ r.due = 0

\* Mutant: whatever is due and not locked, finished or not.
RunnableUnlocked(r) == r.st # "absent" /\ r.due = 0 /\ ~Locked(r)

\* runnable_filter; the claim order is left open.
Runnable(r) ==
  \/ r.st = "queued" /\ r.due = 0
  \/ r.st = "running" /\ (~Locked(r) \/ r.lockAge >= Lease)

\* SELECT id, attempt ... LIMIT 1
Select(w) ==
  /\ wk[w].pc = "idle"
  /\ \E j \in Jobs :
       /\ Runnable(row[j])
       /\ wk' = [wk EXCEPT ![w] = [Blank("selected") EXCEPT
                   !.job = j, !.attempt = row[j].attempt]]
  /\ UNCHANGED <<row, failed, req, faults, overtaken>>

\* Mutant: an UPDATE that compares only the attempt.
ClaimMatchesAttempt(w) == row[wk[w].job].attempt = wk[w].attempt

\* Mutant: an UPDATE that tests only whether the row is runnable.
ClaimMatchesRunnable(w) == Runnable(row[wk[w].job])

\* The WHERE clause of the claiming UPDATE.
ClaimMatches(w) ==
  LET j == wk[w].job
  IN row[j].attempt = wk[w].attempt /\ Runnable(row[j])

\* UPDATE ... WHERE attempt = what was read; rowcount 1, commit.
ClaimHit(w) ==
  LET j == wk[w].job
      n == wk[w].attempt + 1
  IN /\ wk[w].pc = "selected"
     /\ ClaimMatches(w)
     /\ row' = [row EXCEPT ![j] = [@ EXCEPT
                  !.st = "running", !.attempt = n, !.by = w, !.lockAge = 0]]
     /\ wk' = [wk EXCEPT ![w] = [@ EXCEPT !.pc = "claimed", !.token = n]]
     /\ overtaken' = IF Holders(j) # {} THEN overtaken \cup {j} ELSE overtaken
     /\ UNCHANGED <<failed, req, faults>>

\* rowcount 0: roll back and look again.
ClaimMiss(w) ==
  /\ wk[w].pc = "selected"
  /\ ~ClaimMatches(w)
  /\ wk' = [wk EXCEPT ![w] = Blank("idle")]
  /\ UNCHANGED <<row, failed, req, faults, overtaken>>

\* get_by_id after the commit: the object the rest of run_once works with.
LoadClaimed(w) ==
  LET r == row[wk[w].job]
  IN /\ wk[w].pc = "claimed"
     /\ wk' = [wk EXCEPT ![w] = [@ EXCEPT !.pc = "loaded",
                 !.attempt = r.attempt, !.ver = r.ver]]
     /\ UNCHANGED <<row, failed, req, faults, overtaken>>

-----------------------------------------------------------------------------
(* Running the handler: run_once after the claim *)

\* find_successful_idempotent_job
Duplicate(j) ==
  \E d \in Jobs \ {j} : /\ row[d].st = "succeeded"
                        /\ LogicalKey(d) = LogicalKey(j)

\* Another job of the same logical key has succeeded: record that and stop.
SkipIdempotent(w) ==
  /\ wk[w].pc = "loaded"
  /\ Duplicate(wk[w].job)
  /\ wk' = [wk EXCEPT ![w] = [@ EXCEPT !.pc = "finishing",
                                       !.target = "succeeded"]]
  /\ UNCHANGED <<row, failed, req, faults, overtaken>>

StartHandler(w) ==
  /\ wk[w].pc = "loaded"
  /\ ~Duplicate(wk[w].job)
  /\ wk' = [wk EXCEPT ![w].pc = "handling"]
  /\ UNCHANGED <<row, failed, req, faults, overtaken>>

\* Mutant: one attempt too many.
RetryOrDeadLetterLate(m) ==
  IF m.attempt <= MaxAttempts THEN "queued" ELSE "dead_letter"

\* retry_or_dead_letter decides from the loaded object, not from the row.
RetryOrDeadLetter(m) == IF m.attempt < MaxAttempts THEN "queued" ELSE "dead_letter"

HandlerReturns(w) ==
  /\ wk[w].pc = "handling"
  /\ wk' = [wk EXCEPT ![w] = [@ EXCEPT !.pc = "finishing",
                                       !.target = "succeeded"]]
  /\ UNCHANGED <<row, failed, req, faults, overtaken>>

\* PermanentJobError (a missing handler ends the same way), or any other error.
HandlerRaises(w) ==
  /\ wk[w].pc = "handling"
  /\ \E t \in {"dead_letter", RetryOrDeadLetter(wk[w])} :
       wk' = [wk EXCEPT ![w] = [@ EXCEPT !.pc = "finishing", !.target = t]]
  /\ UNCHANGED <<row, failed, req, faults, overtaken>>

\* A handler that finds itself too early puts its own job back for later
\* (requeue_nonterminal_idempotent_job), or raises when the job is terminal.
HandlerRequeues(w) ==
  LET j == wk[w].job
  IN /\ wk[w].pc = "handling"
     /\ faults < MaxFaults
     /\ faults' = faults + 1
     /\ \/ /\ row[j].st \in {"queued", "running"}
           /\ \E d \in Delays \ {0} :
                row' = [row EXCEPT ![j] = [Unlock(@) EXCEPT
                          !.st = "queued", !.due = d]]
           /\ wk' = [wk EXCEPT ![w].pc = "requeued"]
           /\ overtaken' = IF Holders(j) # {w} THEN overtaken \cup {j}
                                               ELSE overtaken
        \/ /\ row[j].st \in Terminal
           /\ wk' = [wk EXCEPT ![w] = [@ EXCEPT !.pc = "finishing",
                       !.target = RetryOrDeadLetter(wk[w])]]
           /\ UNCHANGED <<row, overtaken>>
     /\ UNCHANGED <<failed, req>>

\* handle_handler_reschedule: trust the handler only if the row shows it.
VerifyRescheduled(w) ==
  LET r == row[wk[w].job]
  IN /\ wk[w].pc = "requeued"
     /\ wk' = [wk EXCEPT ![w] =
                 IF r.st = "queued" /\ ~Locked(r)
                   THEN Blank("idle")
                   ELSE [@ EXCEPT !.pc = "finishing",
                                  !.target = RetryOrDeadLetter(wk[w])]]
     /\ UNCHANGED <<row, failed, req, faults, overtaken>>

-----------------------------------------------------------------------------
(* Recording the outcome: mark_succeeded, mark_failed_and_reschedule,      *)
(* mark_dead_letter                                                        *)

\* The SELECT by id, and for a dead letter the look-up of its copy.
MarkLoad(w) ==
  /\ wk[w].pc = "finishing"
  /\ wk' = [wk EXCEPT ![w] = [@ EXCEPT !.pc = "marking",
                                       !.seen = See(wk[w].job)]]
  /\ UNCHANGED <<row, failed, req, faults, overtaken>>

\* next_run_at = claim_time + back-off, seen from now.
BackoffLeft(m) ==
  LET d == Backoff[IF m.attempt \in 1..MaxAttempts THEN m.attempt ELSE MaxAttempts]
  IN IF d > m.age THEN d - m.age ELSE 0

\* The columns the ORM writes: status if it differs from the one read, the
\* lock if one was read, next_run_at in any case.
WriteBack(r, seen, status, d) ==
  LET unlocked == IF seen.locked THEN Unlock(r) ELSE r
  IN [unlocked EXCEPT !.st = IF seen.st = status THEN @ ELSE status,
                      !.due = d]

MarkWrite(w) ==
  LET j == wk[w].job
      m == wk[w]
      d == IF m.target = "queued" THEN BackoffLeft(m) ELSE 0
  IN /\ m.pc = "marking"
     /\ m.target = "dead_letter" => (m.seen.copied \/ failed[j] = "none")
     /\ row' = [row EXCEPT ![j] = WriteBack(@, m.seen, m.target, d)]
     /\ failed' = IF m.target = "dead_letter" /\ ~m.seen.copied
                    THEN [failed EXCEPT ![j] = "copied"] ELSE failed
     /\ wk' = [wk EXCEPT ![w] = Blank("idle")]
     /\ UNCHANGED <<req, faults, overtaken>>

\* Somebody else copied the job to failed_jobs since: the unique index
\* refuses the second copy, the transaction rolls back and the exception
\* leaves run_worker_forever.
MarkRefused(w) ==
  /\ wk[w].pc = "marking"
  /\ wk[w].target = "dead_letter"
  /\ ~wk[w].seen.copied /\ failed[wk[w].job] # "none"
  /\ wk' = [wk EXCEPT ![w] = Blank("down")]
  /\ UNCHANGED <<row, failed, req, faults, overtaken>>

-----------------------------------------------------------------------------
(* Workers dying and starting again *)

Crash(w) ==
  /\ wk[w].pc \notin {"idle", "down"}
  /\ faults < MaxFaults
  /\ faults' = faults + 1
  /\ wk' = [wk EXCEPT ![w] = Blank("down")]
  /\ UNCHANGED <<row, failed, req, overtaken>>

Restart(w) ==
  /\ wk[w].pc = "down"
  /\ wk' = [wk EXCEPT ![w] = Blank("idle")]
  /\ UNCHANGED <<row, failed, req, faults, overtaken>>

-----------------------------------------------------------------------------
(* Requests *)

\* create_or_get_idempotent for a key that has no job yet.
Enqueue(k) ==
  /\ row[<<k, 0>>].st = "absent"
  /\ \E d \in Delays : row' = [row EXCEPT ![<<k, 0>>] = NewRow(d, 0)]
  /\ UNCHANGED <<failed, wk, req, faults, overtaken>>

\* create_or_update_idempotent for a key that has one (no caller knows the key
\* of a retry): is_mutable_idempotent_job on the row as read ...
UpdateLoad(r, j) ==
  /\ req[r].op = "none"
  /\ j[2] = 0
  /\ row[j].st = "queued" /\ ~Locked(row[j])
  /\ row[j].ver < MaxVersion
  /\ req' = [req EXCEPT ![r] = [op |-> "update", job |-> j,
               ver |-> row[j].ver + 1, seen |-> See(j)]]
  /\ UNCHANGED <<row, failed, wk, faults, overtaken>>

\* ... and the new payload and next_run_at written to it by id.
UpdateWrite(r) ==
  /\ req[r].op = "update"
  /\ \E d \in Delays :
       row' = [row EXCEPT ![req[r].job] = [@ EXCEPT !.ver = req[r].ver,
                                                    !.due = d]]
  /\ req' = [req EXCEPT ![r] = NoRequest]
  /\ UNCHANGED <<failed, wk, faults, overtaken>>

\* requeue_dead_letter_job(s): a dead letter without a retry ...
RetryLoad(r, j) ==
  /\ req[r].op = "none"
  /\ j[2] < MaxRetry
  /\ row[j].st = "dead_letter"
  /\ failed[j] # "retried"
  /\ req' = [req EXCEPT ![r] = [op |-> "retry", job |-> j,
               ver |-> row[j].ver, seen |-> See(j)]]
  /\ UNCHANGED <<row, failed, wk, faults, overtaken>>

\* Mutant: no unique index on the retry's idempotency key.
RetryAdmittedTwice(r) == req[r].seen.copied \/ failed[req[r].job] = "none"

\* The unique indexes refuse a second copy and a second retry.
RetryAdmitted(r) ==
  LET j == req[r].job
  IN /\ req[r].seen.copied \/ failed[j] = "none"
     /\ row[Retry(j)].st = "absent"

\* ... gets its copy, unless it has one, and a new queued job.
RetryWrite(r) ==
  LET j == req[r].job
  IN /\ req[r].op = "retry"
     /\ IF RetryAdmitted(r)
          THEN /\ failed' = [failed EXCEPT ![j] = "retried"]
               /\ row' = [row EXCEPT ![Retry(j)] = NewRow(0, req[r].ver)]
          ELSE UNCHANGED <<row, failed>>
     /\ req' = [req EXCEPT ![r] = NoRequest]
     /\ UNCHANGED <<wk, faults, overtaken>>

\* _cancel_pending_trial_jobs: the jobs of a terminated trial ...
CancelLoad(r, j) ==
  /\ req[r].op = "none"
  /\ row[j].st \in {"queued", "running"}
  /\ faults < MaxFaults
  /\ faults' = faults + 1
  /\ req' = [req EXCEPT ![r] = [op |-> "cancel", job |-> j,
               ver |-> 0, seen |-> See(j)]]
  /\ UNCHANGED <<row, failed, wk, overtaken>>

\* ... are dead-lettered without a copy in failed_jobs.
CancelWrite(r) ==
  LET j == req[r].job
  IN /\ req[r].op = "cancel"
     /\ row' = [row EXCEPT ![j] = WriteBack(@, req[r].seen, "dead_letter", 0)]
     /\ overtaken' = overtaken \cup {j}
     /\ req' = [req EXCEPT ![r] = NoRequest]
     /\ UNCHANGED <<failed, wk, faults>>

\* requeue_job (operator, FOR UPDATE): without force only a dead letter or a
\* running job whose lock is old; the attempt count stays.
AdminRequeue(j, force) ==
  LET r == row[j]
      stale == r.st = "running" /\ (~Locked(r) \/ r.lockAge >= AdminStale)
  IN /\ faults < MaxFaults
     /\ r.st \notin {"absent", "queued"}
     /\ force \/ r.st = "dead_letter" \/ stale
     /\ row' = [row EXCEPT ![j] = [Unlock(@) EXCEPT !.st = "queued", !.due = 0]]
     /\ faults' = faults + 1
     /\ overtaken' = IF Holders(j) # {} THEN overtaken \cup {j} ELSE overtaken
     /\ UNCHANGED <<failed, wk, req>>

-----------------------------------------------------------------------------
WorkerStep(w) ==
  \/ Select(w) \/ ClaimHit(w) \/ ClaimMiss(w) \/ LoadClaimed(w)
  \/ SkipIdempotent(w) \/ StartHandler(w)
  \/ HandlerReturns(w) \/ HandlerRaises(w) \/ HandlerRequeues(w)
  \/ VerifyRescheduled(w) \/ MarkLoad(w) \/ MarkWrite(w) \/ MarkRefused(w)
  \/ Restart(w)

RequestWrite(r) == UpdateWrite(r) \/ RetryWrite(r) \/ CancelWrite(r)

RequestStep(r) ==
  \/ \E j \in Jobs : UpdateLoad(r, j) \/ RetryLoad(r, j) \/ CancelLoad(r, j)
  \/ RequestWrite(r)

Next ==
  \/ Tick
  \/ \E w \in Workers : WorkerStep(w) \/ Crash(w)
  \/ \E k \in Keys : Enqueue(k)
  \/ \E r \in Requests : RequestStep(r)
  \/ \E j \in Jobs, force \in BOOLEAN : AdminRequeue(j, force)

Spec == Init /\ [][Next]_vars

\* A worker's loop keeps running and its handlers return, the process is
\* restarted when it ends, a request in flight finishes and time passes.
Fairness ==
  /\ WF_vars(Tick)
  /\ \A w \in Workers : WF_vars(WorkerStep(w))
  /\ \A r \in Requests : WF_vars(RequestWrite(r))

FairSpec == Spec /\ Fairness

-----------------------------------------------------------------------------
(* Properties *)

\* The queue as its users see it: the status column and who holds which job.
Contract == INSTANCE JobContract WITH
  status <- [j \in Jobs |-> row[j].st],
  held <- {p \in Workers \X Jobs : Holds(p[1], p[2])}

\* The queue implements the at-least-once contract: whatever races, crashes
\* and interventions happen, a handler starts only on a job that is queued or
\* running, and no status changes except by a worker that holds the job, by an
\* operator or by the creation of the row.
ImplementsContract == Contract!Spec

\* Every row, copy and memory holds values of its columns and fields.
TypeOK ==
  /\ row \in [Jobs -> Rows]
  /\ failed \in [Jobs -> {"none", "copied", "retried"}]
  /\ wk \in [Workers -> WorkerMem]
  /\ req \in [Requests -> RequestMem]
  /\ faults \in Nat
  /\ overtaken \subseteq Jobs

\* No two workers ever hold the same attempt of a job: the claiming UPDATE
\* compares the attempt it read (claim_next_runnable), whatever leases expire,
\* whoever requeues the job and however late unfenced writes arrive.
ClaimUnique ==
  \A v, w \in Workers : \A j \in Jobs :
    v # w /\ Holds(v, j) /\ Holds(w, j) => wk[v].token # wk[w].token

\* Until somebody takes a job from the worker that holds it, that worker is
\* alone with it and the row says so: the mark_* writes, which check neither
\* the lock nor the attempt, can only hit the writer's own claim.
Exclusive ==
  \A w \in Workers : \A j \in Jobs \ overtaken :
    Holds(w, j) =>
      /\ Holders(j) = {w}
      /\ row[j].attempt = wk[w].token
      /\ IF wk[w].pc = "requeued"
           THEN row[j].st = "queued" /\ ~Locked(row[j])
           ELSE row[j].st = "running" /\ row[j].by = w

\* A job is taken from the worker that holds it only after that worker has
\* overrun its lease or put the job back itself, or by an operator or the
\* termination of the trial (runnable_filter, requeue_job).
LeaseProtects ==
  [][\A j \in overtaken' \ overtaken :
       \/ \E h \in Holders(j) : wk[h].age >= Lease \/ wk[h].pc = "requeued"
       \/ \E r \in Requests : CancelWrite(r)
       \/ \E force \in BOOLEAN : AdminRequeue(j, force)]_vars

\* A finished job stays as it is unless an operator requeues it or somebody
\* took it from its worker at some time: late results of a worker change
\* nothing as long as every worker kept its lease (mark_*, claim_next_runnable).
FinishedStays ==
  [][\A j \in Jobs \ overtaken' :
       row[j].st \in Terminal /\ row'[j].st # row[j].st
         => \E force \in BOOLEAN : AdminRequeue(j, force)]_vars

\* Every dead letter of a job that was never cancelled or overtaken has its
\* copy in failed_jobs, which the operator's list and the retry start from.
DeadLetterCopied ==
  \A j \in Jobs \ overtaken : row[j].st = "dead_letter" => failed[j] # "none"

\* max_attempts bounds the claims of a job from which no worker overran its
\* lease: each claim beyond it is owed to a crash, a requeue or a cancellation
\* of its own, although claim_next_runnable compares attempt with max_attempts
\* nowhere and a requeue keeps the attempt.
AttemptsBounded ==
  \A j \in Jobs \ overtaken : row[j].attempt <= MaxAttempts + faults

\* No write ever takes an attempt number back, so every claim, also of a job
\* that was requeued or retried concurrently, gets a number of its own.
AttemptsGrow ==
  [][\A j \in Jobs : row'[j].attempt >= row[j].attempt]_vars

\* Once enqueued a job ends as succeeded or dead-lettered, whatever crashes and
\* interventions happen, finitely often, on the way: an expired lease makes a
\* dead worker's job runnable again and failures use up the attempts.
Settles ==
  \A j \in Jobs :
    row[j].st \in {"queued", "running"} ~> row[j].st \in Terminal

\* What _cancel_pending_trial_jobs says: a cancelled job is over.  With one
\* worker and no operator nothing else could bring a dead letter back.
CancelledStays ==
  [][\A j \in Jobs :
       row[j].st = "dead_letter" /\ row'[j].st # "dead_letter"
         => \E force \in BOOLEAN : AdminRequeue(j, force)]_vars
=============================================================================
