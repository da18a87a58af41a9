-------------------------- MODULE WorkspaceCleanup --------------------------
(***************************************************************************)
(* The end of the candidates' repositories: the workspace_cleanup jobs of  *)
(* a company, which close what has outlived its retention, the             *)
(* trial_cleanup job of a terminated trial, which closes everything at     *)
(* once, and the candidates' requests and the operator's resets that go on *)
(* meanwhile.                                                              *)
(*                                                                         *)
(* A run lists its targets with one query and works through them with the  *)
(* objects of that moment (expire_on_commit=False), one transaction per    *)
(* target; what it calls GitHub for has happened before the transaction    *)
(* commits.  A commit writes the columns that differ from the listed ones. *)
(*                                                                         *)
(* The repository's record is the row its invite stored.  The jobs' steps  *)
(* are steps of JobContract, which JobQueue implements.                    *)
(***************************************************************************)
EXTENDS Naturals

CONSTANTS
  Sessions,     \* the trial's sessions
  RunKeys,      \* run keys of workspace_cleanup jobs
  TrialCleanup, \* the trial_cleanup job
  Workers,      \* worker processes
  None,         \* SQL NULL
  Closed,       \* what WORKSPACE_CLEANUP_MODE makes of a repository
  Retention,    \* WORKSPACE_RETENTION_DAYS, in units of the clock
  Horizon,      \* bound: the last instant
  MaxAttempts,  \* max_attempts of both kinds of jobs
  MaxFaults     \* bound on crashes, overrun leases, cutoffs that fail, resets
                \* and revivals together

ASSUME CleanupAssumption ==
  /\ TrialCleanup \notin RunKeys
  /\ Closed \in {"archived", "deleted"}
  /\ Retention \in Nat /\ Horizon \in Nat
  /\ MaxAttempts \in Nat \ {0} /\ MaxFaults \in Nat

Jobs == RunKeys \cup {TrialCleanup}

ASSUME NoneAssumption == None \notin Jobs \cup Sessions \cup Nat

VARIABLES
  now,     \* the clock
  trial,   \* trials.status, as far as it is terminated or not
  sess,    \* candidate_sessions and the days' audits
  row,     \* the cleanup columns of the record
  repo,    \* the repository on GitHub
  request, \* a request of the candidate between its gates and its calls
  job,     \* status and attempt of each job
  wk,      \* what each worker holds in memory
  reset,   \* history: sessions that an operator has reset
  revived, \* history: an approval has brought the terminated trial back
  tried,   \* history: sessions whose record a run of trial_cleanup has committed
  pended,  \* history: sessions whose record went back to "pending"
  faults   \* bound counter

world == <<now, trial, sess, row, repo>>
history == <<reset, revived, tried, pended>>
vars == <<world, request, job, wk, history, faults>>

-----------------------------------------------------------------------------
(* Rows *)

\* "open": the window of the coding day has not passed; "audited": the session
\* has a candidate_day_audits row.
Session == [st : {"not_started", "in_progress", "completed", "expired"},
            done : 0..Horizon \cup {None}, open : BOOLEAN, audited : BOOLEAN]
Invited == [st |-> "not_started", done |-> None, open |-> TRUE, audited |-> FALSE]

\* "cleaned": cleaned_at is set; "revoked": access_revoked_at is set; "error":
\* access_revocation_error is not empty.
Record == [st : {"none", "pending", "failed", "archived", "deleted"},
           cleaned : BOOLEAN, revoked : BOOLEAN, error : BOOLEAN]
Untouched == [st |-> "none", cleaned |-> FALSE, revoked |-> FALSE, error |-> FALSE]

\* _cleanup_is_complete
Complete(r) == r.st \in {"archived", "deleted"} /\ r.cleaned

RepoStates == {"live", "archived", "deleted", "reopened"}
Open == {"live", "reopened"}

\* What a run has read of a target; "over": its trial was terminated.
Target == [row : Record, audited : BOOLEAN, due : BOOLEAN, over : BOOLEAN]

\* "todo": the targets not yet done; "at": the one being committed, with its
\* record as the run listed it and "new" as it has changed it.
Worker == [pc : {"idle", "claimed", "target", "writing", "done"},
           job : Jobs \cup {None}, attempt : Nat,
           todo : UNION {[S -> Target] : S \in SUBSET Sessions},
           at : Sessions \cup {None}, listed : Record, new : Record,
           target : {"none", "succeeded", "retry"}]
NoTargets == [s \in {} |-> Untouched]
Idle == [pc |-> "idle", job |-> None, attempt |-> 0, todo |-> NoTargets,
         at |-> None, listed |-> Untouched, new |-> Untouched, target |-> "none"]

\* What the queue promises of these jobs.
Queue == INSTANCE JobContract WITH
  status <- [j \in Jobs |-> job[j].st],
  held <- {p \in Workers \X Jobs : wk[p[1]].job = p[2]}

Init ==
  /\ now = 0
  /\ trial = "live"
  /\ sess = [s \in Sessions |-> Invited]
  /\ row = [s \in Sessions |-> Untouched]
  /\ repo = [s \in Sessions |-> "live"]
  /\ request = [s \in Sessions |-> FALSE]
  /\ job = [j \in Jobs |-> [st |-> "absent", attempt |-> 0]]
  /\ wk = [w \in Workers |-> Idle]
  /\ reset = {} /\ tried = {} /\ pended = {}
  /\ revived = FALSE
  /\ faults = 0

Fault == faults < MaxFaults /\ faults' = faults + 1

Tick ==
  /\ now < Horizon
  /\ now' = now + 1
  /\ UNCHANGED <<trial, sess, row, repo, request, job, wk, history, faults>>

-----------------------------------------------------------------------------
(* The candidate *)

\* Claim and schedule; every request of a terminated trial's session is refused.
Start(s) ==
  /\ trial = "live" /\ sess[s].st = "not_started"
  /\ sess' = [sess EXCEPT ![s].st = "in_progress"]
  /\ UNCHANGED <<now, trial, row, repo, request, job, wk, history, faults>>

DayPasses(s) ==
  /\ sess[s].st = "in_progress" /\ sess[s].open
  /\ sess' = [sess EXCEPT ![s].open = FALSE]
  /\ UNCHANGED <<now, trial, row, repo, request, job, wk, history, faults>>

\* run_task_tests, or the first init of Day 3, up to its gates.  The audit of an
\* earlier day refuses no request of a later one.
Begin(s) ==
  /\ ~request[s] /\ trial = "live"
  /\ sess[s].st = "in_progress" /\ sess[s].open
  /\ request' = [request EXCEPT ![s] = TRUE]
  /\ UNCHANGED <<world, job, wk, history, faults>>

\* ensure_repo_is_active takes the repository out of the archive; the init also
\* creates one that was deleted again.
Reopened(s) ==
  /\ repo[s] \notin Open
  /\ repo' = [repo EXCEPT ![s] = "reopened"]

\* Its calls, whatever has happened since the gates, or their failure.
Act(s) ==
  /\ request[s]
  /\ Reopened(s) \/ UNCHANGED repo
  /\ request' = [request EXCEPT ![s] = FALSE]
  /\ UNCHANGED <<now, trial, sess, row, job, wk, history, faults>>

\* day_close_enforcement once the day has passed: the removal is recorded on the
\* row and the audit written in two commits; it may fail in between.
CutOff(s) ==
  /\ ~sess[s].open /\ ~sess[s].audited
  /\ \/ sess' = [sess EXCEPT ![s].audited = TRUE] /\ UNCHANGED faults
     \/ Fault /\ UNCHANGED sess
  /\ row' = [row EXCEPT ![s].revoked = TRUE, ![s].error = FALSE]
  /\ UNCHANGED <<now, trial, repo, request, job, wk, history>>

\* Day 5 is submitted.
Submit(s) ==
  /\ sess[s].st = "in_progress" /\ ~sess[s].open
  /\ sess' = [sess EXCEPT ![s].st = "completed", ![s].done = now]
  /\ UNCHANGED <<now, trial, row, repo, request, job, wk, history, faults>>

-----------------------------------------------------------------------------
(* Operators *)

Enqueued(j) ==
  IF job[j].st = "absent"
    THEN [job EXCEPT ![j] = [st |-> "queued", attempt |-> 0]] ELSE job

\* enqueue_workspace_cleanup_job
EnqueueRun(k) ==
  /\ job[k].st = "absent"
  /\ job' = Enqueued(k)
  /\ UNCHANGED <<world, request, wk, history, faults>>
  /\ Queue!Enqueue({k})

\* terminate_trial_with_cleanup
Terminate ==
  /\ trial' = "terminated"
  /\ sess' = [s \in Sessions |-> IF sess[s].st = "not_started"
                THEN [sess[s] EXCEPT !.st = "expired"] ELSE sess[s]]
  /\ job' = Enqueued(TrialCleanup)
  /\ UNCHANGED <<now, row, repo, request, wk, history, faults>>

\* An approval that was under way at the termination activates the trial.  The
\* key of its cleanup job stays taken: another termination enqueues no other.
Revive ==
  /\ Fault
  /\ trial = "terminated" /\ trial' = "live"
  /\ revived' = TRUE
  /\ UNCHANGED <<now, sess, row, repo, request, job, wk, reset, tried, pended>>

\* Mutant: the word of the request is stored as the status.
ResetVerbatim(s) ==
  /\ Fault
  /\ \E st \in {"not_started", "claimed", "in_progress"} :
       sess' = [sess EXCEPT ![s].st = st, ![s].done = None, ![s].open = TRUE]
  /\ reset' = reset \cup {s}
  /\ UNCHANGED <<now, trial, row, repo, request, job, wk, revived, tried, pended>>

\* reset_candidate_session; rows, audits and repositories stay.
Reset(s) ==
  /\ Fault
  /\ \E st \in {"not_started", "in_progress"} :
       sess' = [sess EXCEPT ![s].st = st, ![s].done = None, ![s].open = TRUE]
  /\ reset' = reset \cup {s}
  /\ UNCHANGED <<now, trial, row, repo, request, job, wk, revived, tried, pended>>

-----------------------------------------------------------------------------
(* A run *)

Holders(j) == {w \in Workers : wk[w].job = j}
Goes(w, m) == wk' = [wk EXCEPT ![w] = m]

\* Taking a job from a worker that still runs it needs an overrun lease.
Claim(w, j) ==
  /\ wk[w].pc = "idle"
  /\ IF Holders(j) = {} THEN UNCHANGED faults ELSE Fault
  /\ job' = [job EXCEPT ![j] = [st |-> "running", attempt |-> @.attempt + 1]]
  /\ Goes(w, [Idle EXCEPT !.pc = "claimed", !.job = j,
                          !.attempt = job[j].attempt + 1])
  /\ UNCHANGED <<world, request, history>>
  /\ Queue!Claim(w, j)

\* Mutant: only the retention is asked for.
EligibleAnyway(s) == TRUE

\* _retention_cleanup_eligible
Eligible(s) ==
  sess[s].done # None \/ sess[s].st \in {"completed", "expired"} \/ trial = "terminated"

\* _retention_anchor: completed_at, else the creation of the row, at 0.
Anchor(s) == IF sess[s].done # None THEN sess[s].done ELSE 0

\* Mutant: the trial's job keeps the company's retention.
ExpiredByDays(s, j) == now > Anchor(s) + Retention

\* _process_terminated_trial_cleanup_target sets the retention to 0 days, which
\* have always passed.
Expired(s, j) == j = TrialCleanup \/ now > Anchor(s) + Retention

\* _list_company_cleanup_targets, _list_trial_cleanup_targets and
\* _load_sessions_with_cutoff.
Listed(j) ==
  [s \in Sessions |->
    [row |-> row[s], audited |-> sess[s].audited,
     due |-> Eligible(s) /\ Expired(s, j), over |-> trial = "terminated"]]

\* The run with the targets that are left and nothing to commit.
Left(m, todo) ==
  [m EXCEPT !.pc = "target", !.todo = todo, !.at = None, !.listed = Untouched,
            !.new = Untouched]

Ended(m, target) == [Left(m, NoTargets) EXCEPT !.pc = "done", !.target = target]

\* The next target, or the end of the run.
Proceed(m, todo) ==
  IF DOMAIN todo = {} THEN Ended(m, "succeeded") ELSE Left(m, todo)

\* trial_cleanup of a trial that is not terminated does nothing.
List(w) ==
  /\ wk[w].pc = "claimed"
  /\ Goes(w, Proceed(wk[w], IF wk[w].job = TrialCleanup /\ trial = "live"
                              THEN NoTargets ELSE Listed(wk[w].job)))
  /\ UNCHANGED <<world, request, job, history, faults>>

\* "retry": the run raises once the target is committed.
Writes(w, s, new, target) ==
  LET m == wk[w] IN
  Goes(w, [m EXCEPT !.pc = "writing", !.at = s, !.listed = m.todo[s].row,
                    !.new = new, !.target = target,
                    !.todo = [t \in DOMAIN m.todo \ {s} |-> m.todo[t]]])

\* _mark_revocation_blocked, _mark_pending_active: a completed record keeps its
\* status.
Marked(r, st) == IF Complete(r) THEN r ELSE [r EXCEPT !.st = st]

\* _enforce_collaborator_revocation: nothing to remove, removed, refused for
\* good (or without a user name), or failed for now; what it leaves of the
\* record, and whether the run goes on with the target, ends it or raises.
After(r, then) == [row |-> r, then |-> then]
Revocations(t) ==
  LET removed == [t.row EXCEPT !.revoked = TRUE, !.error = FALSE]
      refused == [t.row EXCEPT !.error = TRUE]
  IN IF ~t.audited \/ (t.row.revoked /\ ~t.row.error)
       THEN {After(t.row, "close")}
       ELSE {After(removed, "close"), After(Marked(refused, "failed"), "none"),
             After([refused EXCEPT !.st = "failed"], "retry")}

Answer(to, st, then) == [to |-> to, st |-> st, then |-> then]

\* Mutant: a refusal is taken for a repository that is gone.
OutcomesGone(from) ==
  {Answer(from, "deleted", "none"), Answer(Closed, Closed, "none"),
   Answer(from, "failed", "retry")}

\* What archive_repo or delete_repo leaves of a repository, what the run writes,
\* and whether it raises: done, not found, refused, or an error that may hide a
\* success.
Outcomes(from) ==
  LET refused == Answer(from, "failed", "none")
      lost == Answer(from, "failed", "retry")
  IN IF from = "deleted"
       THEN {Answer(from, "deleted", "none"), refused, lost}
       ELSE {Answer(Closed, Closed, "none"), refused, lost,
             Answer(Closed, "failed", "retry")}

\* _apply_retention_cleanup of a target that is due.
Close(w, s, r) ==
  IF Complete(r) THEN Writes(w, s, r, "none") /\ UNCHANGED repo
  ELSE \E o \in Outcomes(repo[s]) :
    /\ repo' = [repo EXCEPT ![s] = o.to]
    /\ Writes(w, s, [r EXCEPT !.st = o.st, !.cleaned = r.cleaned \/ o.st # "failed"],
              o.then)

\* _process_cleanup_target up to its commit.  The revocation touches nothing that
\* the others read, so that one step stands for both calls.
Process(w, s) ==
  /\ wk[w].pc = "target" /\ s \in DOMAIN wk[w].todo
  /\ \E x \in Revocations(wk[w].todo[s]) :
       IF x.then # "close" THEN Writes(w, s, x.row, x.then) /\ UNCHANGED repo
       ELSE IF wk[w].todo[s].due THEN Close(w, s, x.row)
       ELSE Writes(w, s, Marked(x.row, "pending"), "none") /\ UNCHANGED repo
  /\ UNCHANGED <<now, trial, sess, row, request, job, history, faults>>

\* The commit of a target: the columns that the run has changed.
Changed(old, new, current) ==
  [f \in DOMAIN new |-> IF new[f] = old[f] THEN current[f] ELSE new[f]]

Commit(w) ==
  LET m == wk[w]
      r == Changed(m.listed, m.new, row[m.at])
  IN
  /\ m.pc = "writing"
  /\ row' = [row EXCEPT ![m.at] = r]
  /\ tried' = IF m.job = TrialCleanup THEN tried \cup {m.at} ELSE tried
  /\ pended' = IF r.st = "pending" /\ row[m.at].st \notin {"none", "pending"}
                 THEN pended \cup {m.at} ELSE pended
  /\ Goes(w, IF m.target = "retry" THEN Ended(m, "retry") ELSE Proceed(m, m.todo))
  /\ UNCHANGED <<now, trial, sess, repo, request, job, reset, revived, faults>>

\* retry_or_dead_letter by the attempt the worker claimed.
Outcome(w) ==
  IF wk[w].target = "succeeded" THEN "succeeded"
  ELSE IF wk[w].attempt < MaxAttempts THEN "queued" ELSE "dead_letter"

Report(w) ==
  /\ wk[w].pc = "done"
  /\ job' = [job EXCEPT ![wk[w].job].st = Outcome(w)]
  /\ Goes(w, Idle)
  /\ UNCHANGED <<world, request, history, faults>>
  /\ Queue!Report(w, wk[w].job, Outcome(w))

Crash(w) ==
  /\ wk[w].pc # "idle"
  /\ Fault
  /\ Goes(w, Idle)
  /\ UNCHANGED <<world, request, job, history>>
  /\ Queue!Abandon(w, wk[w].job)

-----------------------------------------------------------------------------
WorkerStep(w) ==
  \/ List(w) \/ Commit(w) \/ Report(w)
  \/ \E s \in Sessions : Process(w, s)

Candidate(s) ==
  \/ Start(s) \/ DayPasses(s) \/ Begin(s) \/ Act(s) \/ CutOff(s) \/ Submit(s)

Next ==
  \/ Tick \/ Terminate \/ Revive
  \/ \E s \in Sessions : Candidate(s) \/ Reset(s)
  \/ \E k \in RunKeys : EnqueueRun(k)
  \/ \E w \in Workers : WorkerStep(w) \/ Crash(w)
  \/ \E w \in Workers, j \in Jobs : Claim(w, j)

Spec == Init /\ [][Next]_vars

\* Workers go on with what they hold and come back for what can be claimed.
Fairness ==
  /\ \A w \in Workers : WF_vars(WorkerStep(w))
  /\ \A j \in Jobs : WF_vars(\E w \in Workers : Holders(j) = {} /\ Claim(w, j))

FairSpec == Spec /\ Fairness

-----------------------------------------------------------------------------
(* Properties *)

\* Every row, record and memory is of its type (type invariant).
TypeOK ==
  /\ now \in 0..Horizon
  /\ trial \in {"live", "terminated"}
  /\ sess \in [Sessions -> Session]
  /\ row \in [Sessions -> Record]
  /\ repo \in [Sessions -> RepoStates]
  /\ request \in [Sessions -> BOOLEAN]
  /\ job \in [Jobs -> [st : Queue!Claimable \cup Queue!Outcomes \cup {"absent"},
                       attempt : Nat]]
  /\ wk \in [Workers -> Worker]
  /\ reset \subseteq Sessions /\ tried \subseteq Sessions /\ pended \subseteq Sessions
  /\ revived \in BOOLEAN
  /\ faults \in Nat

\* The session has expired, or its retention has run out.
RunOut(s) ==
  \/ sess[s].st = "expired"
  \/ sess[s].done # None /\ now > sess[s].done + Retention

Kept(s) == trial = "live" /\ ~RunOut(s)

\* A run is at the session with what it read while the trial was terminated.
Outdated(s) ==
  \E w \in Workers : wk[w].pc = "target" /\ s \in DOMAIN wk[w].todo /\ wk[w].todo[s].over

\* No run takes away a repository that is still kept, neither with what it read
\* of a session long before nor because of another session or job.  Two may find
\* it gone: the operator who takes a completion back, and the owner whose approval
\* brings a terminated trial back, to a run that has listed it before
\* (_retention_cleanup_eligible, _retention_expired).
RetentionKept ==
  [][\A s \in Sessions :
       repo[s] \in Open /\ repo'[s] \notin Open
         => ~Kept(s) \/ s \in reset \/ Outdated(s)]_vars

\* A record that says its repository was closed is right: one that no run ever
\* closed is never skipped as cleaned, whatever two runs with stale records, lost
\* answers and crashes have written over each other (_cleanup_is_complete).
RecordTruthful ==
  \A s \in Sessions : Complete(row[s]) => repo[s] # "live"

\* The repository is closed, or its record says why not, by a failure that a run
\* of trial_cleanup has met too.
Settled(s) == repo[s] \notin Open \/ (row[s].st = "failed" /\ s \in tried)

\* What undoes the cleanup: the trial came back; a company's run wrote "pending"
\* over the outcome; a request that had passed its gates before opened the
\* repository again, whose record every later run skips as complete.
Undone(s) ==
  revived \/ s \in pended \/ (repo[s] = "reopened" /\ Complete(row[s]))

\* A cleanup that has succeeded accounts for every repository of the trial, from
\* then on and whatever a company's run makes of the same records meanwhile or
\* afterwards, unless it is undone in one of the three ways
\* (_process_cleanup_target, _mark_pending_active).
Accounted ==
  job[TrialCleanup].st = "succeeded" => \A s \in Sessions : Settled(s) \/ Undone(s)

\* The cleanup that a termination has enqueued ends for good, as succeeded or as a
\* dead letter, and once it has succeeded every repository stays accounted for
\* (handle_trial_cleanup).
TerminatedSettled ==
  job[TrialCleanup].st = "queued"
    ~> [](job[TrialCleanup].st \in {"succeeded", "dead_letter"} /\ Accounted)
=============================================================================
