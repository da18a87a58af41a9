------------------------------ MODULE DayFlow ------------------------------
(***************************************************************************)
(* One candidate's days: the session and its schedule, drafts and          *)
(* submissions, the coding workspaces and their repository, and the jobs   *)
(* that close each day: finalize the text of Days 1 and 5, cut off the     *)
(* code of Days 2 and 3.                                                   *)
(*                                                                         *)
(* Both coding days share one repository.  An invite provisions it with a  *)
(* workspace row of the first coding day, and the later day gets a row of  *)
(* its own; a session whose invite left no row has one row for both        *)
(* (Grouped).                                                              *)
(*                                                                         *)
(* A request checks its gates on what it has read and acts on them later,  *)
(* in other transactions, with the session object it loaded at the start:  *)
(* Begin... is its first step.  A job run is the same on the worker's side;*)
(* of the queue only its contract is used (JobQueue): a due job is run,    *)
(* perhaps by two workers at once, again after a failed or crashed run,    *)
(* and ends done or as a dead letter.                                      *)
(*                                                                         *)
(* A day's window is open for one unit of time.                            *)
(***************************************************************************)
EXTENDS Integers, FiniteSets

CONSTANTS
  Days,          \* the days that have a task
  Grouped,       \* one workspace row for both coding days
  Offset,        \* when a day's window opens, from the scheduled start
  Workers,       \* worker processes
  Requests,      \* requests of the candidate that may be in flight
  None,          \* SQL NULL
  Horizon,       \* bound: the last instant
  MaxAttempts,   \* max_attempts of a day-close job
  MaxEdits,      \* bound on saves of a day's draft
  MaxHead,       \* bound on pushes
  MaxFaults,     \* bound on crashes and overrun leases
  MaxResets      \* bound on operator resets

TextDays == Days \cap {1, 5}
CodeDays == Days \cap {2, 3}
HandoffDays == Days \cap {4}
ClosedDays == TextDays \cup CodeDays

ASSUME ConstantAssumption ==
  /\ Days \subseteq 1..5
  /\ Grouped \in BOOLEAN
  /\ Offset \in [Days -> Nat]
  /\ \A d, e \in Days : d < e => Offset[d] < Offset[e]
  /\ None \notin Int
  /\ Horizon \in Nat /\ MaxEdits \in [Days -> Nat] /\ MaxHead \in Nat
  /\ MaxFaults \in Nat /\ MaxResets \in Nat
  /\ MaxAttempts \in Nat \ {0}

VARIABLES
  now,      \* the clock
  sess,     \* the candidate_sessions row
  sub,      \* submissions, by day
  draft,    \* task_drafts, by day
  audit,    \* candidate_day_audits: the head recorded for a code day
  repo,     \* the repository on GitHub and its workspace rows
  job,      \* the day-close jobs, by day
  rq,       \* what each request holds in memory
  wk,       \* what each worker holds in memory
  faults,   \* crashes and overruns so far
  resets,   \* operator resets so far
  late      \* history: a request of before the cutoff gave access back

vars == <<now, sess, sub, draft, audit, repo, job, rq, wk, faults, resets, late>>

Instants == 0..Horizon
Statuses == {"not_started", "in_progress", "completed"}
Sources == {"none", "candidate", "draft", "no_draft_marker"}

Session == [status : Statuses, claimed : BOOLEAN, user : BOOLEAN,
            start : Instants \cup {None}]
\* github_username is part of the session, the rest of the profile is not.
Submission == [source : Sources, text : Nat]
NoSubmission == [source |-> "none", text |-> 0]
Draft == [text : Nat, final : BOOLEAN]      \* text 0: there is no row
\* "head" numbers the commits; the tree holds what was pushed after "base", the
\* bootstrap commit made for "day".  "cut": access was removed for the row.
Workspace == [made : BOOLEAN, cut : BOOLEAN, revoked : Int \cup {None}]
Repo == [made : BOOLEAN, head : Nat, base : Nat, day : Days \cup {None},
         collab : BOOLEAN, row : [CodeDays -> Workspace]]
Job == [st : {"absent", "queued", "running", "succeeded", "dead_letter"},
        due : Int, tries : 0..MaxAttempts]

RequestMem == [pc : {"idle", "drafting", "gating", "creating", "marking",
                     "granting", "storing"},
               day : Days \cup {None}, start : Instants \cup {None},
               status : Statuses, saw : Nat]
NoRequest == [pc |-> "idle", day |-> None, start |-> None,
              status |-> "not_started", saw |-> 0]

WorkerMem == [pc : {"idle", "loading", "requeued", "creating", "marking",
                    "progressing", "revoking", "recording", "heading", "auditing"},
              day : Days \cup {None}, due : Int, tries : 0..MaxAttempts,
              start : Instants \cup {None}, status : Statuses,
              saw : Nat, head : Nat]
NoRun == [pc |-> "idle", day |-> None, due |-> 0, tries |-> 0, start |-> None,
          status |-> "not_started", saw |-> 0, head |-> 0]

\* What the queue promises of the day-close jobs.
Queue == INSTANCE JobContract WITH
  Jobs <- ClosedDays,
  status <- [d \in ClosedDays |-> job[d].st],
  held <- {p \in Workers \X ClosedDays : wk[p[1]].day = p[2]}

(***************************************************************************)
(* Windows and progress.  "s" is the scheduled start that the caller's     *)
(* session object carries, which may be older than the row.                *)
(***************************************************************************)
Opens(s, d) == s + Offset[d]
Closes(s, d) == Opens(s, d) + 1
InWindow(s, d) == s # None /\ Opens(s, d) <= now /\ now < Closes(s, d)

Submitted == {d \in Days : sub[d].source # "none"}

\* A Day 5 submission does not count before the Day 5 window starts.
Counted(s) == {d \in Submitted : ~(d = 5 /\ s # None /\ now < Opens(s, d))}

\* Mutant: completion does not ask for the handoff.
CompleteWithoutHandoff(s) == Days \ HandoffDays \subseteq Counted(s)
IsComplete(s) == Counted(s) = Days

FirstOpen(s, d) == d \in Days \ Counted(s)
                   /\ \A e \in Days \ Counted(s) : d <= e

\* The handoff stays current until the window of the day after it opens.
Revisited(s, d) == d \in HandoffDays \cap Counted(s)
                   /\ ~(s # None /\ Opens(s, d + 1) <= now)

\* Mutant: any task that is not submitted yet is current.
AnyOpen(s, d) == d \in Days \ Counted(s)
IsCurrent(s, d) ==
  \/ FirstOpen(s, d) /\ ~Revisited(s, d - 1)
  \/ d + 1 \in Days /\ FirstOpen(s, d + 1) /\ Revisited(s, d)

(***************************************************************************)
(* ensure_day_flow_open: no work on a coding day once its cutoff is        *)
(* recorded, nor (when the caller passes the workspace) once the access to *)
(* the workspace of the day is revoked.  Both instants are the due time of *)
(* a job that has run, so they have passed.                                *)
(***************************************************************************)
FirstCode(d) == \A e \in CodeDays : d <= e
RowDay(d) == IF Grouped THEN CHOOSE e \in CodeDays : FirstCode(e) ELSE d
Row(d) == repo.row[RowDay(d)]

GateOpen(d, withWorkspace) ==
  d \in CodeDays =>
    /\ audit[d] = None
    /\ ~(withWorkspace /\ Row(d).revoked # None /\ Row(d).revoked <= now)

Init ==
  /\ now = 0
  /\ sess = [status |-> "not_started", claimed |-> FALSE, user |-> FALSE,
             start |-> None]
  /\ sub = [d \in Days |-> NoSubmission]
  /\ draft = [d \in Days |-> [text |-> 0, final |-> FALSE]]
  /\ audit = [d \in CodeDays |-> None]
  /\ repo = [made |-> ~Grouped /\ CodeDays # {}, head |-> 0, base |-> 0,
             day |-> None, collab |-> FALSE,
             row |-> [d \in CodeDays |->
               [made |-> ~Grouped /\ FirstCode(d), cut |-> FALSE, revoked |-> None]]]
  /\ job = [d \in ClosedDays |-> [st |-> "absent", due |-> 0, tries |-> 0]]
  /\ rq = [r \in Requests |-> NoRequest]
  /\ wk = [w \in Workers |-> NoRun]
  /\ faults = 0 /\ resets = 0 /\ late = FALSE

Tick == /\ now < Horizon
        /\ now' = now + 1
        /\ UNCHANGED <<sess, sub, draft, audit, repo, job, rq, wk, faults, resets, late>>

-----------------------------------------------------------------------------
(***************************************************************************)
(* The session's owner and its schedule.  Both lock the session's row.     *)
(***************************************************************************)
Claim ==
  /\ ~sess.claimed \/ sess.status = "not_started"
  /\ sess' = [sess EXCEPT !.claimed = TRUE,
       !.status = IF @ = "not_started" THEN "in_progress" ELSE @]
  /\ UNCHANGED <<now, sub, draft, audit, repo, job, rq, wk, faults, resets, late>>

\* Any request of the invited person takes an unclaimed session over.
FetchOwned ==
  /\ ~sess.claimed
  /\ sess' = [sess EXCEPT !.claimed = TRUE]
  /\ UNCHANGED <<now, sub, draft, audit, repo, job, rq, wk, faults, resets, late>>

\* A day-close job is inserted once; later schedules move only a queued one.
\* Mutant: the text jobs are not enqueued.
EnqueueCutoffsOnly(s) ==
  [d \in ClosedDays |-> IF d \in CodeDays /\ job[d].st \in {"absent", "queued"}
     THEN [job[d] EXCEPT !.st = "queued", !.due = Closes(s, d)] ELSE job[d]]
EnqueueDayClose(s) ==
  [d \in ClosedDays |-> IF job[d].st \in {"absent", "queued"}
     THEN [job[d] EXCEPT !.st = "queued", !.due = Closes(s, d)] ELSE job[d]]

Schedule ==
  /\ sess.claimed /\ sess.start = None
  /\ \E s \in Instants :
       /\ now <= s
       /\ \A d \in Days : Closes(s, d) <= Horizon
       /\ sess' = [sess EXCEPT !.start = s, !.user = TRUE]
       /\ job' = EnqueueDayClose(s)
  /\ UNCHANGED <<now, sub, draft, audit, repo, rq, wk, faults, resets, late>>

\* The operator's reset clears the schedule and the completion; it leaves
\* submissions, drafts, audits, the workspace and the jobs.
AdminReset ==
  /\ resets < MaxResets
  /\ resets' = resets + 1
  /\ \/ sess' = [status |-> "not_started", claimed |-> FALSE, user |-> FALSE,
                 start |-> None]
     \/ /\ sess.claimed
        /\ \E st \in {"not_started", "in_progress"} :
             sess' = [sess EXCEPT !.status = st, !.start = None]
  /\ UNCHANGED <<now, sub, draft, audit, repo, job, rq, wk, faults, late>>

\* Reading the current task completes a session that has nothing left.
GetCurrentTask ==
  /\ sess.claimed /\ sess.start # None /\ sess.status # "completed"
  /\ \A d \in Days : (\A e \in Days : d <= e) => Opens(sess.start, d) <= now
  /\ IsComplete(sess.start)
  /\ sess' = [sess EXCEPT !.status = "completed"]
  /\ UNCHANGED <<now, sub, draft, audit, repo, job, rq, wk, faults, resets, late>>

-----------------------------------------------------------------------------
(***************************************************************************)
(* The candidate's requests.                                               *)
(***************************************************************************)
Begins(r, d, pc, saw) ==
  /\ rq[r].pc = "idle" /\ sess.claimed
  /\ InWindow(sess.start, d)
  /\ rq' = [rq EXCEPT ![r] = [pc |-> pc, day |-> d, start |-> sess.start,
                              status |-> sess.status, saw |-> saw]]

Ends(r) == rq' = [rq EXCEPT ![r] = NoRequest]
GoesOn(r, pc) == rq' = [rq EXCEPT ![r].pc = pc]

\* put_task_draft_route up to the draft row it reads.
BeginDraft(r, d) ==
  /\ d \notin Counted(sess.start) /\ ~draft[d].final
  /\ draft[d].text + Cardinality({q \in Requests : rq[q].pc = "drafting"}) < MaxEdits[d]
  /\ Begins(r, d, "drafting", draft[d].text)
  /\ UNCHANGED <<now, sess, sub, draft, audit, repo, job, wk, faults, resets, late>>

\* The write: by the row's id, without asking again.  Of two first saves the
\* second meets the unique index.
WriteDraft(r) ==
  LET d == rq[r].day IN
  /\ rq[r].pc = "drafting"
  /\ draft' = IF rq[r].saw = 0 /\ draft[d].text > 0 THEN draft
              ELSE [draft EXCEPT ![d].text = @ + 1]
  /\ Ends(r)
  /\ UNCHANGED <<now, sess, sub, audit, repo, job, wk, faults, resets, late>>

\* validate_submission_flow.
BeginSubmit(r, d) ==
  /\ GateOpen(d, FALSE)
  /\ d \notin Counted(sess.start)
  /\ IsCurrent(sess.start, d)
  /\ Begins(r, d, IF d \in CodeDays THEN "gating" ELSE "creating", 0)
  /\ UNCHANGED <<now, sess, sub, draft, audit, repo, job, wk, faults, resets, late>>

\* fetch_workspace_and_branch; the Actions run takes the time until the
\* submission is created.
GateCode(r) ==
  /\ rq[r].pc = "gating"
  /\ IF Row(rq[r].day).made /\ GateOpen(rq[r].day, TRUE)
       THEN GoesOn(r, "creating") ELSE Ends(r)
  /\ UNCHANGED <<now, sess, sub, draft, audit, repo, job, wk, faults, resets, late>>

\* create_submission: the unique index decides.
CreateSubmission(r) ==
  LET d == rq[r].day IN
  /\ rq[r].pc = "creating"
  /\ IF sub[d].source = "none"
       THEN /\ sub' = [sub EXCEPT ![d].source = "candidate"]
            /\ GoesOn(r, "marking")
       ELSE UNCHANGED sub /\ Ends(r)
  /\ UNCHANGED <<now, sess, draft, audit, repo, job, wk, faults, resets, late>>

\* progress_after_submission, with the session object of the request's start.
Progress(s, status) ==
  sess' = IF IsComplete(s) /\ status # "completed"
            THEN [sess EXCEPT !.status = "completed"] ELSE sess

FinishSubmit(r) ==
  LET d == rq[r].day IN
  /\ rq[r].pc = "marking"
  /\ draft' = IF draft[d].text > 0 THEN [draft EXCEPT ![d].final = TRUE] ELSE draft
  /\ Progress(rq[r].start, rq[r].status)
  /\ Ends(r)
  /\ UNCHANGED <<now, sub, audit, repo, job, wk, faults, resets, late>>

\* complete_handoff_upload: in its window, in any order, again and again.
CompleteUpload(d) ==
  /\ d \in HandoffDays /\ sess.claimed /\ InWindow(sess.start, d)
  /\ sub' = [sub EXCEPT ![d].source = "candidate"]
  /\ UNCHANGED <<now, sess, draft, audit, repo, job, rq, wk, faults, resets, late>>

\* init_codespace up to its gates; "saw" is 1 once a revocation is recorded.
BeginInit(r, d) ==
  /\ d \in CodeDays
  /\ IsCurrent(sess.start, d)
  /\ GateOpen(d, TRUE)
  /\ Begins(r, d, "granting", IF Row(d).revoked = None THEN 0 ELSE 1)
  /\ UNCHANGED <<now, sess, sub, draft, audit, repo, job, wk, faults, resets, late>>

\* The access that a request gives back after its day, or a later one, was cut off.
GivesBack(r) ==
  late' = (late \/ /\ repo'.collab /\ rq[r].saw = 0
                   /\ \E e \in CodeDays : rq[r].day <= e /\ Row(e).cut)

\* ensure_existing_workspace: inviting the collaborator may fail without
\* failing the request, whose commit stores the user name.
Grant(r) ==
  /\ rq[r].pc = "granting" /\ Row(rq[r].day).made
  /\ \E c \in {TRUE, repo.collab} : repo' = [repo EXCEPT !.collab = c]
  /\ GivesBack(r)
  /\ sess' = [sess EXCEPT !.user = TRUE]
  /\ Ends(r)
  /\ UNCHANGED <<now, sub, draft, audit, job, wk, faults, resets>>

\* A first init without a row: the repository is created or found, and its
\* head is always a new bootstrap commit, whose tree holds nothing else.  Day 3
\* does not create the shared row.
Bootstrap(r) ==
  LET d == rq[r].day IN
  /\ rq[r].pc = "granting" /\ ~Row(d).made
  /\ IF Grouped /\ d = 3
       THEN UNCHANGED <<repo, late>> /\ Ends(r)
       ELSE /\ \E c \in {TRUE, repo.collab} :
                 repo' = [repo EXCEPT !.made = TRUE, !.collab = c, !.day = d,
                   !.head = IF repo.made THEN @ + 1 ELSE @,
                   !.base = IF repo.made THEN repo.head + 1 ELSE @]
            /\ GivesBack(r)
            /\ GoesOn(r, "storing")
  /\ UNCHANGED <<now, sess, sub, draft, audit, job, wk, faults, resets>>

\* Its commit; of two first inits the second meets the unique index.
StoreRow(r) ==
  LET d == RowDay(rq[r].day) IN
  /\ rq[r].pc = "storing"
  /\ repo' = [repo EXCEPT !.row[d].made = TRUE]
  /\ sess' = IF repo.row[d].made THEN sess ELSE [sess EXCEPT !.user = TRUE]
  /\ Ends(r)
  /\ UNCHANGED <<now, sub, draft, audit, job, wk, faults, resets, late>>

\* A request that is cut off between two of its transactions.
Abandon(r) ==
  /\ rq[r].pc # "idle"
  /\ faults < MaxFaults /\ faults' = faults + 1
  /\ Ends(r)
  /\ UNCHANGED <<now, sess, sub, draft, audit, repo, job, wk, resets, late>>

\* GitHub: a collaborator pushes at any time.
Push ==
  /\ repo.made /\ repo.collab /\ repo.head < MaxHead
  /\ repo' = [repo EXCEPT !.head = @ + 1]
  /\ UNCHANGED <<now, sess, sub, draft, audit, job, rq, wk, faults, resets, late>>

-----------------------------------------------------------------------------
(***************************************************************************)
(* The worker's runs of the day-close jobs.  A lease that expires lets a   *)
(* second worker run the job beside the first.                             *)
(***************************************************************************)
Runs(w, pc, d) == wk[w].pc = pc /\ wk[w].day = d
Idles(w) == wk' = [wk EXCEPT ![w] = NoRun]
RunGoesOn(w, pc) == wk' = [wk EXCEPT ![w].pc = pc]

\* An outcome is written over whatever has become of the job since the claim.
Outcome(d, st) == job' = [job EXCEPT ![d].st = st]

\* The attempts are counted as far as max_attempts.
OneMore(n) == IF n < MaxAttempts THEN n + 1 ELSE n

\* Mutant: a due job is claimed whatever its status.
RunnableWhenDue(d) == job[d].st # "absent" /\ now >= job[d].due

\* runnable_filter
Runnable(d) == job[d].st \in {"queued", "running"} /\ now >= job[d].due

\* Taking a running job from a worker that still runs it needs an overrun lease.
StartRun(w, d) ==
  /\ wk[w].pc = "idle"
  /\ Runnable(d)
  /\ IF job[d].st = "running" /\ \E v \in Workers : wk[v].day = d
       THEN faults < MaxFaults /\ faults' = faults + 1
       ELSE UNCHANGED faults
  /\ job' = [job EXCEPT ![d].st = "running", ![d].tries = OneMore(@)]
  /\ wk' = [wk EXCEPT ![w] = [NoRun EXCEPT !.pc = "loading", !.day = d,
                                           !.due = job[d].due,
                                           !.tries = OneMore(job[d].tries)]]
  /\ UNCHANGED <<now, sess, sub, draft, audit, repo, rq, resets, late>>

Succeed(w) == Outcome(wk[w].day, "succeeded") /\ Idles(w)

\* Mutant: a failed run is always repeated.
FailAgain(w) == Outcome(wk[w].day, "queued") /\ Idles(w)

\* retry_or_dead_letter by the attempt the worker claimed.
Fail(w) ==
  /\ Outcome(wk[w].day, IF wk[w].tries = MaxAttempts THEN "dead_letter"
                                                    ELSE "queued")
  /\ Idles(w)

Crash(w) ==
  /\ wk[w].pc # "idle" /\ faults < MaxFaults
  /\ faults' = faults + 1
  /\ Idles(w)
  /\ UNCHANGED <<now, sess, sub, draft, audit, repo, job, rq, resets, late>>

\* Finalizing a text: without a schedule the job is done, before the end of
\* the window it waits for it, and then it reads the submission and the draft.
\* Mutant: marks the draft whether or not there is a submission.
LoadedToMark(d) == "marking"
Loaded(d) == IF sub[d].source = "none" THEN "creating" ELSE "marking"


\* requeue_nonterminal_idempotent_job until the end of the window; the handler
\* raises when the job is over.
PutBack(w, d) ==
  IF job[d].st \in {"queued", "running"}
    THEN /\ job' = [job EXCEPT ![d].st = "queued",
                               ![d].due = Closes(sess.start, d)]
         /\ RunGoesOn(w, "requeued")
    ELSE Fail(w)

LoadText(w, d) ==
  /\ Runs(w, "loading", d) /\ d \in TextDays
  /\ \/ sess.start = None /\ Succeed(w)
     \/ sess.start # None /\ now < Closes(sess.start, d) /\ PutBack(w, d)
     \/ /\ sess.start # None /\ now >= Closes(sess.start, d)
        /\ wk' = [wk EXCEPT ![w].pc = Loaded(d), ![w].start = sess.start,
                            ![w].status = sess.status, ![w].saw = draft[d].text]
        /\ UNCHANGED job
  /\ UNCHANGED <<now, sess, sub, draft, audit, repo, rq, faults, resets, late>>

\* handle_handler_reschedule: another may have claimed the job since.
VerifyRescheduled(w, d) ==
  /\ Runs(w, "requeued", d)
  /\ IF job[d].st = "queued" THEN Idles(w) /\ UNCHANGED job ELSE Fail(w)
  /\ UNCHANGED <<now, sess, sub, draft, audit, repo, rq, faults, resets, late>>

\* The submission made from the draft as it was read, or the marker that there
\* was none.  After a conflict the rolled-back session cannot be used any more
\* and the attempt fails; the next one finds the submission.
FinalizeText(w, d) ==
  /\ Runs(w, "creating", d)
  /\ IF sub[d].source = "none"
       THEN /\ sub' = [sub EXCEPT ![d] =
                 [source |-> IF wk[w].saw > 0 THEN "draft" ELSE "no_draft_marker",
                  text |-> wk[w].saw]]
            /\ RunGoesOn(w, "marking")
            /\ UNCHANGED job
       ELSE UNCHANGED sub /\ Fail(w)
  /\ UNCHANGED <<now, sess, draft, audit, repo, rq, faults, resets, late>>

MarkDraft(w, d) ==
  /\ Runs(w, "marking", d)
  /\ draft' = IF wk[w].saw > 0 THEN [draft EXCEPT ![d].final = TRUE] ELSE draft
  /\ RunGoesOn(w, "progressing")
  /\ UNCHANGED <<now, sess, sub, audit, repo, job, rq, faults, resets, late>>

FinishText(w, d) ==
  /\ Runs(w, "progressing", d)
  /\ Progress(wk[w].start, wk[w].status)
  /\ Succeed(w)
  /\ UNCHANGED <<now, sub, draft, audit, repo, rq, faults, resets, late>>

\* Cutting off the code: the window is not asked for, only the recorded cutoff.
LoadCode(w, d) ==
  /\ Runs(w, "loading", d) /\ d \in CodeDays
  /\ \/ audit[d] # None /\ Succeed(w)
     \/ audit[d] = None /\ ~(Row(d).made /\ sess.user) /\ Fail(w)
     \/ /\ audit[d] = None /\ Row(d).made /\ sess.user
        /\ RunGoesOn(w, "revoking") /\ UNCHANGED job
  /\ UNCHANGED <<now, sess, sub, draft, audit, repo, rq, faults, resets, late>>

\* Mutant: an access that could not be removed is taken for removed.
RevokeUnchecked(w, d) ==
  /\ Runs(w, "revoking", d)
  /\ RunGoesOn(w, "recording")
  /\ \/ repo' = [repo EXCEPT !.collab = FALSE, !.row[RowDay(d)].cut = TRUE]
     \/ UNCHANGED repo
  /\ UNCHANGED <<now, sess, sub, draft, audit, job, rq, faults, resets, late>>
Revoke(w, d) ==
  /\ Runs(w, "revoking", d)
  /\ \/ /\ repo' = [repo EXCEPT !.collab = FALSE, !.row[RowDay(d)].cut = TRUE]
        /\ RunGoesOn(w, "recording") /\ UNCHANGED job
     \/ UNCHANGED repo /\ Fail(w)
  /\ UNCHANGED <<now, sess, sub, draft, audit, rq, faults, resets, late>>

RecordRevocation(w, d) ==
  /\ Runs(w, "recording", d)
  /\ repo' = [repo EXCEPT !.row[RowDay(d)].revoked = wk[w].due]
  /\ RunGoesOn(w, "heading")
  /\ UNCHANGED <<now, sess, sub, draft, audit, job, rq, faults, resets, late>>

ReadHead(w, d) ==
  /\ Runs(w, "heading", d)
  /\ \/ /\ wk' = [wk EXCEPT ![w].pc = "auditing", ![w].head = repo.head]
        /\ UNCHANGED job
     \/ Fail(w)
  /\ UNCHANGED <<now, sess, sub, draft, audit, repo, rq, faults, resets, late>>

\* create_day_audit_once: a second audit meets the unique index, and its run may
\* fail on what the rollback has expired.
\* Mutant: the later run's head replaces the recorded one.
AuditAgain(w, d) ==
  /\ Runs(w, "auditing", d)
  /\ audit' = [audit EXCEPT ![d] = wk[w].head]
  /\ Succeed(w)
  /\ UNCHANGED <<now, sess, sub, draft, repo, rq, faults, resets, late>>
CreateAudit(w, d) ==
  /\ Runs(w, "auditing", d)
  /\ audit' = IF audit[d] = None THEN [audit EXCEPT ![d] = wk[w].head] ELSE audit
  /\ Succeed(w) \/ (audit[d] # None /\ Fail(w))
  /\ UNCHANGED <<now, sess, sub, draft, repo, rq, faults, resets, late>>

WorkerStep(w, d) ==
  \/ LoadText(w, d) \/ VerifyRescheduled(w, d)
  \/ FinalizeText(w, d) \/ MarkDraft(w, d) \/ FinishText(w, d)
  \/ LoadCode(w, d) \/ Revoke(w, d) \/ RecordRevocation(w, d)
  \/ ReadHead(w, d) \/ CreateAudit(w, d)

Next ==
  \/ Tick \/ Claim \/ FetchOwned \/ Schedule \/ AdminReset \/ GetCurrentTask \/ Push
  \/ \E d \in Days : CompleteUpload(d)
  \/ \E r \in Requests, d \in Days :
       BeginDraft(r, d) \/ BeginSubmit(r, d) \/ BeginInit(r, d)
  \/ \E r \in Requests :
       WriteDraft(r) \/ GateCode(r) \/ CreateSubmission(r) \/ FinishSubmit(r)
       \/ Grant(r) \/ Bootstrap(r) \/ StoreRow(r) \/ Abandon(r)
  \/ \E w \in Workers : Crash(w)
  \/ \E w \in Workers, d \in ClosedDays : StartRun(w, d) \/ WorkerStep(w, d)

Spec == Init /\ [][Next]_vars

\* Time passes, a due job is picked up, and a worker that runs one goes on.
Fairness ==
  /\ WF_vars(Tick)
  /\ \A d \in ClosedDays :
       WF_vars(\E w \in Workers : (\A v \in Workers : wk[v].day # d) /\ StartRun(w, d))
  /\ \A w \in Workers : WF_vars(\E d \in ClosedDays : WorkerStep(w, d))
FairSpec == Spec /\ Fairness

-----------------------------------------------------------------------------
(***************************************************************************)
(* Properties.                                                             *)
(***************************************************************************)
\* Type correctness of the rows and of what requests and workers remember.
TypeOK ==
  /\ now \in Instants
  /\ sess \in Session
  /\ sub \in [Days -> Submission]
  /\ draft \in [Days -> Draft]
  /\ audit \in [CodeDays -> Nat \cup {None}]
  /\ repo \in Repo
  /\ job \in [ClosedDays -> Job]
  /\ rq \in [Requests -> RequestMem]
  /\ wk \in [Workers -> WorkerMem]
  /\ faults \in Nat /\ resets \in Nat /\ late \in BOOLEAN

\* What a candidate submits comes in the order of the days, although every
\* submission is decided on an earlier read and resets and workers interfere
\* (ensure_in_order; an uploaded handoff is not asked for its order).
InOrder ==
  \A d, e \in Days : e < d /\ d \notin HandoffDays
     /\ sub[d].source = "candidate" => sub[e].source # "none"

\* A session is completed only when no task is left, whichever of the submit,
\* the finalizer and the reading of the current task completes it.
CompletedHasAll == sess.status = "completed" => Submitted = Days

\* A draft is closed only by a submission of its task, and an automatic
\* submission holds a version of the draft that was saved.
DraftsSettled ==
  \A d \in Days :
    /\ draft[d].final => d \in Submitted
    /\ sub[d].text <= draft[d].text

\* The evidence of a coding day is final: after the head was recorded it does
\* not move, until a later coding day is opened, unless a request that began
\* before the revocation was recorded gave the access back.
EvidenceFrozen ==
  \A d \in CodeDays :
    audit[d] # None /\ ~late /\ ~(repo.day # None /\ repo.day > d)
      => audit[d] = repo.head

\* Cutoffs are write-once, and a submission that exists keeps its source and
\* its text (only its recording may be replaced), across repeated runs,
\* conflicts and resets.
RecordsStay ==
  [][/\ \A d \in CodeDays : audit[d] # None => audit'[d] = audit[d]
     /\ \A d \in Days : sub[d].source # "none" => sub'[d] = sub[d]]_vars

Done(d) == IF d \in TextDays THEN d \in Submitted ELSE audit[d] # None

\* A closing job is not done before its day is: no run that came too early, was
\* put back, overtaken or refused leaves a job that nobody will run again with
\* its day open (mark_succeeded writes over any status); unless an operator took
\* the schedule back.
SuccessCloses ==
  \A d \in ClosedDays : job[d].st = "succeeded" => Done(d) \/ resets > 0

\* What the end of a day leaves fits together: drafts, submissions and jobs.
DaysSettled == DraftsSettled /\ SuccessCloses

\* Every day that has a closing job is closed after its window: a text day is
\* submitted, a coding day's cutoff is recorded, or the job is a dead letter;
\* unless an operator reset the session.
Closed(d) == Done(d) \/ job[d].st = "dead_letter"
DaysClose == \A d \in ClosedDays :
               (sess.start # None) ~> (Closed(d) \/ resets > 0)

\* The closing of days relies on nothing that the queue does not promise: jobs
\* are inserted once, run only when queued or running, perhaps twice at once,
\* and a report may come after another run's (claim_next_runnable, mark_*).
KeepsContract == Queue!Spec

\* The blueprint of Day 3: "Continue in the same repository used on Day 2.
\* Finish implementation details".  What a coding day left at its cutoff is
\* still in the repository the later day works in.
WorkContinues ==
  \A d \in CodeDays :
    audit[d] # None /\ audit[d] > 0 => repo.base <= audit[d]
=============================================================================
