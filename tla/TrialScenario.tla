---------------------------- MODULE TrialScenario ----------------------------
(***************************************************************************)
(* The life of a trial: its status, its scenario versions, the jobs that   *)
(* generate them and the invites that pin a candidate to a version.        *)
(*                                                                         *)
(* An operation on the trial locks its row for the whole transaction, and  *)
(* the two on a session (a candidate begins, an operator resets it) write  *)
(* that one row, so one step is one transaction.  Two requests take        *)
(* several: approving a trial commits the lock of its scenario and then    *)
(* activates the trial, and a batch invites each candidate in a            *)
(* transaction of its own.  Their later transactions lock the row again    *)
(* but keep working with the objects the session loaded in the first one   *)
(* (expire_on_commit is off), so they act on what the trial was then.      *)
(***************************************************************************)
EXTENDS Integers

CONSTANTS
  Trials,       \* trials of one company
  Extends,      \* Extends[t]: trials whose correlation ids match "trial:<t>%"
  Candidates,   \* invited addresses
  MaxVersion,   \* bound: scenario versions of one trial
  MaxFaults     \* bound: generation jobs that run once more than they should

ASSUME ConstantAssumption ==
  /\ Extends \in [Trials -> SUBSET Trials]
  /\ \A t \in Trials : t \in Extends[t]
  /\ MaxVersion \in Nat \ {0}
  /\ MaxFaults \in Nat

VARIABLES
  trial,    \* the trials table
  ver,      \* the scenario_versions table, by trial and version_index
  job,      \* the scenario_generation jobs, by trial and version
  newest,   \* the job an ORDER BY created_at over a trial's pattern finds
  inv,      \* the candidate_sessions table, by trial and address
  appr,     \* approvals between their transactions: the version they locked
  batch,    \* batches between two rows: the version their trial object names
  faults,   \* generation jobs run again so far
  unlocked, \* history: trials whose default job overwrote a locked version
  stale,    \* history: trials changed with an outdated trial object
  reset     \* history: sessions an operator reset after the termination

vars ==
  <<trial, ver, job, newest, inv, appr, batch, faults, unlocked, stale, reset>>

Versions == 1..MaxVersion
NoVersion == 0

TrialStatuses == {"absent", "generating", "ready_for_review",
                  "active_inviting", "terminated"}
VersionStatuses == {"absent", "draft", "generating", "ready", "locked"}
JobStatuses == {"absent", "queued", "succeeded", "dead_letter"}
\* "in_progress" stands for every status after the candidate has begun.
InviteStatuses == {"none", "not_started", "in_progress", "expired"}

\* The content of a version is a bit that every change of it flips; locked_at
\* is set exactly when the status is "locked".
VersionRow == [st : VersionStatuses, text : BOOLEAN]
TrialRow == [st : TrialStatuses, active : 0..MaxVersion, pending : 0..MaxVersion]
InviteRow == [st : InviteStatuses, v : 0..MaxVersion]

Init ==
  /\ trial = [t \in Trials |->
       [st |-> "absent", active |-> NoVersion, pending |-> NoVersion]]
  /\ ver = [t \in Trials |-> [v \in Versions |->
       [st |-> "absent", text |-> FALSE]]]
  /\ job = [t \in Trials |-> [v \in Versions |-> "absent"]]
  /\ newest = [t \in Trials |-> <<t, 1>>]
  /\ inv = [t \in Trials |-> [c \in Candidates |->
       [st |-> "none", v |-> NoVersion]]]
  /\ appr = [t \in Trials |-> NoVersion]
  /\ batch = [t \in Trials |-> NoVersion]
  /\ faults = 0
  /\ unlocked = {}
  /\ stale = {}
  /\ reset = {}

Usable(t, v) == ver[t][v].st \in {"ready", "locked"}

Rewritten(row, st) == [st |-> st, text |-> ~row.text]

\* Mutant: a version that is invited to without being locked.
LockNothing(t, v) == ver

\* lock_active_scenario_for_invites, for a version that is ready or locked.
Lock(t, v) == [ver EXCEPT ![t][v].st = "locked"]

\* A job is created: it is the newest of every pattern it matches.
Newest(t, v) ==
  [u \in Trials |-> IF t \in Extends[u] THEN <<t, v>> ELSE newest[u]]

-----------------------------------------------------------------------------
(* Creating a trial and generating its scenario *)

\* create_trial_with_tasks.  Ids grow: a trial comes after those whose id
\* begins its own.
Create(t) ==
  /\ trial[t].st = "absent"
  /\ \A u \in Trials \ {t} : t \in Extends[u] => trial[u].st # "absent"
  /\ trial' = [trial EXCEPT ![t].st = "generating"]
  /\ job' = [job EXCEPT ![t][1] = "queued"]
  /\ newest' = Newest(t, 1)
  /\ UNCHANGED <<ver, inv, appr, batch, faults, unlocked, stale, reset>>

\* Mutant: only a trial that is being generated accepts a generation.
SkipsUnlessGenerating(t, v) == trial[t].st # "generating"

\* Mutant: the requested version overwritten although it is locked.
SkipsOnlyMoved(t, v) ==
  \/ trial[t].st = "terminated"
  \/ /\ v = 1
     /\ trial[t].st # "generating"
     /\ trial[t].active \notin {NoVersion, 1}

\* The early returns of the handler: the trial is over; the requested version
\* is locked; the first version is no longer the active one.
Skips(t, v) ==
  \/ trial[t].st = "terminated"
  \/ v # 1 /\ ver[t][v].st = "locked"
  \/ /\ v = 1
     /\ trial[t].st # "generating"
     /\ trial[t].active \notin {NoVersion, 1}

\* handle_scenario_generation: write the version, make the first one active,
\* put the trial up for review.  The default job (version 1) does not ask
\* whether the version it writes is locked.
Generated(t, v) ==
  IF Skips(t, v) THEN UNCHANGED <<trial, ver, unlocked>>
  ELSE /\ ver' = [ver EXCEPT ![t][v] = Rewritten(@, "ready")]
       /\ trial' = [trial EXCEPT ![t] = [@ EXCEPT
            !.st = "ready_for_review",
            !.active = IF v = 1 THEN 1 ELSE trial[t].active]]
       /\ unlocked' = IF v = 1 /\ ver[t][1].st = "locked"
                        THEN unlocked \cup {t} ELSE unlocked

\* A worker runs the job and records its success.
Generate(t, v) ==
  /\ job[t][v] = "queued"
  /\ Generated(t, v)
  /\ job' = [job EXCEPT ![t][v] = "succeeded"]
  /\ UNCHANGED <<newest, inv, appr, batch, faults, stale, reset>>

\* The queue runs a job at least once: its worker dies between the handler's
\* commit and mark_succeeded, overruns its lease, or is in the middle of a
\* job that is cancelled.
GenerateAgain(t, v) ==
  /\ job[t][v] \in {"succeeded", "dead_letter"}
  /\ faults < MaxFaults
  /\ faults' = faults + 1
  /\ Generated(t, v)
  /\ UNCHANGED <<job, newest, inv, appr, batch, stale, reset>>

\* Every attempt fails.
GenerateFails(t, v) ==
  /\ job[t][v] = "queued"
  /\ job' = [job EXCEPT ![t][v] = "dead_letter"]
  /\ UNCHANGED <<trial, ver, newest, inv, appr, batch, faults, unlocked, stale,
                 reset>>

\* requeue_dead_letter_job makes a new job from a dead one.
RequeueDead(t, v) ==
  /\ job[t][v] = "dead_letter"
  /\ job' = [job EXCEPT ![t][v] = "queued"]
  /\ newest' = Newest(t, v)
  /\ UNCHANGED <<trial, ver, inv, appr, batch, faults, unlocked, stale, reset>>

-----------------------------------------------------------------------------
(* Regenerating and editing the scenario *)

\* request_scenario_regeneration, no active version: put a placeholder in its
\* place and retry the newest job if that one is dead.
Restore(t) ==
  LET n == newest[t]
      dead == job[n[1]][n[2]] = "dead_letter"
  IN /\ trial[t].st # "absent"
     /\ trial[t].pending = NoVersion /\ trial[t].active = NoVersion
     /\ trial[t].st = "generating" \/ dead
     /\ ver' = [ver EXCEPT ![t][1] = Rewritten(@, "generating")]
     /\ trial' = [trial EXCEPT ![t].active = 1]
     /\ IF dead
          THEN /\ job' = [job EXCEPT ![n[1]][n[2]] = "queued"]
               /\ newest' = Newest(n[1], n[2])
          ELSE UNCHANGED <<job, newest>>
     /\ UNCHANGED <<inv, appr, batch, faults, unlocked, stale, reset>>

\* next_version_index: one more than the greatest.
IsNextIndex(t, v) ==
  /\ \A w \in Versions : w >= v => ver[t][w].st = "absent"
  /\ v = 1 \/ ver[t][v - 1].st # "absent"

\* Otherwise: a new pending version, cloned from the active one.
Regenerate(t, v) ==
  /\ trial[t].st \notin {"absent", "terminated"}
  /\ trial[t].pending = NoVersion /\ trial[t].active # NoVersion
  /\ IsNextIndex(t, v)
  /\ ver' = [ver EXCEPT ![t][v] =
               [st |-> "generating", text |-> ver[t][trial[t].active].text]]
  /\ trial' = [trial EXCEPT ![t] = [@ EXCEPT
                 !.st = "ready_for_review", !.pending = v]]
  /\ job' = [job EXCEPT ![t][v] = "queued"]
  /\ newest' = Newest(t, v)
  /\ UNCHANGED <<inv, appr, batch, faults, unlocked, stale, reset>>

\* update_active_scenario_version: any text, and "draft" or "ready" as status.
UpdateActive(t) ==
  LET v == trial[t].active
  IN /\ v # NoVersion
     /\ ver[t][v].st # "locked"
     /\ \E st \in {ver[t][v].st, "draft", "ready"} :
          ver' = [ver EXCEPT ![t][v] = Rewritten(@, st)]
     /\ UNCHANGED <<trial, job, newest, inv, appr, batch, faults, unlocked, stale,
                    reset>>

\* patch_scenario_version
Patch(t, v) ==
  /\ trial[t].st \in {"ready_for_review", "active_inviting"}
  /\ ver[t][v].st = "ready"
  /\ ver' = [ver EXCEPT ![t][v] = Rewritten(@, "ready")]
  /\ UNCHANGED <<trial, job, newest, inv, appr, batch, faults, unlocked, stale,
                    reset>>

\* Mutant: a fallback to the version that awaits its approval.
FallbackAnyTime(t, v) ==
  /\ trial[t].st # "terminated"
  /\ Usable(t, v)
  /\ trial' = [trial EXCEPT ![t].active = v]
  /\ UNCHANGED <<ver, job, newest, inv, appr, batch, faults, unlocked, stale,
                 reset>>

\* use_trial_fallback_scenario: another version becomes the active one.
Fallback(t, v) ==
  /\ trial[t].st # "terminated"
  /\ Usable(t, v)
  /\ trial[t].pending = NoVersion
  /\ trial' = [trial EXCEPT ![t].active = v]
  /\ UNCHANGED <<ver, job, newest, inv, appr, batch, faults, unlocked, stale,
                 reset>>

\* approve_scenario_version: the pending version becomes the active one, or
\* the active one is confirmed; either way it is locked.
ApproveVersion(t, v) ==
  /\ Usable(t, v)
  /\ IF trial[t].pending = NoVersion THEN v = trial[t].active
                                     ELSE v = trial[t].pending
  /\ trial' = [trial EXCEPT ![t] = [@ EXCEPT
                 !.active = v, !.pending = NoVersion]]
  /\ ver' = Lock(t, v)
  /\ UNCHANGED <<job, newest, inv, appr, batch, faults, unlocked, stale,
                 reset>>

-----------------------------------------------------------------------------
(* Activating and terminating the trial *)

\* approve_trial_for_inviting, first transaction: lock the active version.
Approve(t) ==
  LET v == trial[t].active
  IN /\ appr[t] = NoVersion
     /\ trial[t].st = "ready_for_review"
     /\ trial[t].pending = NoVersion /\ v # NoVersion
     /\ Usable(t, v)
     /\ ver' = Lock(t, v)
     /\ appr' = [appr EXCEPT ![t] = v]
     /\ UNCHANGED <<trial, job, newest, inv, batch, faults, unlocked, stale,
                    reset>>

\* Second transaction, activate_trial with the trial object of the first: its
\* status and pending version are those of then, and so is the status of the
\* version it locked; only another active version is read afresh.
ApproveFinish(t) ==
  LET v == trial[t].active
  IN /\ appr[t] # NoVersion
     /\ v = appr[t] \/ ver[t][v].st = "locked"
     /\ trial' = [trial EXCEPT ![t].st = "active_inviting"]
     /\ appr' = [appr EXCEPT ![t] = NoVersion]
     /\ stale' = IF trial[t].st = "ready_for_review" /\ trial[t].pending = NoVersion
                   THEN stale ELSE stale \cup {t}
     /\ UNCHANGED <<ver, job, newest, inv, batch, faults, unlocked, reset>>

\* The process dies in between, or activate_trial refuses.
ApproveEnds(t) ==
  /\ appr[t] # NoVersion
  /\ appr' = [appr EXCEPT ![t] = NoVersion]
  /\ UNCHANGED <<trial, ver, job, newest, inv, batch, faults, unlocked, stale,
                 reset>>

\* activate_trial as a request of its own.
Activate(t) ==
  LET v == trial[t].active
  IN /\ trial[t].st = "ready_for_review"
     /\ trial[t].pending = NoVersion /\ v # NoVersion
     /\ ver[t][v].st = "locked"
     /\ trial' = [trial EXCEPT ![t].st = "active_inviting"]
     /\ UNCHANGED <<ver, job, newest, inv, appr, batch, faults, unlocked, stale,
                    reset>>

\* Mutant: invites that get the status of their trial.
InvitesTerminated(t) ==
  [inv EXCEPT ![t] = [c \in Candidates |->
     [inv[t][c] EXCEPT !.st = "terminated"]]]

\* Mutant: termination that leaves the invites open.
InvitesUntouched(t) == inv

\* _expire_pending_candidate_sessions
InvitesExpired(t) ==
  [inv EXCEPT ![t] = [c \in Candidates |->
     IF inv[t][c].st = "not_started"
       THEN [inv[t][c] EXCEPT !.st = "expired"] ELSE inv[t][c]]]

\* _cancel_pending_trial_jobs: whatever correlation id starts like the trial's.
JobsCancelled(t) ==
  [u \in Trials |-> [v \in Versions |->
     IF u \in Extends[t] /\ job[u][v] = "queued"
       THEN "dead_letter" ELSE job[u][v]]]

\* terminate_trial_with_cleanup.  Without an active version the table's check
\* ck_trials_active_scenario_required refuses the status, and nothing changes.
Terminate(t) ==
  /\ trial[t].active # NoVersion
  /\ trial' = [trial EXCEPT ![t].st = "terminated"]
  /\ inv' = InvitesExpired(t)
  /\ job' = JobsCancelled(t)
  /\ UNCHANGED <<ver, newest, appr, batch, faults, unlocked, stale, reset>>

-----------------------------------------------------------------------------
(* Inviting *)

\* Mutant: an invite that names the newest version.
InvitedNewest(t, c, v) ==
  IF inv[t][c].st # "none" THEN inv[t]
  ELSE [inv[t] EXCEPT ![c] = [st |-> "not_started", v |->
          CHOOSE w \in Versions : w = MaxVersion \/ ver[t][w + 1].st = "absent"]]

\* create_or_resend_invite: an existing session keeps its version and status.
Invited(t, c, v) ==
  IF inv[t][c].st # "none" THEN inv[t]
  ELSE [inv[t] EXCEPT ![c] = [st |-> "not_started", v |-> v]]

\* require_trial_invitable
Invitable(t) ==
  trial[t].st = "active_inviting" /\ trial[t].pending = NoVersion

\* create_candidate_invite_workflow, or the first row of a batch, which keeps
\* the trial object for the rows to come.
Invite(t, c) ==
  LET v == trial[t].active
  IN /\ Invitable(t) /\ v # NoVersion
     /\ Usable(t, v)
     /\ ver' = Lock(t, v)
     /\ inv' = [inv EXCEPT ![t] = Invited(t, c, v)]
     /\ \/ UNCHANGED batch
        \/ batch[t] = NoVersion /\ batch' = [batch EXCEPT ![t] = v]
     /\ UNCHANGED <<trial, job, newest, appr, faults, unlocked, stale, reset>>

\* invite_candidates_batch, a later row: the trial object still says
\* active_inviting and nothing pending, and names the version of the first row.
BatchRow(t, c) ==
  LET v == batch[t]
  IN /\ v # NoVersion
     /\ Usable(t, v)
     /\ ver' = Lock(t, v)
     /\ inv' = [inv EXCEPT ![t] = Invited(t, c, v)]
     /\ stale' = IF Invitable(t) /\ trial[t].active = v
                   THEN stale ELSE stale \cup {t}
     /\ UNCHANGED <<trial, job, newest, appr, batch, faults, unlocked, reset>>

\* The last row, or a failed one, whose rollback expires the object.
BatchEnds(t) ==
  /\ batch[t] # NoVersion
  /\ batch' = [batch EXCEPT ![t] = NoVersion]
  /\ UNCHANGED <<trial, ver, job, newest, inv, appr, faults, unlocked, stale,
                 reset>>

-----------------------------------------------------------------------------
(* The session of a candidate *)

\* mark_in_progress, behind ensure_can_access: the candidate opens the invite.
Begin(t, c) ==
  /\ trial[t].st # "terminated"
  /\ inv[t][c].st = "not_started"
  /\ inv' = [inv EXCEPT ![t][c].st = "in_progress"]
  /\ UNCHANGED <<trial, ver, job, newest, appr, batch, faults, unlocked, stale,
                 reset>>

\* reset_candidate_session: back to the start or, for a session somebody
\* claimed, back into it, whatever the trial and the session have come to.
Reset(t, c) ==
  /\ inv[t][c].st # "none"
  /\ \E st \in {"not_started", "in_progress"} :
       inv' = [inv EXCEPT ![t][c].st = st]
  /\ reset' = IF trial[t].st = "terminated"
                THEN reset \cup {<<t, c>>} ELSE reset
  /\ UNCHANGED <<trial, ver, job, newest, appr, batch, faults, unlocked, stale>>

-----------------------------------------------------------------------------
GenerationStep(t) ==
  \E v \in Versions : Generate(t, v) \/ GenerateAgain(t, v)
                      \/ GenerateFails(t, v) \/ RequeueDead(t, v)

ScenarioStep(t) ==
  \/ Restore(t) \/ UpdateActive(t)
  \/ \E v \in Versions :
       Regenerate(t, v) \/ Patch(t, v) \/ Fallback(t, v) \/ ApproveVersion(t, v)

LifecycleStep(t) ==
  \/ Create(t) \/ Approve(t) \/ ApproveFinish(t) \/ ApproveEnds(t)
  \/ Activate(t) \/ Terminate(t)

InviteStep(t) ==
  BatchEnds(t) \/ \E c \in Candidates : Invite(t, c) \/ BatchRow(t, c)

SessionStep(t) == \E c \in Candidates : Begin(t, c) \/ Reset(t, c)

Next == \E t \in Trials :
  \/ GenerationStep(t) \/ ScenarioStep(t) \/ LifecycleStep(t)
  \/ InviteStep(t) \/ SessionStep(t)

Spec == Init /\ [][Next]_vars

-----------------------------------------------------------------------------
(* Properties *)

\* Every row holds values of its columns.
TypeOK ==
  /\ trial \in [Trials -> TrialRow]
  /\ ver \in [Trials -> [Versions -> VersionRow]]
  /\ job \in [Trials -> [Versions -> JobStatuses]]
  /\ newest \in [Trials -> Trials \X Versions]
  /\ inv \in [Trials -> [Candidates -> InviteRow]]
  /\ appr \in [Trials -> 0..MaxVersion]
  /\ batch \in [Trials -> 0..MaxVersion]
  /\ faults \in Nat
  /\ unlocked \subseteq Trials
  /\ stale \subseteq Trials
  /\ reset \subseteq Trials \X Candidates

\* A candidate's version stays locked, whoever regenerates, edits, approves or
\* falls back meanwhile, and also when the invite came from an outdated trial
\* object; only the default generation job undoes it, when it runs again or late.
InvitedLocked ==
  \A t \in Trials \ unlocked : \A c \in Candidates :
    inv[t][c].st # "none" => ver[t][inv[t][c].v].st = "locked"

\* What a candidate was invited to never changes, with the same exception: no
\* path around ensure_scenario_version_mutable and ensure_patch_allowed.
InvitedFrozen ==
  [][\A t \in Trials \ unlocked' : \A c \in Candidates :
       inv[t][c].st # "none" =>
         ver'[t][inv[t][c].v].text = ver[t][inv[t][c].v].text]_vars

\* Nobody is ever invited to a version that still awaits its approval.
InvitedApproved ==
  \A t \in Trials : \A c \in Candidates :
    trial[t].pending # NoVersion => inv[t][c].v # trial[t].pending

\* The pending version is the last one, is not the active one and is not
\* locked, so that the approval which ends it is still to come.
PendingOpen ==
  \A t \in Trials :
    LET p == trial[t].pending
    IN p # NoVersion =>
         /\ p # trial[t].active
         /\ ver[t][p].st \in {"generating", "ready"}
         /\ \A v \in Versions : v > p => ver[t][v].st = "absent"

\* No living trial waits for a generation that nobody owes it: while it or its
\* pending version is being generated, the job is queued or a dead letter that
\* an operator can requeue.  A trial that an outdated approval brought back
\* from termination is the exception: its job may have been skipped meanwhile.
GenerationOwed ==
  \A t \in Trials \ stale :
    /\ trial[t].st = "generating" => job[t][1] \in {"queued", "dead_letter"}
    /\ trial[t].st # "terminated" =>
         \A v \in Versions :
           v = trial[t].pending /\ ver[t][v].st = "generating"
             => job[t][v] \in {"queued", "dead_letter"}

\* A terminated trial has no open invite: terminate and invite exclude each
\* other by the lock of the trial's row.  Two things open one all the same: a
\* request that goes on with an outdated trial object, and an operator's reset,
\* which asks nothing about the trial, of that very session.
TerminatedRevoked ==
  \A t \in Trials \ stale : \A c \in Candidates :
    /\ trial[t].st = "terminated"
    /\ <<t, c>> \notin reset
    => inv[t][c].st # "not_started"

\* "terminated -> (no forward transitions)" as the lifecycle document says.
TerminatedStays ==
  [][\A t \in Trials :
       trial[t].st = "terminated" => trial'[t].st = "terminated"]_vars
=============================================================================
