---------------------------- MODULE DayFlowProofs ----------------------------
(***************************************************************************)
(* What DayFlow keeps for any days, requests, workers, faults and resets:  *)
(* types, submissions in order, completions with every task, drafts that   *)
(* only a submission closes, records that stay, the evidence that a cutoff *)
(* has recorded, jobs that end only with their day closed, and the queue's *)
(* contract.                                                               *)
(***************************************************************************)
EXTENDS DayFlow, TLAPS

-----------------------------------------------------------------------------
(* The invariant of the submissions: what a request or a run has found out *)
(* before it writes is still so.                                           *)

SubmissionRequest(m) ==
  /\ m.pc # "idle" => m.day \in Days
  /\ m.pc \in {"gating", "creating"} =>
       \A e \in Days : e < m.day => e \in Submitted
  /\ m.pc = "marking" => m.day \in Submitted

SubmissionRun(m) ==
  /\ m.pc \in {"creating", "marking"} => m.day \in ClosedDays
  /\ m.pc = "creating" => m.saw <= draft[m.day].text
  /\ m.pc = "marking" => m.day \in Submitted

\* No run closes a handoff, so nothing replaces a source there.
HandoffOK == \A d \in HandoffDays : sub[d].source \in {"none", "candidate"}

Submissions ==
  /\ \A r \in Requests : SubmissionRequest(rq[r])
  /\ \A w \in Workers : SubmissionRun(wk[w])
  /\ HandoffOK /\ InOrder /\ CompletedHasAll /\ DraftsSettled

-----------------------------------------------------------------------------
(* The invariant of the cutoffs: once the access of a row is cut, nobody    *)
(* has access until a later day's bootstrap or an excused request.         *)

Reopened(d) == late \/ (repo.day # None /\ repo.day > d)

CutoffRequest(m) ==
  /\ m.pc \in {"granting", "storing"} => m.day \in CodeDays
  /\ m.pc = "granting" => m.saw = 0
  /\ m.pc = "storing" /\ ~Grouped => ~FirstCode(m.day) /\ repo.day = m.day

CutoffRun(m) ==
  /\ m.pc # "idle" => m.due <= now
  /\ m.pc \in {"revoking", "recording", "heading", "auditing"} =>
       m.day \in CodeDays /\ Row(m.day).made
  /\ m.pc \in {"recording", "heading", "auditing"} => Row(m.day).cut
  /\ m.pc = "auditing" => Reopened(m.day) \/ m.head = repo.head

RowOK(d) ==
  /\ Row(d).cut => Row(d).made /\ (Reopened(d) \/ ~repo.collab)
  /\ Row(d).revoked # None => Row(d).revoked <= now
  /\ ~Grouped => IF FirstCode(d) THEN Row(d).made
                                 ELSE Row(d).made => repo.day = d
  /\ audit[d] # None => Row(d).cut /\ (Reopened(d) \/ audit[d] = repo.head)

Cutoffs ==
  /\ \A r \in Requests : CutoffRequest(rq[r])
  /\ \A w \in Workers : CutoffRun(wk[w])
  /\ \A d \in CodeDays : RowOK(d)

-----------------------------------------------------------------------------
(* Types *)

LEMMA DayTypes ==
  /\ Days \subseteq 1..5 /\ CodeDays \subseteq {2, 3} /\ CodeDays \subseteq Days
  /\ ClosedDays \subseteq Days /\ HandoffDays \subseteq Days
  /\ HandoffDays \cap ClosedDays = {}
  /\ Instants \subseteq Int /\ None \notin Int /\ None \notin Days
  /\ \A d \in Days : Offset[d] \in Nat
<1>1. /\ Days \subseteq 1..5 /\ CodeDays \subseteq {2, 3} /\ CodeDays \subseteq Days
      /\ ClosedDays \subseteq Days /\ HandoffDays \subseteq Days
  BY ConstantAssumption DEF CodeDays, ClosedDays, TextDays, HandoffDays
<1>2. \A d \in HandoffDays : d = 4
  BY DEF HandoffDays
<1>3. \A d \in ClosedDays : d # 4
  BY DEF ClosedDays, TextDays, CodeDays
<1>4. Instants \subseteq Int /\ None \notin Int
  BY ConstantAssumption DEF Instants
<1>5. \A d \in Days : d \in Int
  BY <1>1
<1>6. None \notin Days
  BY <1>4, <1>5
<1>7. \A d \in Days : Offset[d] \in Nat
  BY ConstantAssumption
<1> QED
  BY <1>1, <1>2, <1>3, <1>4, <1>6, <1>7

LEMMA InitType == Init => TypeOK
<1> SUFFICES ASSUME Init PROVE TypeOK
  OBVIOUS
<1>1. now \in Instants /\ sess \in Session
  BY ConstantAssumption DEF Init, Instants, Session, Statuses
<1>2. sub \in [Days -> Submission] /\ draft \in [Days -> Draft]
      /\ audit \in [CodeDays -> Nat \cup {None}]
  BY DEF Init, NoSubmission, Submission, Sources, Draft
<1>3. \A d \in CodeDays :
        [made |-> ~Grouped /\ FirstCode(d), cut |-> FALSE, revoked |-> None] \in Workspace
  BY DEF Workspace
<1>4. repo \in Repo
  BY <1>3 DEF Init, Repo
<1>5. [st |-> "absent", due |-> 0, tries |-> 0] \in Job
  BY ConstantAssumption DEF Job
<1>6. NoRequest \in RequestMem /\ NoRun \in WorkerMem
  BY ConstantAssumption DEF NoRequest, RequestMem, NoRun, WorkerMem, Statuses
<1> QED
  BY <1>1, <1>2, <1>4, <1>5, <1>6 DEF Init, TypeOK

\* The outcome and the new memory of a run.
LEMMA RunTypes ==
  ASSUME TypeOK, NEW w \in Workers
  PROVE  /\ Idles(w) => wk' \in [Workers -> WorkerMem]
         /\ \A pc \in {"requeued", "creating", "marking", "progressing", "revoking",
                       "recording", "heading", "auditing"} :
              RunGoesOn(w, pc) => wk' \in [Workers -> WorkerMem]
         /\ Succeed(w) \/ Fail(w) => wk' \in [Workers -> WorkerMem]
         /\ Succeed(w) \/ Fail(w) => job' \in [ClosedDays -> Job]
<1>1. NoRun \in WorkerMem
  BY DayTypes, ConstantAssumption DEF NoRun, WorkerMem, Statuses
<1>2. Idles(w) => wk' \in [Workers -> WorkerMem]
  BY <1>1 DEF Idles, TypeOK
<1>3. ASSUME NEW pc \in {"requeued", "creating", "marking", "progressing", "revoking",
                         "recording", "heading", "auditing"}, RunGoesOn(w, pc)
      PROVE  wk' \in [Workers -> WorkerMem]
  <2>1. [wk[w] EXCEPT !.pc = pc] \in WorkerMem
    BY DEF TypeOK, WorkerMem
  <2> QED
    BY <1>3, <2>1 DEF RunGoesOn, TypeOK
<1>4. ASSUME NEW d, NEW st \in {"succeeded", "dead_letter", "queued"}, Outcome(d, st)
      PROVE  job' \in [ClosedDays -> Job]
  <2>1. \A e \in ClosedDays : [job[e] EXCEPT !.st = st] \in Job
    BY DEF TypeOK, Job
  <2> QED
    BY <1>4, <2>1 DEF Outcome, TypeOK
<1> QED
  BY <1>2, <1>3, <1>4 DEF Succeed, Fail

\* The memory of a request that goes on or ends.
LEMMA RequestTypes ==
  ASSUME TypeOK, NEW r \in Requests
  PROVE  /\ Ends(r) => rq' \in [Requests -> RequestMem]
         /\ \A pc \in {"creating", "marking", "storing"} :
              GoesOn(r, pc) => rq' \in [Requests -> RequestMem]
         /\ \A d \in Days, pc \in {"drafting", "gating", "creating", "granting"},
               saw \in Nat :
              Begins(r, d, pc, saw) => rq' \in [Requests -> RequestMem]
<1>1. NoRequest \in RequestMem
  BY DayTypes DEF NoRequest, RequestMem, Statuses
<1>2. ASSUME NEW pc \in {"creating", "marking", "storing"}
      PROVE  [rq[r] EXCEPT !.pc = pc] \in RequestMem
  BY DEF TypeOK, RequestMem
<1>3. ASSUME NEW d \in Days, NEW saw \in Nat,
             NEW pc \in {"drafting", "gating", "creating", "granting"}
      PROVE  [pc |-> pc, day |-> d, start |-> sess.start,
              status |-> sess.status, saw |-> saw] \in RequestMem
  BY DEF TypeOK, RequestMem, Session
<1>4. rq \in [Requests -> RequestMem]
  BY DEF TypeOK
<1>5. ASSUME NEW d \in Days, NEW saw \in Nat,
             NEW pc \in {"drafting", "gating", "creating", "granting"},
             Begins(r, d, pc, saw)
      PROVE  rq' \in [Requests -> RequestMem]
  BY <1>3, <1>4, <1>5 DEF Begins
<1>6. /\ Ends(r) => rq' \in [Requests -> RequestMem]
      /\ \A pc \in {"creating", "marking", "storing"} :
           GoesOn(r, pc) => rq' \in [Requests -> RequestMem]
  BY <1>1, <1>2, <1>4 DEF Ends, GoesOn
<1> QED
  BY <1>5, <1>6

LEMMA ClosesInt == \A s \in Instants, d \in Days : Closes(s, d) \in Int
BY DayTypes DEF Closes, Opens

LEMMA SessionTypes ==
  ASSUME TypeOK,
         Claim \/ FetchOwned \/ Schedule \/ AdminReset \/ GetCurrentTask
  PROVE  TypeOK'
<1>1. CASE Claim \/ FetchOwned \/ GetCurrentTask
  BY <1>1 DEF Claim, FetchOwned, GetCurrentTask, TypeOK, Session, Statuses
<1>2. CASE Schedule
  <2>1. PICK s \in Instants : sess' = [sess EXCEPT !.start = s, !.user = TRUE]
                              /\ job' = EnqueueDayClose(s)
    BY <1>2 DEF Schedule
  <2>2. \A d \in ClosedDays :
          [job[d] EXCEPT !.st = "queued", !.due = Closes(s, d)] \in Job
    <3>1. \A d \in ClosedDays : Closes(s, d) \in Int /\ job[d] \in Job
      BY ClosesInt, DayTypes DEF TypeOK
    <3> QED
      BY <3>1 DEF Job
  <2>3. job' \in [ClosedDays -> Job]
    BY <2>1, <2>2 DEF EnqueueDayClose, TypeOK
  <2>4. sess' \in Session
    BY <2>1 DEF TypeOK, Session
  <2> QED
    BY <1>2, <2>3, <2>4 DEF Schedule, TypeOK
<1>3. CASE AdminReset
  <2>1. sess \in Session
    BY DEF TypeOK
  <2>2. \A st \in {"not_started", "in_progress"} :
          [sess EXCEPT !.status = st, !.start = None] \in Session
    BY <2>1 DEF Session, Statuses
  <2>3. [status |-> "not_started", claimed |-> FALSE, user |-> FALSE,
         start |-> None] \in Session
    BY DEF Session, Statuses
  <2>4. sess' \in Session
    BY <1>3, <2>2, <2>3 DEF AdminReset
  <2> QED
    BY <1>3, <2>4 DEF AdminReset, TypeOK
<1> QED
  BY <1>1, <1>2, <1>3

LEMMA RequestStepTypes ==
  ASSUME TypeOK, NEW r \in Requests,
         \/ \E d \in Days : BeginDraft(r, d) \/ BeginSubmit(r, d) \/ BeginInit(r, d)
         \/ WriteDraft(r) \/ GateCode(r) \/ CreateSubmission(r) \/ FinishSubmit(r)
         \/ Grant(r) \/ Bootstrap(r) \/ StoreRow(r) \/ Abandon(r)
  PROVE  TypeOK'
<1>1. ASSUME NEW d \in Days, BeginDraft(r, d)
      PROVE  TypeOK'
  <2>1. rq' \in [Requests -> RequestMem]
    BY <1>1, RequestTypes DEF BeginDraft, TypeOK, Draft
  <2> QED
    BY <1>1, <2>1 DEF BeginDraft, TypeOK
<1>2. ASSUME NEW d \in Days, BeginSubmit(r, d)
      PROVE  TypeOK'
  <2>1. rq' \in [Requests -> RequestMem]
    BY <1>2, RequestTypes DEF BeginSubmit
  <2> QED
    BY <1>2, <2>1 DEF BeginSubmit, TypeOK
<1>3. ASSUME NEW d \in Days, BeginInit(r, d)
      PROVE  TypeOK'
  <2>1. rq' \in [Requests -> RequestMem]
    BY <1>3, RequestTypes DEF BeginInit
  <2> QED
    BY <1>3, <2>1 DEF BeginInit, TypeOK
<1>4. CASE WriteDraft(r)
  <2>1. \A d \in Days : [draft[d] EXCEPT !.text = @ + 1] \in Draft
    BY DEF TypeOK, Draft
  <2>2. draft' \in [Days -> Draft]
    BY <1>4, <2>1 DEF WriteDraft, TypeOK
  <2> QED
    BY <1>4, <2>2, RequestTypes DEF WriteDraft, TypeOK
<1>5. CASE GateCode(r)
  <2>1. rq' \in [Requests -> RequestMem]
    BY <1>5, RequestTypes DEF GateCode
  <2> QED
    BY <1>5, <2>1 DEF GateCode, TypeOK
<1>6. CASE CreateSubmission(r)
  <2>1. rq' \in [Requests -> RequestMem]
    BY <1>6, RequestTypes DEF CreateSubmission
  <2>2. sub' \in [Days -> Submission]
    BY <1>6 DEF CreateSubmission, TypeOK, Submission, Sources
  <2> QED
    BY <1>6, <2>1, <2>2 DEF CreateSubmission, TypeOK
<1>7. CASE FinishSubmit(r)
  <2>1. draft' \in [Days -> Draft]
    BY <1>7 DEF FinishSubmit, TypeOK, Draft
  <2>2. sess' \in Session
    BY <1>7 DEF FinishSubmit, Progress, TypeOK, Session, Statuses
  <2> QED
    BY <1>7, <2>1, <2>2, RequestTypes DEF FinishSubmit, TypeOK
<1>8. CASE Grant(r)
  <2>1. repo' \in Repo /\ sess' \in Session /\ late' \in BOOLEAN
    BY <1>8 DEF Grant, GivesBack, TypeOK, Repo, Session
  <2> QED
    BY <1>8, <2>1, RequestTypes DEF Grant, TypeOK
<1>9. CASE Bootstrap(r)
  <2>1. rq' \in [Requests -> RequestMem]
    BY <1>9, RequestTypes DEF Bootstrap
  <2>2. rq[r].day \in Days \cup {None}
    BY DEF TypeOK, RequestMem
  <2>3. CASE Grouped /\ rq[r].day = 3
    BY <1>9, <2>1, <2>3 DEF Bootstrap, TypeOK
  <2>4. CASE ~(Grouped /\ rq[r].day = 3)
    <3>1. PICK c \in {TRUE, repo.collab} :
            repo' = [repo EXCEPT !.made = TRUE, !.collab = c, !.day = rq[r].day,
                       !.head = IF repo.made THEN @ + 1 ELSE @,
                       !.base = IF repo.made THEN repo.head + 1 ELSE @]
      BY <1>9, <2>4 DEF Bootstrap
    <3>2. repo \in Repo
      BY DEF TypeOK
    <3>3. repo.head \in Nat /\ repo.base \in Nat /\ c \in BOOLEAN
      BY <3>2 DEF Repo
    <3>4. ASSUME NEW h \in Nat, NEW b \in Nat
          PROVE  [repo EXCEPT !.made = TRUE, !.collab = c, !.day = rq[r].day,
                    !.head = h, !.base = b] \in Repo
      BY <2>2, <3>2, <3>3 DEF Repo
    <3>5. (IF repo.made THEN repo.head + 1 ELSE repo.head) \in Nat
          /\ (IF repo.made THEN repo.head + 1 ELSE repo.base) \in Nat
      BY <3>3
    <3>6. repo' \in Repo
      BY <3>1, <3>4, <3>5
    <3>7. GivesBack(r)
      BY <1>9, <2>4 DEF Bootstrap
    <3>8. late' \in BOOLEAN
      BY <3>7 DEF GivesBack, TypeOK
    <3> QED
      BY <1>9, <2>1, <2>4, <3>6, <3>8 DEF Bootstrap, TypeOK
  <2> QED
    BY <2>3, <2>4
<1>10. CASE StoreRow(r)
  <2>1. \A d \in CodeDays : [repo.row[d] EXCEPT !.made = TRUE] \in Workspace
    BY DEF TypeOK, Repo, Workspace
  <2>2. repo' \in Repo
    BY <1>10, <2>1 DEF StoreRow, TypeOK, Repo
  <2>3. sess' \in Session
    BY <1>10 DEF StoreRow, TypeOK, Session
  <2> QED
    BY <1>10, <2>2, <2>3, RequestTypes DEF StoreRow, TypeOK
<1>11. CASE Abandon(r)
  BY <1>11, RequestTypes DEF Abandon, TypeOK
<1> QED
  BY <1>1, <1>2, <1>3, <1>4, <1>5, <1>6, <1>7, <1>8, <1>9, <1>10, <1>11

LEMMA WorkerStepTypes ==
  ASSUME TypeOK, NEW w \in Workers, NEW d \in ClosedDays,
         StartRun(w, d) \/ WorkerStep(w, d)
  PROVE  TypeOK'
<1>0. d \in Days
  BY DayTypes
<1>1. CASE StartRun(w, d)
  <2>1. job[d] \in Job /\ OneMore(job[d].tries) \in 0..MaxAttempts
    BY ConstantAssumption DEF TypeOK, Job, OneMore
  <2>2. [NoRun EXCEPT !.pc = "loading", !.day = d, !.due = job[d].due,
                      !.tries = OneMore(job[d].tries)] \in WorkerMem
    BY <1>0, <2>1, DayTypes DEF NoRun, WorkerMem, Statuses, Job
  <2>3. wk' \in [Workers -> WorkerMem]
    BY <1>1, <2>2 DEF StartRun, TypeOK
  <2>4. [job[d] EXCEPT !.st = "running", !.tries = OneMore(job[d].tries)] \in Job
    BY <2>1 DEF Job
  <2>5. job' \in [ClosedDays -> Job]
    BY <1>1, <2>4 DEF StartRun, TypeOK
  <2>6. faults' \in Nat
    BY <1>1 DEF StartRun, TypeOK
  <2> QED
    BY <1>1, <2>3, <2>5, <2>6 DEF StartRun, TypeOK
<1>2. CASE LoadText(w, d)
  <2>1. CASE sess.start = None
    BY <1>2, <2>1, RunTypes DEF LoadText, TypeOK
  <2>2. CASE sess.start # None /\ now < Closes(sess.start, d)
    <3>1. sess.start \in Instants
      BY <2>2 DEF TypeOK, Session
    <3>2. [job[d] EXCEPT !.st = "queued", !.due = Closes(sess.start, d)] \in Job
      BY <1>0, <3>1, ClosesInt DEF TypeOK, Job
    <3>3. now \in Int /\ Closes(sess.start, d) \in Int
      BY <1>0, <3>1, ClosesInt, DayTypes DEF TypeOK
    <3>4. PutBack(w, d)
      BY <1>2, <2>2, <3>3 DEF LoadText
    <3>5. job' \in [ClosedDays -> Job] /\ wk' \in [Workers -> WorkerMem]
      <4>1. CASE job[d].st \in {"queued", "running"}
        BY <3>2, <3>4, <4>1, RunTypes DEF PutBack, TypeOK
      <4>2. CASE ~(job[d].st \in {"queued", "running"})
        BY <3>4, <4>2, RunTypes DEF PutBack
      <4> QED
        BY <4>1, <4>2
    <3> QED
      BY <1>2, <3>5 DEF LoadText, TypeOK
  <2>3. CASE /\ sess.start # None /\ now >= Closes(sess.start, d)
             /\ wk' = [wk EXCEPT ![w].pc = Loaded(d), ![w].start = sess.start,
                          ![w].status = sess.status, ![w].saw = draft[d].text]
             /\ UNCHANGED job
    <3>1. Loaded(d) \in {"creating", "marking"} /\ draft[d].text \in Nat
          /\ sess.start \in Instants \cup {None} /\ sess.status \in Statuses
      BY <1>0 DEF Loaded, TypeOK, Draft, Session
    <3>2. [wk[w] EXCEPT !.pc = Loaded(d), !.start = sess.start,
             !.status = sess.status, !.saw = draft[d].text] \in WorkerMem
      BY <3>1 DEF TypeOK, WorkerMem
    <3>3. wk' \in [Workers -> WorkerMem]
      BY <2>3, <3>2 DEF TypeOK
    <3> QED
      BY <1>2, <2>3, <3>3 DEF LoadText, TypeOK
  <2> QED
    BY <1>2, <2>1, <2>2, <2>3 DEF LoadText
<1>3. CASE FinalizeText(w, d)
  <2>1. wk' \in [Workers -> WorkerMem] /\ job' \in [ClosedDays -> Job]
    BY <1>3, RunTypes DEF FinalizeText, TypeOK
  <2>2. sub' \in [Days -> Submission]
    BY <1>3 DEF FinalizeText, TypeOK, Submission, Sources, WorkerMem
  <2> QED
    BY <1>3, <2>1, <2>2 DEF FinalizeText, TypeOK
<1>4. CASE MarkDraft(w, d)
  <2>1. draft' \in [Days -> Draft]
    BY <1>4 DEF MarkDraft, TypeOK, Draft
  <2> QED
    BY <1>4, <2>1, RunTypes DEF MarkDraft, TypeOK
<1>5. CASE FinishText(w, d)
  <2>1. sess' \in Session
    BY <1>5 DEF FinishText, Progress, TypeOK, Session, Statuses
  <2> QED
    BY <1>5, <2>1, RunTypes DEF FinishText, TypeOK
<1>6. CASE LoadCode(w, d)
  <2>1. wk' \in [Workers -> WorkerMem] /\ job' \in [ClosedDays -> Job]
    BY <1>6, RunTypes DEF LoadCode, TypeOK
  <2> QED
    BY <1>6, <2>1 DEF LoadCode, TypeOK
<1>7. CASE Revoke(w, d)
  <2>1. wk' \in [Workers -> WorkerMem] /\ job' \in [ClosedDays -> Job]
    BY <1>7, RunTypes DEF Revoke, TypeOK
  <2>2. \A e \in CodeDays : [repo.row[e] EXCEPT !.cut = TRUE] \in Workspace
    BY DEF TypeOK, Repo, Workspace
  <2>3. repo \in Repo
    BY DEF TypeOK
  <2>4. [repo.row EXCEPT ![RowDay(d)].cut = TRUE] \in [CodeDays -> Workspace]
    BY <2>2, <2>3 DEF Repo
  <2>5. [repo EXCEPT !.collab = FALSE, !.row[RowDay(d)].cut = TRUE] \in Repo
    BY <2>3, <2>4 DEF Repo
  <2>6. repo' \in Repo
    BY <1>7, <2>3, <2>5 DEF Revoke
  <2> QED
    BY <1>7, <2>1, <2>6 DEF Revoke, TypeOK
<1>8. CASE RecordRevocation(w, d)
  <2>1. \A e \in CodeDays : [repo.row[e] EXCEPT !.revoked = wk[w].due] \in Workspace
    BY DEF TypeOK, Repo, Workspace, WorkerMem
  <2>2. repo' \in Repo
    BY <1>8, <2>1 DEF RecordRevocation, TypeOK, Repo
  <2> QED
    BY <1>8, <2>2, RunTypes DEF RecordRevocation, TypeOK
<1>9. CASE ReadHead(w, d)
  <2>1. [wk[w] EXCEPT !.pc = "auditing", !.head = repo.head] \in WorkerMem
    BY DEF TypeOK, WorkerMem, Repo
  <2>2. wk' \in [Workers -> WorkerMem] /\ job' \in [ClosedDays -> Job]
    BY <1>9, <2>1, RunTypes DEF ReadHead, TypeOK
  <2> QED
    BY <1>9, <2>2 DEF ReadHead, TypeOK
<1>10. CASE CreateAudit(w, d)
  <2>1. audit' \in [CodeDays -> Nat \cup {None}]
    BY <1>10 DEF CreateAudit, TypeOK, WorkerMem
  <2> QED
    BY <1>10, <2>1, RunTypes DEF CreateAudit, TypeOK
<1>11. CASE VerifyRescheduled(w, d)
  <2>1. wk' \in [Workers -> WorkerMem] /\ job' \in [ClosedDays -> Job]
    BY <1>11, RunTypes DEF VerifyRescheduled, TypeOK
  <2> QED
    BY <1>11, <2>1 DEF VerifyRescheduled, TypeOK
<1> QED
  BY <1>1, <1>2, <1>3, <1>4, <1>5, <1>6, <1>7, <1>8, <1>9, <1>10, <1>11
  DEF WorkerStep

LEMMA NextType == TypeOK /\ [Next]_vars => TypeOK'
<1> SUFFICES ASSUME TypeOK, [Next]_vars PROVE TypeOK'
  OBVIOUS
<1>1. CASE Tick
  BY <1>1, ConstantAssumption DEF Tick, TypeOK, Instants
<1>2. CASE Push
  BY <1>2 DEF Push, TypeOK, Repo
<1>3. ASSUME NEW d \in Days, CompleteUpload(d)
      PROVE  TypeOK'
  <2>1. sub' \in [Days -> Submission]
    BY <1>3 DEF CompleteUpload, TypeOK, Submission, Sources
  <2> QED
    BY <1>3, <2>1 DEF CompleteUpload, TypeOK
<1>4. ASSUME NEW w \in Workers, Crash(w)
      PROVE  TypeOK'
  BY <1>4, RunTypes DEF Crash, TypeOK
<1>5. CASE UNCHANGED vars
  BY <1>5 DEF vars, TypeOK
<1> QED
  BY <1>1, <1>2, <1>3, <1>4, <1>5, SessionTypes, RequestStepTypes, WorkerStepTypes
     DEF Next

\* Type correctness.
THEOREM TypeSafe == Spec => []TypeOK
BY InitType, NextType, PTL DEF Spec

-----------------------------------------------------------------------------
(* The submissions' invariant *)

\* Submissions do not disappear and drafts only grow.
Grows ==
  \A d \in Days : /\ d \in Submitted => sub'[d].source # "none"
                  /\ draft[d].text <= draft'[d].text

LEMMA Monotone == Grows => Submitted \subseteq Submitted'
BY DEF Grows, Submitted

\* What was found out is still so after other steps.
LEMMA Remembered ==
  ASSUME TypeOK, TypeOK', Submissions, Grows,
         \A r \in Requests : rq'[r] = rq[r] \/ SubmissionRequest(rq'[r])
                             \/ SubmissionRequest(rq[r])',
         \A w \in Workers : wk'[w] = wk[w] \/ SubmissionRun(wk'[w])
                            \/ SubmissionRun(wk[w])'
  PROVE  /\ \A r \in Requests : SubmissionRequest(rq[r])'
         /\ \A w \in Workers : SubmissionRun(wk[w])'
<1>1. Submitted \subseteq Submitted'
  BY Monotone
<1>2. ASSUME NEW r \in Requests PROVE SubmissionRequest(rq[r])'
  <2>1. SubmissionRequest(rq'[r]) => SubmissionRequest(rq[r])'
    BY <1>1 DEF SubmissionRequest
  <2>2. SubmissionRequest(rq[r])
    BY DEF Submissions
  <2> QED
    BY <2>1, <2>2
<1>3. ASSUME NEW w \in Workers PROVE SubmissionRun(wk[w])'
  <2>1. ASSUME SubmissionRun(wk'[w]) PROVE SubmissionRun(wk[w])'
    <3>1. CASE wk'[w].pc = "creating"
      <4>1. wk'[w].day \in Days /\ wk'[w].saw <= draft[wk'[w].day].text
        BY <2>1, <3>1, DayTypes DEF SubmissionRun
      <4>2. /\ wk'[w].saw \in Nat
            /\ draft[wk'[w].day].text \in Nat /\ draft'[wk'[w].day].text \in Nat
        BY <4>1 DEF TypeOK, WorkerMem, Draft
      <4>3. wk'[w].saw <= draft'[wk'[w].day].text
        BY <4>1, <4>2 DEF Grows
      <4> QED
        BY <2>1, <3>1, <4>3 DEF SubmissionRun
    <3>2. CASE wk'[w].pc # "creating"
      BY <1>1, <2>1, <3>2 DEF SubmissionRun
    <3> QED
      BY <3>1, <3>2
  <2>2. SubmissionRun(wk[w])
    BY DEF Submissions
  <2> QED
    BY <2>1, <2>2
<1> QED
  BY <1>2, <1>3

\* A step that writes neither a submission nor a draft.
LEMMA Quiet ==
  ASSUME TypeOK, TypeOK', Submissions, UNCHANGED <<sub, draft>>,
         sess'.status = "completed" => sess.status = "completed" \/ Submitted = Days,
         \A r \in Requests : rq'[r] = rq[r] \/ SubmissionRequest(rq'[r])
                             \/ SubmissionRequest(rq[r])',
         \A w \in Workers : wk'[w] = wk[w] \/ SubmissionRun(wk'[w])
                            \/ SubmissionRun(wk[w])'
  PROVE  Submissions'
<1>1. Grows
  BY DEF Grows, Submitted, TypeOK, Draft
<1>2. Submitted' = Submitted
  BY DEF Submitted
<1>3. HandoffOK' /\ InOrder' /\ CompletedHasAll' /\ DraftsSettled'
  BY <1>2 DEF Submissions, HandoffOK, InOrder, CompletedHasAll, DraftsSettled
<1> QED
  BY <1>1, <1>3, Remembered DEF Submissions

\* Everything is submitted where the progress says so, whatever start it uses.
LEMMA ProgressIsTrue == \A s : IsComplete(s) => Submitted = Days
BY DEF IsComplete, Counted, Submitted

LEMMA NoOneRemembers == SubmissionRequest(NoRequest) /\ SubmissionRun(NoRun)
BY DEF SubmissionRequest, SubmissionRun, NoRequest, NoRun

LEMMA InitSubmissions == Init => Submissions
<1> SUFFICES ASSUME Init PROVE Submissions
  OBVIOUS
<1>1. (\A r \in Requests : SubmissionRequest(rq[r]))
      /\ (\A w \in Workers : SubmissionRun(wk[w]))
  BY NoOneRemembers DEF Init
<1>2. Submitted = {}
  BY DEF Init, Submitted, NoSubmission
<1>3. HandoffOK /\ InOrder /\ CompletedHasAll /\ DraftsSettled
  BY DayTypes, <1>2 DEF Init, HandoffOK, InOrder, CompletedHasAll, DraftsSettled,
     NoSubmission
<1> QED
  BY <1>1, <1>3 DEF Submissions

LEMMA SessionSubmissions ==
  ASSUME TypeOK, TypeOK', Submissions,
         Tick \/ Push \/ Claim \/ FetchOwned \/ Schedule \/ AdminReset \/ GetCurrentTask
  PROVE  Submissions'
<1>1. UNCHANGED <<sub, draft, rq, wk>>
  BY DEF Tick, Push, Claim, FetchOwned, Schedule, AdminReset, GetCurrentTask
<1>2. sess \in Session
  BY DEF TypeOK
<1>3. sess'.status = "completed" => sess.status = "completed" \/ Submitted = Days
  <2>1. CASE Tick \/ Push
    BY <2>1 DEF Tick, Push
  <2>4. CASE Claim
    BY <1>2, <2>4 DEF Claim, Session
  <2>5. CASE FetchOwned \/ Schedule
    BY <1>2, <2>5 DEF FetchOwned, Schedule, Session
  <2>2. CASE AdminReset
    <3>1. sess'.status \in {"not_started", "in_progress"}
      <4>1. CASE sess' = [status |-> "not_started", claimed |-> FALSE,
                          user |-> FALSE, start |-> None]
        BY <4>1
      <4>2. ASSUME NEW st \in {"not_started", "in_progress"},
                   sess' = [sess EXCEPT !.status = st, !.start = None]
            PROVE  sess'.status \in {"not_started", "in_progress"}
        BY <1>2, <4>2 DEF Session
      <4> QED
        BY <2>2, <4>1, <4>2 DEF AdminReset
    <3> QED
      BY <3>1
  <2>3. CASE GetCurrentTask
    BY <2>3, ProgressIsTrue DEF GetCurrentTask
  <2> QED
    BY <2>1, <2>2, <2>3, <2>4, <2>5
<1> QED
  BY <1>1, <1>3, Quiet

\* The current task is the first open one, or a handoff that may be repeated.
LEMMA CurrentIsFirst ==
  ASSUME NEW s, NEW d \in Days, IsCurrent(s, d), d \notin Counted(s)
  PROVE  \A e \in Days : e < d => e \in Submitted
<1>1. FirstOpen(s, d)
  BY DEF IsCurrent, Revisited
<1>2. ASSUME NEW e \in Days, e < d PROVE e \in Counted(s)
  <2>1. e \notin Counted(s) => d <= e
    BY <1>1 DEF FirstOpen
  <2>2. d \in Int /\ e \in Int
    BY DayTypes
  <2> QED
    BY <1>2, <2>1, <2>2
<1> QED
  BY <1>2 DEF Counted

\* A request that writes only its own memory.
LEMMA OneRequest ==
  ASSUME TypeOK, TypeOK', Submissions, NEW r \in Requests, NEW m \in RequestMem,
         rq' = [rq EXCEPT ![r] = m], SubmissionRequest(m),
         UNCHANGED <<sub, draft, wk>>,
         sess'.status = "completed" => sess.status = "completed"
  PROVE  Submissions'
<1>1. \A q \in Requests : rq'[q] = rq[q] \/ SubmissionRequest(rq'[q])
  BY DEF TypeOK
<1> QED
  BY <1>1, Quiet

LEMMA RequestSubmissions ==
  ASSUME TypeOK, TypeOK', Submissions, NEW r \in Requests,
         \/ \E d \in Days : BeginDraft(r, d) \/ BeginSubmit(r, d) \/ BeginInit(r, d)
         \/ GateCode(r) \/ Grant(r) \/ Bootstrap(r) \/ StoreRow(r) \/ Abandon(r)
  PROVE  Submissions'
<1>0. rq \in [Requests -> RequestMem] /\ SubmissionRequest(rq[r])
  BY DEF TypeOK, Submissions
<1>1. ASSUME NEW d \in Days, BeginDraft(r, d) \/ BeginInit(r, d)
      PROVE  Submissions'
  <2>1. PICK pc \in {"drafting", "granting"} : \E saw : Begins(r, d, pc, saw)
    BY <1>1 DEF BeginDraft, BeginInit
  <2>2. \A q \in Requests : rq'[q] = rq[q] \/ SubmissionRequest(rq'[q])
    BY <1>0, <2>1 DEF Begins, SubmissionRequest
  <2>3. UNCHANGED <<sess, sub, draft, wk>>
    BY <1>1 DEF BeginDraft, BeginInit
  <2> QED
    BY <2>2, <2>3, Quiet
<1>2. ASSUME NEW d \in Days, BeginSubmit(r, d)
      PROVE  Submissions'
  <2>1. \A e \in Days : e < d => e \in Submitted
    BY <1>2, CurrentIsFirst DEF BeginSubmit
  <2>2. PICK pc \in {"gating", "creating"} : Begins(r, d, pc, 0)
    BY <1>2 DEF BeginSubmit
  <2>3. \A q \in Requests : rq'[q] = rq[q] \/ SubmissionRequest(rq'[q])
    BY <1>0, <2>1, <2>2 DEF Begins, SubmissionRequest
  <2>4. UNCHANGED <<sess, sub, draft, wk>>
    BY <1>2 DEF BeginSubmit
  <2> QED
    BY <2>3, <2>4, Quiet
<1>3. CASE GateCode(r) \/ Grant(r) \/ Bootstrap(r) \/ StoreRow(r) \/ Abandon(r)
  <2>1. UNCHANGED <<sub, draft, wk>> /\ sess'.status = sess.status
    BY <1>3 DEF GateCode, Grant, Bootstrap, StoreRow, Abandon, TypeOK, Session
  <2>2. \/ Ends(r)
        \/ rq[r].pc = "gating" /\ GoesOn(r, "creating")
        \/ rq[r].pc = "granting" /\ GoesOn(r, "storing")
    BY <1>3 DEF GateCode, Grant, Bootstrap, StoreRow, Abandon
  <2>3. \A q \in Requests : rq'[q] = rq[q] \/ SubmissionRequest(rq'[q])
    BY <1>0, <2>2, NoOneRemembers DEF Ends, GoesOn, SubmissionRequest, RequestMem
  <2> QED
    BY <2>1, <2>3, Quiet
<1> QED
  BY <1>1, <1>2, <1>3

LEMMA SaveSubmissions ==
  ASSUME TypeOK, TypeOK', Submissions, NEW r \in Requests, WriteDraft(r)
  PROVE  Submissions'
<1>1. UNCHANGED <<sub, sess, wk>> /\ Ends(r)
  BY DEF WriteDraft
<1>2. \A d \in Days : /\ draft[d].text \in Nat /\ draft'[d].text \in Nat
                      /\ sub[d].text \in Nat
                      /\ draft[d].text <= draft'[d].text
                      /\ draft'[d].final = draft[d].final
  BY DEF WriteDraft, TypeOK, Draft, Submission
<1>3. Grows /\ Submitted' = Submitted
  BY <1>1, <1>2 DEF Grows, Submitted
<1>4. HandoffOK' /\ InOrder' /\ CompletedHasAll'
  BY <1>1, <1>3 DEF Submissions, HandoffOK, InOrder, CompletedHasAll
<1>5. DraftsSettled'
  BY <1>1, <1>2, <1>3 DEF Submissions, DraftsSettled
<1>6. \A q \in Requests : rq'[q] = rq[q] \/ SubmissionRequest(rq'[q])
  BY <1>1, NoOneRemembers DEF Ends, TypeOK
<1> QED
  BY <1>1, <1>3, <1>4, <1>5, <1>6, Remembered DEF Submissions

\* A step that changes one submission.
LEMMA OneSubmission ==
  ASSUME TypeOK, TypeOK', Submissions, UNCHANGED <<draft, sess>>,
         NEW d \in Days, sub' = [sub EXCEPT ![d] = sub'[d]],
         sub'[d].source # "none", sub'[d].text <= draft[d].text,
         d \in HandoffDays => sub'[d].source = "candidate",
         d \notin HandoffDays /\ sub'[d].source = "candidate" =>
           \A e \in Days : e < d => e \in Submitted
  PROVE  Grows /\ HandoffOK' /\ InOrder' /\ CompletedHasAll' /\ DraftsSettled'
<1>1. \A e \in Days : e # d => sub'[e] = sub[e]
  BY DEF TypeOK
<1>2. Grows
  BY <1>1 DEF Grows, Submitted, TypeOK, Draft
<1>3. Submitted' = Submitted \cup {d}
  BY <1>1 DEF Submitted
<1>4. HandoffOK'
  BY <1>1, DayTypes DEF Submissions, HandoffOK
<1>5. InOrder'
  <2> SUFFICES ASSUME NEW a \in Days, NEW b \in Days, b < a, a \notin HandoffDays,
                      sub'[a].source = "candidate"
               PROVE  b \in Submitted'
    BY DEF InOrder, Submitted
  <2>1. CASE a = d
    BY <1>3, <2>1
  <2>2. CASE a # d
    BY <1>1, <1>3, <2>2 DEF Submissions, InOrder, Submitted
  <2> QED
    BY <2>1, <2>2
<1>6. CompletedHasAll'
  BY <1>3 DEF Submissions, CompletedHasAll
<1>7. DraftsSettled'
  BY <1>1, <1>3 DEF Submissions, DraftsSettled
<1> QED
  BY <1>2, <1>4, <1>5, <1>6, <1>7

LEMMA SubmitSubmissions ==
  ASSUME TypeOK, TypeOK', Submissions, NEW r \in Requests, CreateSubmission(r)
  PROVE  Submissions'
<1>0. rq \in [Requests -> RequestMem] /\ SubmissionRequest(rq[r])
  BY DEF TypeOK, Submissions
<1>1. rq[r].day \in Days /\ \A e \in Days : e < rq[r].day => e \in Submitted
  BY <1>0 DEF CreateSubmission, SubmissionRequest
<1>2. CASE sub[rq[r].day].source = "none"
  <2>1. sub' = [sub EXCEPT ![rq[r].day].source = "candidate"] /\ GoesOn(r, "marking")
    BY <1>2 DEF CreateSubmission
  <2>2. /\ sub' = [sub EXCEPT ![rq[r].day] = sub'[rq[r].day]]
        /\ sub'[rq[r].day].source = "candidate"
        /\ sub'[rq[r].day].text = sub[rq[r].day].text
    BY <1>1, <2>1 DEF TypeOK, Submission
  <2>3. UNCHANGED <<draft, sess, wk>>
    BY DEF CreateSubmission
  <2>4. sub'[rq[r].day].text <= draft[rq[r].day].text
    BY <1>1, <2>2 DEF Submissions, DraftsSettled
  <2>5. Grows /\ HandoffOK' /\ InOrder' /\ CompletedHasAll' /\ DraftsSettled'
    BY <1>1, <2>2, <2>3, <2>4, OneSubmission
  <2>6. SubmissionRequest(rq[r])'
    BY <1>0, <1>1, <2>1, <2>2 DEF GoesOn, SubmissionRequest, Submitted, RequestMem
  <2>7. \A q \in Requests : rq'[q] = rq[q] \/ SubmissionRequest(rq[q])'
    BY <1>0, <2>1, <2>6 DEF GoesOn
  <2> QED
    BY <2>3, <2>5, <2>7, Remembered DEF Submissions
<1>3. CASE sub[rq[r].day].source # "none"
  BY <1>0, <1>3, NoOneRemembers, Quiet DEF CreateSubmission, Ends
<1> QED
  BY <1>2, <1>3

\* A draft is closed when its task has a submission.
LEMMA CloseDraft ==
  ASSUME TypeOK, TypeOK', Submissions, NEW d \in Submitted, UNCHANGED sub,
         draft' = [draft EXCEPT ![d].final = TRUE] \/ draft' = draft,
         sess'.status = "completed" => sess.status = "completed" \/ Submitted = Days
  PROVE  Grows /\ HandoffOK' /\ InOrder' /\ CompletedHasAll' /\ DraftsSettled'
<1>1. \A e \in Days : /\ draft'[e].text = draft[e].text
                      /\ draft'[e].final => draft[e].final \/ e = d
                      /\ draft[e].text \in Nat
  BY DEF TypeOK, Draft
<1>2. Submitted' = Submitted
  BY DEF Submitted
<1>3. Grows
  BY <1>1 DEF Grows, Submitted
<1>4. HandoffOK' /\ InOrder' /\ CompletedHasAll' /\ DraftsSettled'
  BY <1>1, <1>2 DEF Submissions, HandoffOK, InOrder, CompletedHasAll, DraftsSettled
<1> QED
  BY <1>3, <1>4

LEMMA FinishSubmissions ==
  ASSUME TypeOK, TypeOK', Submissions, NEW r \in Requests, FinishSubmit(r)
  PROVE  Submissions'
<1>1. rq[r].day \in Submitted
  BY DEF Submissions, SubmissionRequest, FinishSubmit
<1>2. sess'.status = "completed" => sess.status = "completed" \/ Submitted = Days
  BY ProgressIsTrue DEF FinishSubmit, Progress
<1>3. draft' = [draft EXCEPT ![rq[r].day].final = TRUE] \/ draft' = draft
  BY DEF FinishSubmit
<1>4. UNCHANGED <<sub, wk>> /\ Ends(r)
  BY DEF FinishSubmit
<1>5. Grows /\ HandoffOK' /\ InOrder' /\ CompletedHasAll' /\ DraftsSettled'
  BY <1>1, <1>2, <1>3, <1>4, CloseDraft
<1>6. \A q \in Requests : rq'[q] = rq[q] \/ SubmissionRequest(rq'[q])
  BY <1>4, NoOneRemembers DEF Ends, TypeOK
<1> QED
  BY <1>4, <1>5, <1>6, Remembered DEF Submissions

LEMMA UploadSubmissions ==
  ASSUME TypeOK, TypeOK', Submissions, NEW d \in Days, CompleteUpload(d)
  PROVE  Submissions'
<1>1. /\ sub' = [sub EXCEPT ![d] = sub'[d]]
      /\ sub'[d].source = "candidate" /\ sub'[d].text = sub[d].text
  BY DEF CompleteUpload, TypeOK, Submission
<1>2. d \in HandoffDays /\ UNCHANGED <<draft, sess, rq, wk>>
  BY DEF CompleteUpload
<1>3. sub'[d].text <= draft[d].text
  BY <1>1 DEF Submissions, DraftsSettled
<1>4. Grows /\ HandoffOK' /\ InOrder' /\ CompletedHasAll' /\ DraftsSettled'
  BY <1>1, <1>2, <1>3, OneSubmission
<1> QED
  BY <1>2, <1>4, Remembered DEF Submissions

\* What a run remembers when it ends or goes on.
LEMMA RunEnds ==
  ASSUME TypeOK, NEW w \in Workers, Idles(w) \/ Succeed(w) \/ Fail(w)
  PROVE  \A v \in Workers : wk'[v] = wk[v] \/ SubmissionRun(wk'[v])
BY NoOneRemembers DEF Succeed, Fail, Idles, TypeOK

LEMMA RunGoes ==
  ASSUME TypeOK, NEW w \in Workers,
         NEW pc \in {"requeued", "progressing", "revoking", "recording", "heading"},
         RunGoesOn(w, pc)
  PROVE  \A v \in Workers : wk'[v] = wk[v] \/ SubmissionRun(wk'[v])
BY DEF RunGoesOn, TypeOK, WorkerMem, SubmissionRun

LEMMA WorkerSubmissions ==
  ASSUME TypeOK, TypeOK', Submissions, NEW w \in Workers, NEW d \in ClosedDays,
         StartRun(w, d) \/ WorkerStep(w, d)
  PROVE  Submissions'
<1>0. d \in Days /\ wk \in [Workers -> WorkerMem] /\ SubmissionRun(wk[w])
  BY DayTypes DEF TypeOK, Submissions
<1>1. CASE StartRun(w, d)
  <2>1. \A v \in Workers : wk'[v] = wk[v] \/ SubmissionRun(wk'[v])
    BY <1>0, <1>1 DEF StartRun, SubmissionRun, NoRun
  <2> QED
    BY <1>1, <2>1, Quiet DEF StartRun
<1>2. CASE LoadText(w, d)
  <2>1. UNCHANGED <<sub, draft, sess, rq>>
    BY <1>2 DEF LoadText
  <2>2. CASE Succeed(w) \/ PutBack(w, d)
    <3>1. Succeed(w) \/ Fail(w) \/ RunGoesOn(w, "requeued")
      BY <2>2 DEF PutBack
    <3> QED
      BY <2>1, <3>1, RunEnds, RunGoes, Quiet
  <2>3. CASE wk' = [wk EXCEPT ![w].pc = Loaded(d), ![w].start = sess.start,
                              ![w].status = sess.status, ![w].saw = draft[d].text]
    <3>1. wk[w].day = d
      BY <1>2 DEF LoadText, Runs
    <3>2. /\ wk'[w].pc = Loaded(d) /\ wk'[w].saw = draft[d].text /\ wk'[w].day = d
          /\ \A v \in Workers : v # w => wk'[v] = wk[v]
      BY <1>0, <2>3, <3>1 DEF WorkerMem
    <3>3. draft[d].text \in Nat
      BY <1>0 DEF TypeOK, Draft
    <3>4. SubmissionRun(wk'[w])
      BY <1>0, <3>2, <3>3 DEF SubmissionRun, Loaded, Submitted
    <3> QED
      BY <2>1, <3>2, <3>4, Quiet
  <2> QED
    BY <1>2, <2>2, <2>3 DEF LoadText
<1>3. CASE FinalizeText(w, d)
  <2>1. wk[w].pc = "creating" /\ wk[w].day = d /\ UNCHANGED <<draft, sess, rq>>
    BY <1>3 DEF FinalizeText, Runs
  <2>2. CASE sub[d].source = "none"
    <3>1. /\ sub' = [sub EXCEPT ![d] =
               [source |-> IF wk[w].saw > 0 THEN "draft" ELSE "no_draft_marker",
                text |-> wk[w].saw]]
          /\ RunGoesOn(w, "marking")
      BY <1>3, <2>2 DEF FinalizeText
    <3>2. /\ sub' = [sub EXCEPT ![d] = sub'[d]]
          /\ sub'[d].source \in {"draft", "no_draft_marker"}
          /\ sub'[d].text = wk[w].saw
      BY <1>0, <3>1 DEF TypeOK
    <3>3. sub'[d].text <= draft[d].text
      BY <1>0, <2>1, <3>2 DEF SubmissionRun
    <3>4. d \notin HandoffDays
      BY DayTypes
    <3>5. Grows /\ HandoffOK' /\ InOrder' /\ CompletedHasAll' /\ DraftsSettled'
      BY <1>0, <2>1, <3>2, <3>3, <3>4, OneSubmission
    <3>6. wk'[w].pc = "marking" /\ wk'[w].day = d
          /\ \A v \in Workers : v # w => wk'[v] = wk[v]
      BY <1>0, <2>1, <3>1 DEF RunGoesOn, WorkerMem
    <3>7. SubmissionRun(wk[w])'
      BY <1>0, <3>2, <3>6 DEF SubmissionRun, Submitted
    <3> QED
      BY <2>1, <3>5, <3>6, <3>7, Remembered DEF Submissions
  <2>3. CASE sub[d].source # "none"
    <3>1. UNCHANGED sub /\ Fail(w)
      BY <1>3, <2>3 DEF FinalizeText
    <3> QED
      BY <2>1, <3>1, RunEnds, Quiet
  <2> QED
    BY <2>2, <2>3
<1>4. CASE MarkDraft(w, d)
  <2>1. d \in Submitted
    BY <1>0, <1>4 DEF MarkDraft, Runs, SubmissionRun
  <2>2. draft' = [draft EXCEPT ![d].final = TRUE] \/ draft' = draft
    BY <1>4 DEF MarkDraft
  <2>3. UNCHANGED <<sub, sess, rq>> /\ RunGoesOn(w, "progressing")
    BY <1>4 DEF MarkDraft
  <2>4. Grows /\ HandoffOK' /\ InOrder' /\ CompletedHasAll' /\ DraftsSettled'
    BY <2>1, <2>2, <2>3, CloseDraft
  <2>5. \A v \in Workers : wk'[v] = wk[v] \/ SubmissionRun(wk'[v])
    BY <2>3, RunGoes
  <2> QED
    BY <2>3, <2>4, <2>5, Remembered DEF Submissions
<1>5. CASE FinishText(w, d)
  <2>1. sess'.status = "completed" => sess.status = "completed" \/ Submitted = Days
    BY <1>5, ProgressIsTrue DEF FinishText, Progress
  <2>2. UNCHANGED <<sub, draft, rq>> /\ Succeed(w)
    BY <1>5 DEF FinishText
  <2> QED
    BY <2>1, <2>2, RunEnds, Quiet
<1>6. CASE LoadCode(w, d) \/ Revoke(w, d) \/ RecordRevocation(w, d) \/ CreateAudit(w, d)
  <2>1. UNCHANGED <<sub, draft, sess, rq>>
    BY <1>6 DEF LoadCode, Revoke, RecordRevocation, CreateAudit
  <2>2. \/ Succeed(w) \/ Fail(w)
        \/ \E pc \in {"revoking", "recording", "heading"} : RunGoesOn(w, pc)
    BY <1>6 DEF LoadCode, Revoke, RecordRevocation, CreateAudit
  <2>3. \A v \in Workers : wk'[v] = wk[v] \/ SubmissionRun(wk'[v])
    BY <2>2, RunEnds, RunGoes
  <2> QED
    BY <2>1, <2>3, Quiet
<1>7. CASE ReadHead(w, d)
  <2>1. UNCHANGED <<sub, draft, sess, rq>>
    BY <1>7 DEF ReadHead
  <2>2. CASE wk' = [wk EXCEPT ![w].pc = "auditing", ![w].head = repo.head]
    <3>1. \A v \in Workers : wk'[v] = wk[v] \/ SubmissionRun(wk'[v])
      BY <1>0, <2>2 DEF SubmissionRun, WorkerMem
    <3> QED
      BY <2>1, <3>1, Quiet
  <2>3. CASE Fail(w)
    BY <2>1, <2>3, RunEnds, Quiet
  <2> QED
    BY <1>7, <2>2, <2>3 DEF ReadHead
<1>8. CASE VerifyRescheduled(w, d)
  <2>1. UNCHANGED <<sub, draft, sess, rq>> /\ (Idles(w) \/ Fail(w))
    BY <1>8 DEF VerifyRescheduled
  <2> QED
    BY <2>1, RunEnds, Quiet
<1> QED
  BY <1>1, <1>2, <1>3, <1>4, <1>5, <1>6, <1>7, <1>8 DEF WorkerStep

LEMMA NextSubmissions == TypeOK /\ Submissions /\ [Next]_vars => Submissions'
<1> SUFFICES ASSUME TypeOK, Submissions, [Next]_vars PROVE Submissions'
  OBVIOUS
<1>0. TypeOK'
  BY NextType
<1>1. CASE UNCHANGED vars
  BY <1>0, <1>1, Quiet DEF vars
<1>2. ASSUME NEW w \in Workers, Crash(w)
      PROVE  Submissions'
  BY <1>0, <1>2, RunEnds, Quiet DEF Crash
<1> QED
  BY <1>0, <1>1, <1>2, SessionSubmissions, RequestSubmissions, SaveSubmissions,
     SubmitSubmissions, FinishSubmissions, UploadSubmissions, WorkerSubmissions
     DEF Next

LEMMA SubmissionsInvariant == Spec => [](TypeOK /\ Submissions)
BY InitType, InitSubmissions, NextType, NextSubmissions, PTL DEF Spec

\* What a candidate submits comes in the order of the days.
THEOREM InTheirOrder == Spec => []InOrder
<1>1. Submissions => InOrder
  BY DEF Submissions
<1> QED
  BY <1>1, SubmissionsInvariant, PTL

\* A session is completed only with a submission of every task.
THEOREM CompletionIsEarned == Spec => []CompletedHasAll
<1>1. Submissions => CompletedHasAll
  BY DEF Submissions
<1> QED
  BY <1>1, SubmissionsInvariant, PTL

\* Only a submission of its task closes a draft, and an automatic submission
\* holds a version of the draft that was saved.
THEOREM DraftsAreSettled == Spec => []DraftsSettled
<1>1. Submissions => DraftsSettled
  BY DEF Submissions
<1> QED
  BY <1>1, SubmissionsInvariant, PTL

-----------------------------------------------------------------------------
(* Records stay *)

LEMMA NextStays ==
  TypeOK /\ Submissions /\ [Next]_vars =>
    /\ \A d \in CodeDays : audit[d] # None => audit'[d] = audit[d]
    /\ \A d \in Days : sub[d].source # "none" => sub'[d] = sub[d]
<1> SUFFICES ASSUME TypeOK, Submissions, [Next]_vars
             PROVE  /\ \A d \in CodeDays : audit[d] # None => audit'[d] = audit[d]
                    /\ \A d \in Days : sub[d].source # "none" => sub'[d] = sub[d]
  OBVIOUS
<1>1. ASSUME NEW d \in Days, CompleteUpload(d)
      PROVE  UNCHANGED audit /\ \A e \in Days : sub[e].source # "none" => sub'[e] = sub[e]
  <2>1. d \in HandoffDays /\ UNCHANGED audit
        /\ sub' = [sub EXCEPT ![d].source = "candidate"]
    BY <1>1 DEF CompleteUpload
  <2>2. sub[d].source # "none" => sub[d].source = "candidate"
    BY <2>1 DEF Submissions, HandoffOK
  <2>3. sub[d].source # "none" => sub'[d] = sub[d]
    BY <2>1, <2>2 DEF TypeOK, Submission
  <2> QED
    BY <2>1, <2>3 DEF TypeOK
<1>2. ASSUME NEW r \in Requests, CreateSubmission(r)
      PROVE  UNCHANGED audit /\ \A e \in Days : sub[e].source # "none" => sub'[e] = sub[e]
  BY <1>2 DEF CreateSubmission, TypeOK
<1>3. ASSUME NEW w \in Workers, NEW d \in ClosedDays, FinalizeText(w, d)
      PROVE  UNCHANGED audit /\ \A e \in Days : sub[e].source # "none" => sub'[e] = sub[e]
  BY <1>3 DEF FinalizeText, TypeOK
<1>4. ASSUME NEW w \in Workers, NEW d \in ClosedDays, CreateAudit(w, d)
      PROVE  UNCHANGED sub /\ \A e \in CodeDays : audit[e] # None => audit'[e] = audit[e]
  BY <1>4 DEF CreateAudit, TypeOK
<1>5. ASSUME NEW r \in Requests,
             \/ \E d \in Days : BeginDraft(r, d) \/ BeginSubmit(r, d) \/ BeginInit(r, d)
             \/ WriteDraft(r) \/ GateCode(r) \/ FinishSubmit(r)
             \/ Grant(r) \/ Bootstrap(r) \/ StoreRow(r) \/ Abandon(r)
      PROVE  UNCHANGED <<sub, audit>>
  BY <1>5 DEF BeginDraft, BeginSubmit, BeginInit, WriteDraft, GateCode,
              FinishSubmit, Grant, Bootstrap, StoreRow, Abandon
<1>6. ASSUME NEW w \in Workers, NEW d \in ClosedDays,
             \/ StartRun(w, d) \/ LoadText(w, d) \/ VerifyRescheduled(w, d)
             \/ MarkDraft(w, d) \/ FinishText(w, d) \/ LoadCode(w, d) \/ Revoke(w, d)
             \/ RecordRevocation(w, d) \/ ReadHead(w, d)
      PROVE  UNCHANGED <<sub, audit>>
  BY <1>6 DEF StartRun, LoadText, VerifyRescheduled, MarkDraft, FinishText, LoadCode, Revoke,
              RecordRevocation, ReadHead
<1>7. CASE Tick \/ Claim \/ FetchOwned \/ Schedule \/ AdminReset \/ GetCurrentTask
           \/ Push \/ (\E w \in Workers : Crash(w)) \/ UNCHANGED vars
  BY <1>7 DEF Tick, Claim, FetchOwned, Schedule, AdminReset, GetCurrentTask,
              Push, Crash, vars
<1> QED
  BY <1>1, <1>2, <1>3, <1>4, <1>5, <1>6, <1>7 DEF Next, WorkerStep

\* Cutoffs and submissions are written once.
THEOREM RecordsAreFinal == Spec => RecordsStay
<1>1. TypeOK /\ Submissions /\ [Next]_vars =>
        [/\ \A d \in CodeDays : audit[d] # None => audit'[d] = audit[d]
         /\ \A d \in Days : sub[d].source # "none" => sub'[d] = sub[d]]_vars
  BY NextStays
<1> QED
  BY <1>1, SubmissionsInvariant, PTL DEF Spec, RecordsStay

-----------------------------------------------------------------------------
(* The cutoffs' invariant *)

LEMMA RowDays ==
  /\ \A d \in CodeDays : RowDay(d) \in CodeDays
  /\ Grouped => \A d, e \in CodeDays : RowDay(d) = RowDay(e)
  /\ ~Grouped => \A d \in CodeDays : RowDay(d) = d
<1>1. ASSUME CodeDays # {} PROVE \E e \in CodeDays : FirstCode(e)
  <2>1. CASE 2 \in CodeDays
    BY <2>1, DayTypes DEF FirstCode
  <2>2. CASE 2 \notin CodeDays
    <3>1. CodeDays = {3}
      BY <1>1, <2>2, DayTypes
    <3> QED
      BY <3>1 DEF FirstCode
  <2> QED
    BY <2>1, <2>2
<1> QED
  BY <1>1 DEF RowDay

\* Of two coding days only one is not the first.
LEMMA LaterDay ==
  ASSUME NEW d \in CodeDays, ~FirstCode(d)
  PROVE  \A e \in CodeDays : e # d => e < d /\ FirstCode(e)
BY DayTypes DEF FirstCode

LEMMA NoOneCuts == CutoffRequest(NoRequest) /\ CutoffRun(NoRun)
BY DEF CutoffRequest, CutoffRun, NoRequest, NoRun

LEMMA InitCutoffs == Init => Cutoffs
<1> SUFFICES ASSUME Init PROVE Cutoffs
  OBVIOUS
<1>1. (\A r \in Requests : CutoffRequest(rq[r])) /\ \A w \in Workers : CutoffRun(wk[w])
  BY NoOneCuts DEF Init
<1>2. ASSUME NEW d \in CodeDays PROVE RowOK(d)
  <2>1. ~Row(d).cut /\ Row(d).revoked = None /\ audit[d] = None
        /\ Row(d).made = (~Grouped /\ FirstCode(RowDay(d)))
    BY RowDays DEF Init, Row
  <2> QED
    BY <2>1, RowDays DEF RowOK
<1> QED
  BY <1>1, <1>2 DEF Cutoffs

\* A step that leaves repository and audits alone.
LEMMA Calm ==
  ASSUME TypeOK, TypeOK', Cutoffs, UNCHANGED <<repo, audit, late>>, now <= now',
         \A r \in Requests : rq'[r] = rq[r] \/ CutoffRequest(rq'[r]),
         \A w \in Workers : wk'[w] = wk[w] \/ CutoffRun(wk'[w])
  PROVE  Cutoffs'
<1>0. now \in Int /\ now' \in Int
  BY DayTypes DEF TypeOK
<1>1. ASSUME NEW r \in Requests PROVE CutoffRequest(rq[r])'
  BY DEF Cutoffs, CutoffRequest
<1>2. ASSUME NEW w \in Workers PROVE CutoffRun(wk[w])'
  <2>1. CutoffRun(wk'[w])
    BY DEF Cutoffs
  <2>2. wk'[w].due \in Int
    BY DEF TypeOK, WorkerMem
  <2> QED
    BY <1>0, <2>1, <2>2 DEF CutoffRun, Reopened, Row
<1>3. ASSUME NEW d \in CodeDays PROVE RowOK(d)'
  <2>1. RowOK(d) /\ Row(d) \in Workspace
    BY RowDays DEF Cutoffs, Row, TypeOK, Repo
  <2>2. Row(d).revoked # None => Row(d).revoked \in Int
    BY <2>1 DEF Workspace
  <2> QED
    BY <1>0, <2>1, <2>2 DEF RowOK, Reopened, Row
<1> QED
  BY <1>1, <1>2, <1>3 DEF Cutoffs

\* A step that changes the repository and keeps what is remembered of it.
LEMMA Kept ==
  ASSUME TypeOK, TypeOK', Cutoffs, now' = now, audit' = audit,
         \A d \in CodeDays :
           /\ Row(d).made => Row(d)'.made
           /\ Row(d).cut => /\ Row(d)'.cut
                            /\ Reopened(d) => Reopened(d)'
                            /\ Reopened(d)' \/ repo'.head = repo.head
           /\ ~Grouped /\ ~FirstCode(d) /\ repo.day = d => repo'.day = d,
         \A r \in Requests : rq'[r] = rq[r] \/ CutoffRequest(rq[r])',
         \A w \in Workers : wk'[w] = wk[w] \/ CutoffRun(wk[w])'
  PROVE  /\ \A r \in Requests : CutoffRequest(rq[r])'
         /\ \A w \in Workers : CutoffRun(wk[w])'
         /\ \A d \in CodeDays :
              audit'[d] # None => Row(d)'.cut /\ (Reopened(d)' \/ audit'[d] = repo'.head)
<1>1. ASSUME NEW r \in Requests PROVE CutoffRequest(rq[r])'
  <2>1. CutoffRequest(rq[r])
    BY DEF Cutoffs
  <2>2. CASE rq'[r] = rq[r]
    BY <2>1, <2>2 DEF CutoffRequest
  <2> QED
    BY <2>2
<1>2. ASSUME NEW w \in Workers PROVE CutoffRun(wk[w])'
  <2>1. CutoffRun(wk[w])
    BY DEF Cutoffs
  <2>2. CASE wk'[w] = wk[w]
    BY <2>1, <2>2 DEF CutoffRun
  <2> QED
    BY <2>2
<1>3. ASSUME NEW d \in CodeDays, audit'[d] # None
      PROVE  Row(d)'.cut /\ (Reopened(d)' \/ audit'[d] = repo'.head)
  BY <1>3 DEF Cutoffs, RowOK
<1> QED
  BY <1>1, <1>2, <1>3

LEMMA GrantCutoffs ==
  ASSUME TypeOK, TypeOK', Cutoffs, NEW r \in Requests, Grant(r)
  PROVE  Cutoffs'
<1>1. PICK c \in {TRUE, repo.collab} : repo' = [repo EXCEPT !.collab = c]
  BY DEF Grant
<1>2. /\ repo'.row = repo.row /\ repo'.day = repo.day /\ repo'.head = repo.head
      /\ \A d \in CodeDays : Row(d)' = Row(d)
  BY <1>1 DEF TypeOK, Repo, Row
<1>3. UNCHANGED <<now, audit, wk>> /\ Ends(r) /\ GivesBack(r)
      /\ rq[r].pc = "granting" /\ Row(rq[r].day).made
  BY DEF Grant
<1>4. \A d \in CodeDays : Reopened(d) => Reopened(d)'
  BY <1>2, <1>3 DEF Reopened, GivesBack
<1>5. \A q \in Requests : rq'[q] = rq[q] \/ CutoffRequest(rq[q])'
  BY <1>3 DEF Ends, TypeOK, NoRequest, CutoffRequest
<1>6. rq[r].day \in CodeDays /\ rq[r].saw = 0
  BY <1>3 DEF Cutoffs, CutoffRequest
<1>7. ASSUME NEW d \in CodeDays PROVE RowOK(d)'
  <2>1. ASSUME Row(d).cut, repo'.collab PROVE Reopened(d)'
    <3>1. CASE \E e \in CodeDays : rq[r].day <= e /\ Row(e).cut
      BY <1>3, <1>6, <2>1, <3>1 DEF GivesBack, Reopened
    <3>2. CASE ~\E e \in CodeDays : rq[r].day <= e /\ Row(e).cut
      <4>1. d \in Int /\ rq[r].day \in Int
        <5>1. CodeDays \subseteq Int
          BY DayTypes
        <5> QED
          BY <1>6, <5>1
      <4>2. d < rq[r].day
        BY <2>1, <3>2, <4>1
      <4>3. ~Grouped
        BY <1>6, <2>1, <3>2, <4>1, RowDays DEF Row
      <4>4. ~FirstCode(rq[r].day)
        BY <4>1, <4>2 DEF FirstCode
      <4>5. repo.day = rq[r].day
        BY <1>3, <1>6, <4>3, <4>4 DEF Cutoffs, RowOK
      <4>6. repo'.day # None /\ repo'.day > d
        BY <1>2, <1>6, <4>1, <4>2, <4>5, DayTypes
      <4> QED
        BY <4>6 DEF Reopened
    <3> QED
      BY <3>1, <3>2
  <2>2. RowOK(d)
    BY DEF Cutoffs
  <2>3. Row(d)'.cut => Row(d)'.made /\ (Reopened(d)' \/ ~repo'.collab)
    BY <1>2, <2>1, <2>2 DEF RowOK
  <2>4. audit'[d] # None => Row(d)'.cut /\ (Reopened(d)' \/ audit'[d] = repo'.head)
    BY <1>2, <1>3, <1>4, <2>2 DEF RowOK
  <2> QED
    BY <1>2, <1>3, <2>2, <2>3, <2>4 DEF RowOK
<1>8. /\ \A q \in Requests : CutoffRequest(rq[q])'
      /\ \A w \in Workers : CutoffRun(wk[w])'
  BY <1>2, <1>3, <1>4, <1>5, Kept
<1> QED
  BY <1>7, <1>8 DEF Cutoffs

\* A first init without a row: of a shared row nothing has been cut yet, and of
\* two rows the other one belongs to the earlier day.
LEMMA BootstrapCutoffs ==
  ASSUME TypeOK, TypeOK', Cutoffs, NEW r \in Requests, Bootstrap(r)
  PROVE  Cutoffs'
<1> DEFINE d0 == rq[r].day
<1>1. UNCHANGED <<now, audit, wk>> /\ rq[r].pc = "granting" /\ ~Row(d0).made
  BY DEF Bootstrap
<1>2. d0 \in CodeDays /\ d0 \in Int /\ d0 # None
  <2>1. d0 \in CodeDays
    BY <1>1 DEF Cutoffs, CutoffRequest
  <2>2. CodeDays \subseteq Int
    BY DayTypes
  <2>3. CodeDays \subseteq Days /\ None \notin Days
    BY DayTypes
  <2> QED
    BY <2>1, <2>2, <2>3
<1>3. CASE Grouped /\ d0 = 3
  <2>1. UNCHANGED <<repo, late>> /\ Ends(r)
    BY <1>3 DEF Bootstrap
  <2>2. \A q \in Requests : rq'[q] = rq[q] \/ CutoffRequest(rq'[q])
    BY <2>1, NoOneCuts DEF Ends, TypeOK
  <2>3. now <= now'
    BY <1>1, DayTypes DEF TypeOK
  <2> QED
    BY <1>1, <2>1, <2>2, <2>3, Calm
<1>4. CASE ~(Grouped /\ d0 = 3)
  <2>1. PICK c \in {TRUE, repo.collab} :
          repo' = [repo EXCEPT !.made = TRUE, !.collab = c, !.day = d0,
                     !.head = IF repo.made THEN @ + 1 ELSE @,
                     !.base = IF repo.made THEN repo.head + 1 ELSE @]
    BY <1>4 DEF Bootstrap
  <2>2. repo'.day = d0 /\ \A d \in CodeDays : Row(d)' = Row(d)
    BY <2>1 DEF TypeOK, Repo, Row
  <2>3. GivesBack(r) /\ GoesOn(r, "storing")
    BY <1>4 DEF Bootstrap
  <2>4. ASSUME NEW d \in CodeDays, Row(d).made
        PROVE  ~Grouped /\ d < d0 /\ FirstCode(d) /\ Reopened(d)'
    <3>1. ~Grouped
      BY <1>1, <1>2, <2>4, RowDays DEF Row
    <3>2. ~FirstCode(d0)
      BY <1>1, <1>2, <3>1 DEF Cutoffs, RowOK
    <3>3. d < d0 /\ FirstCode(d)
      BY <1>1, <1>2, <2>4, <3>2, LaterDay
    <3>4. d \in Int
      BY DayTypes
    <3> QED
      BY <1>2, <2>2, <3>1, <3>3, <3>4 DEF Reopened
  <2>5. \A d \in CodeDays : RowOK(d)
    BY DEF Cutoffs
  <2>6. \A d \in CodeDays : ~Grouped /\ ~FirstCode(d) => d = d0
    <3> SUFFICES ASSUME NEW d \in CodeDays, ~Grouped, ~FirstCode(d) PROVE d = d0
      OBVIOUS
    <3>1. ~FirstCode(d0)
      BY <1>1, <1>2, <2>5 DEF RowOK
    <3> QED
      BY <1>2, <3>1, LaterDay
  <2>7. ASSUME NEW q \in Requests PROVE CutoffRequest(rq[q])'
    <3>1. CASE q = r
      <4>1. rq'[q].day = d0 /\ rq'[q].pc = "storing"
        BY <2>3, <3>1 DEF GoesOn, TypeOK, RequestMem
      <4>2. ~Grouped => ~FirstCode(d0)
        BY <1>1, <1>2, <2>5 DEF RowOK
      <4> QED
        BY <1>2, <2>2, <4>1, <4>2 DEF CutoffRequest
    <3>2. CASE q # r
      <4>1. rq'[q] = rq[q]
        BY <2>3, <3>2 DEF GoesOn, TypeOK
      <4>2. CutoffRequest(rq[q])
        BY DEF Cutoffs
      <4> QED
        BY <2>2, <2>6, <4>1, <4>2 DEF CutoffRequest
    <3> QED
      BY <3>1, <3>2
  <2>8. ASSUME NEW d \in CodeDays PROVE RowOK(d)'
    <3>1. RowOK(d)
      BY <2>5
    <3>2. Row(d)'.cut => Row(d)'.made /\ Reopened(d)'
      BY <2>2, <2>4, <3>1 DEF RowOK
    <3>3. ~Grouped => IF FirstCode(d) THEN Row(d)'.made
                                      ELSE Row(d)'.made => repo'.day = d
      BY <2>2, <2>6, <3>1 DEF RowOK
    <3>4. audit'[d] # None => Row(d)'.cut
      BY <1>1, <2>2, <3>1 DEF RowOK
    <3> QED
      BY <1>1, <2>2, <3>1, <3>2, <3>3, <3>4 DEF RowOK
  <2>9. \A d \in CodeDays : Row(d).cut => Reopened(d)'
    BY <2>4, <2>5 DEF RowOK
  <2>10. \A w \in Workers : CutoffRun(wk[w])'
    <3>1. \A d \in CodeDays : ~Grouped /\ ~FirstCode(d) /\ repo.day = d => repo'.day = d
      BY <2>2, <2>6
    <3> QED
      BY <1>1, <2>2, <2>7, <2>9, <3>1, Kept
  <2> QED
    BY <2>7, <2>8, <2>10 DEF Cutoffs
<1> QED
  BY <1>3, <1>4

LEMMA StoreCutoffs ==
  ASSUME TypeOK, TypeOK', Cutoffs, NEW r \in Requests, StoreRow(r)
  PROVE  Cutoffs'
<1>1. /\ rq[r].pc = "storing" /\ Ends(r) /\ UNCHANGED <<now, audit, wk, late>>
      /\ repo' = [repo EXCEPT !.row[RowDay(rq[r].day)].made = TRUE]
  BY DEF StoreRow
<1>2. rq[r].day \in CodeDays /\ (~Grouped => repo.day = rq[r].day)
  BY <1>1 DEF Cutoffs, CutoffRequest
<1>3. /\ repo'.day = repo.day /\ repo'.head = repo.head /\ repo'.collab = repo.collab
      /\ \A d \in CodeDays :
           /\ Row(d)'.cut = Row(d).cut /\ Row(d)'.revoked = Row(d).revoked
           /\ Row(d)'.made <=> Row(d).made \/ RowDay(d) = RowDay(rq[r].day)
  <2>1. repo \in Repo /\ RowDay(rq[r].day) \in CodeDays
    BY <1>2, RowDays DEF TypeOK
  <2>2. repo'.row = [repo.row EXCEPT ![RowDay(rq[r].day)].made = TRUE]
    BY <1>1, <2>1 DEF Repo
  <2>3. ASSUME NEW d \in CodeDays
        PROVE  /\ Row(d)'.cut = Row(d).cut /\ Row(d)'.revoked = Row(d).revoked
               /\ Row(d)'.made <=> Row(d).made \/ RowDay(d) = RowDay(rq[r].day)
    <3>1. RowDay(d) \in CodeDays /\ repo.row[RowDay(d)] \in Workspace
      BY <2>1, RowDays DEF Repo
    <3>2. CASE RowDay(d) = RowDay(rq[r].day)
      <4>1. Row(d)' = [Row(d) EXCEPT !.made = TRUE]
        BY <2>1, <2>2, <3>1, <3>2 DEF Row, Repo
      <4> QED
        BY <3>1, <3>2, <4>1 DEF Row, Workspace
    <3>3. CASE RowDay(d) # RowDay(rq[r].day)
      BY <2>1, <2>2, <3>1, <3>3 DEF Row, Repo, Workspace
    <3> QED
      BY <3>2, <3>3
  <2> QED
    BY <1>1, <2>1, <2>3 DEF Repo
<1>4. \A q \in Requests : rq'[q] = rq[q] \/ CutoffRequest(rq[q])'
  BY <1>1 DEF Ends, TypeOK, NoRequest, CutoffRequest
<1>5. \A d \in CodeDays : Reopened(d)' <=> Reopened(d)
  BY <1>1, <1>3 DEF Reopened
<1>6. ASSUME NEW d \in CodeDays PROVE RowOK(d)'
  <2>1. RowOK(d)
    BY DEF Cutoffs
  <2>2. ~Grouped => RowDay(d) = d /\ RowDay(rq[r].day) = rq[r].day
    BY <1>2, RowDays
  <2>3. ~Grouped => IF FirstCode(d) THEN Row(d)'.made
                                    ELSE Row(d)'.made => repo'.day = d
    BY <1>2, <1>3, <2>1, <2>2 DEF RowOK
  <2> QED
    BY <1>1, <1>3, <1>5, <2>1, <2>3 DEF RowOK
<1>7. /\ \A q \in Requests : CutoffRequest(rq[q])'
      /\ \A w \in Workers : CutoffRun(wk[w])'
  BY <1>1, <1>3, <1>4, <1>5, Kept
<1> QED
  BY <1>6, <1>7 DEF Cutoffs

\* Whoever pushes has access, so whatever was cut off is open again.
LEMMA PushCutoffs ==
  ASSUME TypeOK, TypeOK', Cutoffs, Push
  PROVE  Cutoffs'
<1>1. UNCHANGED <<now, audit, rq, wk, late>> /\ repo.collab
      /\ repo' = [repo EXCEPT !.head = @ + 1]
  BY DEF Push
<1>2. repo'.day = repo.day /\ repo'.collab = repo.collab
      /\ \A d \in CodeDays : Row(d)' = Row(d)
  BY <1>1 DEF TypeOK, Repo, Row
<1>3. \A d \in CodeDays : /\ Reopened(d)' <=> Reopened(d)
                          /\ Row(d).cut => Reopened(d)
  BY <1>1, <1>2 DEF Reopened, Cutoffs, RowOK
<1>4. ASSUME NEW d \in CodeDays PROVE RowOK(d)'
  <2>1. RowOK(d)
    BY DEF Cutoffs
  <2> QED
    BY <1>1, <1>2, <1>3, <2>1 DEF RowOK
<1>5. /\ \A q \in Requests : CutoffRequest(rq[q])'
      /\ \A w \in Workers : CutoffRun(wk[w])'
  BY <1>1, <1>2, <1>3, Kept
<1> QED
  BY <1>4, <1>5 DEF Cutoffs

LEMMA CutRunEnds ==
  ASSUME TypeOK, NEW w \in Workers, Idles(w) \/ Succeed(w) \/ Fail(w)
  PROVE  \A v \in Workers : wk'[v] = wk[v] \/ CutoffRun(wk'[v])
BY NoOneCuts DEF Succeed, Fail, Idles, TypeOK

LEMMA RevokeCutoffs ==
  ASSUME TypeOK, TypeOK', Cutoffs, NEW w \in Workers, NEW d \in ClosedDays, Revoke(w, d)
  PROVE  Cutoffs'
<1>1. /\ UNCHANGED <<now, audit, rq, late>>
      /\ wk[w].pc = "revoking" /\ wk[w].day = d
  BY DEF Revoke, Runs
<1>2. d \in CodeDays /\ Row(d).made /\ wk[w].due <= now
  BY <1>1 DEF Cutoffs, CutoffRun
<1>3. CASE UNCHANGED repo /\ Fail(w)
  <2>1. now <= now'
    BY <1>1, DayTypes DEF TypeOK
  <2> QED
    BY <1>1, <1>3, <2>1, CutRunEnds, Calm
<1>4. CASE /\ repo' = [repo EXCEPT !.collab = FALSE, !.row[RowDay(d)].cut = TRUE]
           /\ RunGoesOn(w, "recording")
  <2>1. /\ repo'.day = repo.day /\ repo'.head = repo.head /\ ~repo'.collab
        /\ repo'.row = [repo.row EXCEPT ![RowDay(d)].cut = TRUE]
    BY <1>4 DEF TypeOK, Repo
  <2>2. ASSUME NEW e \in CodeDays
        PROVE  /\ Row(e)'.made = Row(e).made /\ Row(e)'.revoked = Row(e).revoked
               /\ Row(e)'.cut <=> Row(e).cut \/ RowDay(e) = RowDay(d)
    <3>1. RowDay(e) \in CodeDays /\ repo.row[RowDay(e)] \in Workspace
          /\ repo.row \in [CodeDays -> Workspace] /\ RowDay(d) \in CodeDays
      BY <1>2, RowDays DEF TypeOK, Repo
    <3>2. CASE RowDay(e) = RowDay(d)
      <4>1. Row(e)' = [Row(e) EXCEPT !.cut = TRUE]
        BY <2>1, <3>1, <3>2 DEF Row
      <4> QED
        BY <3>1, <3>2, <4>1 DEF Row, Workspace
    <3>3. CASE RowDay(e) # RowDay(d)
      BY <2>1, <3>1, <3>3 DEF Row, Workspace
    <3> QED
      BY <3>2, <3>3
  <2>3. \A e \in CodeDays : Reopened(e)' <=> Reopened(e)
    BY <1>1, <2>1 DEF Reopened
  <2>4. ASSUME NEW e \in CodeDays PROVE RowOK(e)'
    <3>1. RowOK(e)
      BY DEF Cutoffs
    <3>2. Row(e)'.cut => Row(e)'.made
      BY <1>2, <2>2, <3>1 DEF RowOK, Row
    <3> QED
      BY <1>1, <2>1, <2>2, <2>3, <3>1, <3>2 DEF RowOK
  <2>5. CutoffRun(wk[w])'
    <3>1. wk'[w].pc = "recording" /\ wk'[w].day = d /\ wk'[w].due = wk[w].due
      BY <1>1, <1>4 DEF RunGoesOn, TypeOK, WorkerMem
    <3> QED
      BY <1>1, <1>2, <2>2, <3>1 DEF CutoffRun
  <2>6. \A v \in Workers : wk'[v] = wk[v] \/ CutoffRun(wk[v])'
    BY <1>4, <2>5 DEF RunGoesOn, TypeOK
  <2>7. /\ \A q \in Requests : CutoffRequest(rq[q])'
        /\ \A v \in Workers : CutoffRun(wk[v])'
    BY <1>1, <2>1, <2>2, <2>3, <2>6, Kept
  <2> QED
    BY <2>4, <2>7 DEF Cutoffs
<1> QED
  BY <1>3, <1>4 DEF Revoke

LEMMA RecordCutoffs ==
  ASSUME TypeOK, TypeOK', Cutoffs, NEW w \in Workers, NEW d \in ClosedDays,
         RecordRevocation(w, d)
  PROVE  Cutoffs'
<1>1. /\ UNCHANGED <<now, audit, rq, late>> /\ RunGoesOn(w, "heading")
      /\ wk[w].pc = "recording" /\ wk[w].day = d
      /\ repo' = [repo EXCEPT !.row[RowDay(d)].revoked = wk[w].due]
  BY DEF RecordRevocation, Runs
<1>2. d \in CodeDays /\ Row(d).made /\ Row(d).cut /\ wk[w].due <= now
  BY <1>1 DEF Cutoffs, CutoffRun
<1>3. /\ repo'.day = repo.day /\ repo'.head = repo.head /\ repo'.collab = repo.collab
      /\ repo'.row = [repo.row EXCEPT ![RowDay(d)].revoked = wk[w].due]
  BY <1>1 DEF TypeOK, Repo
<1>4. ASSUME NEW e \in CodeDays
      PROVE  /\ Row(e)'.made = Row(e).made /\ Row(e)'.cut = Row(e).cut
             /\ Row(e)'.revoked = Row(e).revoked \/ Row(e)'.revoked = wk[w].due
  <2>1. RowDay(e) \in CodeDays /\ repo.row[RowDay(e)] \in Workspace
        /\ repo.row \in [CodeDays -> Workspace] /\ RowDay(d) \in CodeDays
    BY <1>2, RowDays DEF TypeOK, Repo
  <2>2. CASE RowDay(e) = RowDay(d)
    BY <1>3, <2>1, <2>2 DEF Row, Workspace
  <2>3. CASE RowDay(e) # RowDay(d)
    BY <1>3, <2>1, <2>3 DEF Row, Workspace
  <2> QED
    BY <2>2, <2>3
<1>5. \A e \in CodeDays : Reopened(e)' <=> Reopened(e)
  BY <1>1, <1>3 DEF Reopened
<1>6. ASSUME NEW e \in CodeDays PROVE RowOK(e)'
  <2>1. RowOK(e)
    BY DEF Cutoffs
  <2> QED
    BY <1>1, <1>2, <1>3, <1>4, <1>5, <2>1 DEF RowOK
<1>7. CutoffRun(wk[w])'
  <2>1. wk'[w].pc = "heading" /\ wk'[w].day = d /\ wk'[w].due = wk[w].due
    BY <1>1 DEF RunGoesOn, TypeOK, WorkerMem
  <2> QED
    BY <1>1, <1>2, <1>4, <2>1 DEF CutoffRun
<1>8. \A v \in Workers : wk'[v] = wk[v] \/ CutoffRun(wk[v])'
  BY <1>1, <1>7 DEF RunGoesOn, TypeOK
<1>9. /\ \A q \in Requests : CutoffRequest(rq[q])'
      /\ \A v \in Workers : CutoffRun(wk[v])'
  BY <1>1, <1>3, <1>4, <1>5, <1>8, Kept
<1> QED
  BY <1>6, <1>9 DEF Cutoffs

LEMMA AuditCutoffs ==
  ASSUME TypeOK, TypeOK', Cutoffs, NEW w \in Workers, NEW d \in ClosedDays,
         CreateAudit(w, d)
  PROVE  Cutoffs'
<1>1. /\ UNCHANGED <<now, repo, rq, late>> /\ (Succeed(w) \/ Fail(w))
      /\ wk[w].pc = "auditing" /\ wk[w].day = d
      /\ audit' = IF audit[d] = None THEN [audit EXCEPT ![d] = wk[w].head] ELSE audit
  BY DEF CreateAudit, Runs
<1>2. d \in CodeDays /\ Row(d).cut /\ (Reopened(d) \/ wk[w].head = repo.head)
  BY <1>1 DEF Cutoffs, CutoffRun
<1>3. \A e \in CodeDays : audit'[e] = audit[e] \/ (e = d /\ audit'[e] = wk[w].head)
  BY <1>1 DEF TypeOK
<1>4. ASSUME NEW e \in CodeDays PROVE RowOK(e)'
  <2>1. RowOK(e)
    BY DEF Cutoffs
  <2> QED
    BY <1>1, <1>2, <1>3, <2>1 DEF RowOK, Row, Reopened
<1>5. \A r \in Requests : CutoffRequest(rq[r])'
  BY <1>1 DEF Cutoffs, CutoffRequest
<1>6. ASSUME NEW v \in Workers PROVE CutoffRun(wk[v])'
  <2>1. CutoffRun(wk'[v])
    BY <1>1, CutRunEnds DEF Cutoffs
  <2> QED
    BY <1>1, <2>1 DEF CutoffRun, Row, Reopened
<1> QED
  BY <1>4, <1>5, <1>6 DEF Cutoffs

LEMMA SessionCutoffs ==
  ASSUME TypeOK, TypeOK', Cutoffs,
         \/ Tick \/ Claim \/ FetchOwned \/ Schedule \/ AdminReset \/ GetCurrentTask
         \/ \E d \in Days : CompleteUpload(d)
         \/ UNCHANGED vars
  PROVE  Cutoffs'
<1>1. UNCHANGED <<repo, audit, late, rq, wk>> /\ (now' = now \/ now' = now + 1)
  BY DEF Tick, Claim, FetchOwned, Schedule, AdminReset, GetCurrentTask,
         CompleteUpload, vars
<1>2. now <= now'
  BY <1>1, DayTypes DEF TypeOK
<1> QED
  BY <1>1, <1>2, Calm

\* A request that begins finds no revocation recorded on a row that is open.
LEMMA RequestCutoffs ==
  ASSUME TypeOK, TypeOK', Cutoffs, NEW r \in Requests,
         \/ \E d \in Days : BeginDraft(r, d) \/ BeginSubmit(r, d) \/ BeginInit(r, d)
         \/ WriteDraft(r) \/ GateCode(r) \/ CreateSubmission(r) \/ FinishSubmit(r)
         \/ Abandon(r)
  PROVE  Cutoffs'
<1>0. rq \in [Requests -> RequestMem] /\ now <= now /\ CutoffRequest(rq[r])
  BY DayTypes DEF TypeOK, Cutoffs
<1>1. ASSUME NEW d \in Days, BeginDraft(r, d) \/ BeginSubmit(r, d)
      PROVE  Cutoffs'
  <2>1. PICK pc \in {"drafting", "gating", "creating"} : \E saw : Begins(r, d, pc, saw)
    BY <1>1 DEF BeginDraft, BeginSubmit
  <2>2. \A q \in Requests : rq'[q] = rq[q] \/ CutoffRequest(rq'[q])
    BY <1>0, <2>1 DEF Begins, CutoffRequest
  <2>3. UNCHANGED <<now, repo, audit, late, wk>>
    BY <1>1 DEF BeginDraft, BeginSubmit
  <2> QED
    BY <1>0, <2>2, <2>3, Calm
<1>2. ASSUME NEW d \in Days, BeginInit(r, d)
      PROVE  Cutoffs'
  <2>1. /\ d \in CodeDays /\ GateOpen(d, TRUE)
        /\ Begins(r, d, "granting", IF Row(d).revoked = None THEN 0 ELSE 1)
        /\ UNCHANGED <<now, repo, audit, late, wk>>
    BY <1>2 DEF BeginInit
  <2>2. Row(d).revoked = None
    BY <2>1 DEF GateOpen, Cutoffs, RowOK
  <2>3. \A q \in Requests : rq'[q] = rq[q] \/ CutoffRequest(rq'[q])
    BY <1>0, <2>1, <2>2 DEF Begins, CutoffRequest
  <2> QED
    BY <1>0, <2>1, <2>3, Calm
<1>3. CASE \/ WriteDraft(r) \/ GateCode(r) \/ CreateSubmission(r) \/ FinishSubmit(r)
           \/ Abandon(r)
  <2>1. UNCHANGED <<now, repo, audit, late, wk>>
    BY <1>3 DEF WriteDraft, GateCode, CreateSubmission, FinishSubmit, Abandon
  <2>2. Ends(r) \/ \E pc \in {"creating", "marking"} : GoesOn(r, pc)
    BY <1>3 DEF WriteDraft, GateCode, CreateSubmission, FinishSubmit, Abandon
  <2>3. \A q \in Requests : rq'[q] = rq[q] \/ CutoffRequest(rq'[q])
    BY <1>0, <2>2, NoOneCuts DEF Ends, GoesOn, CutoffRequest, RequestMem
  <2> QED
    BY <1>0, <2>1, <2>3, Calm
<1> QED
  BY <1>1, <1>2, <1>3

LEMMA RunCutoffs ==
  ASSUME TypeOK, TypeOK', Cutoffs, NEW w \in Workers, NEW d \in ClosedDays,
         \/ StartRun(w, d) \/ LoadText(w, d) \/ VerifyRescheduled(w, d)
         \/ FinalizeText(w, d) \/ MarkDraft(w, d) \/ FinishText(w, d) \/ LoadCode(w, d) \/ ReadHead(w, d)
  PROVE  Cutoffs'
<1>0. wk \in [Workers -> WorkerMem] /\ CutoffRun(wk[w]) /\ now <= now
  BY DayTypes DEF TypeOK, Cutoffs
<1>1. UNCHANGED <<now, repo, audit, late, rq>>
  BY DEF StartRun, LoadText, VerifyRescheduled, FinalizeText, MarkDraft, FinishText,
         LoadCode, ReadHead
<1>2. CASE StartRun(w, d)
  <2>1. wk' = [wk EXCEPT ![w] = [NoRun EXCEPT !.pc = "loading", !.day = d,
                                               !.due = job[d].due,
                                               !.tries = OneMore(job[d].tries)]]
        /\ job[d].due <= now
    BY <1>2, DayTypes DEF StartRun, Runnable, TypeOK, Job
  <2>2. \A v \in Workers : wk'[v] = wk[v] \/ CutoffRun(wk'[v])
    BY <1>0, <2>1 DEF CutoffRun, NoRun
  <2> QED
    BY <1>0, <1>1, <2>2, Calm
<1>3. CASE LoadText(w, d)
  <2>1. CASE Succeed(w) \/ PutBack(w, d)
    <3>1. CASE Succeed(w) \/ Fail(w)
      BY <1>0, <1>1, <3>1, CutRunEnds, Calm
    <3>2. CASE RunGoesOn(w, "requeued")
      <4>1. wk[w].pc = "loading"
        BY <1>3 DEF LoadText, Runs
      <4>2. \A v \in Workers : wk'[v] = wk[v] \/ CutoffRun(wk'[v])
        BY <1>0, <3>2, <4>1 DEF CutoffRun, RunGoesOn, WorkerMem
      <4> QED
        BY <1>0, <1>1, <4>2, Calm
    <3> QED
      BY <2>1, <3>1, <3>2 DEF PutBack
  <2>2. CASE wk' = [wk EXCEPT ![w].pc = Loaded(d), ![w].start = sess.start,
                              ![w].status = sess.status, ![w].saw = draft[d].text]
    <3>1. Loaded(d) \in {"creating", "marking"} /\ wk[w].pc = "loading"
      BY <1>3 DEF Loaded, LoadText, Runs
    <3>2. \A v \in Workers : wk'[v] = wk[v] \/ CutoffRun(wk'[v])
      BY <1>0, <2>2, <3>1 DEF CutoffRun, WorkerMem
    <3> QED
      BY <1>0, <1>1, <3>2, Calm
  <2> QED
    BY <1>3, <2>1, <2>2 DEF LoadText
<1>4. CASE FinalizeText(w, d) \/ MarkDraft(w, d) \/ FinishText(w, d)
  <2>1. \/ Succeed(w) \/ Fail(w)
        \/ wk[w].pc # "idle" /\ \E pc \in {"marking", "progressing"} : RunGoesOn(w, pc)
    BY <1>4 DEF FinalizeText, MarkDraft, FinishText, Runs
  <2>2. CASE Succeed(w) \/ Fail(w)
    BY <1>0, <1>1, <2>2, CutRunEnds, Calm
  <2>3. ASSUME NEW pc \in {"marking", "progressing"}, wk[w].pc # "idle", RunGoesOn(w, pc)
        PROVE  Cutoffs'
    <3>1. \A v \in Workers : wk'[v] = wk[v] \/ CutoffRun(wk'[v])
      BY <1>0, <2>3 DEF CutoffRun, RunGoesOn, WorkerMem
    <3> QED
      BY <1>0, <1>1, <3>1, Calm
  <2> QED
    BY <2>1, <2>2, <2>3
<1>5. CASE LoadCode(w, d)
  <2>1. CASE Succeed(w) \/ Fail(w)
    BY <1>0, <1>1, <2>1, CutRunEnds, Calm
  <2>2. CASE Row(d).made /\ RunGoesOn(w, "revoking")
    <3>1. d \in CodeDays /\ wk[w].pc = "loading" /\ wk[w].day = d
      BY <1>5 DEF LoadCode, Runs
    <3>2. \A v \in Workers : wk'[v] = wk[v] \/ CutoffRun(wk'[v])
      BY <1>0, <2>2, <3>1 DEF CutoffRun, RunGoesOn, WorkerMem
    <3> QED
      BY <1>0, <1>1, <3>2, Calm
  <2> QED
    BY <1>5, <2>1, <2>2 DEF LoadCode
<1>6. CASE ReadHead(w, d)
  <2>1. CASE Fail(w)
    BY <1>0, <1>1, <2>1, CutRunEnds, Calm
  <2>2. CASE wk' = [wk EXCEPT ![w].pc = "auditing", ![w].head = repo.head]
    <3>1. wk[w].pc = "heading"
      BY <1>6 DEF ReadHead, Runs
    <3>2. \A v \in Workers : wk'[v] = wk[v] \/ CutoffRun(wk'[v])
      BY <1>0, <2>2, <3>1 DEF CutoffRun, WorkerMem
    <3> QED
      BY <1>0, <1>1, <3>2, Calm
  <2> QED
    BY <1>6, <2>1, <2>2 DEF ReadHead
<1>7. CASE VerifyRescheduled(w, d)
  <2>1. Idles(w) \/ Fail(w)
    BY <1>7 DEF VerifyRescheduled
  <2> QED
    BY <1>0, <1>1, <2>1, CutRunEnds, Calm
<1> QED
  BY <1>2, <1>3, <1>4, <1>5, <1>6, <1>7

LEMMA NextCutoffs == TypeOK /\ Cutoffs /\ [Next]_vars => Cutoffs'
<1> SUFFICES ASSUME TypeOK, Cutoffs, [Next]_vars PROVE Cutoffs'
  OBVIOUS
<1>0. TypeOK'
  BY NextType
<1>1. ASSUME NEW w \in Workers, Crash(w)
      PROVE  Cutoffs'
  <2>1. UNCHANGED <<now, repo, audit, late, rq>> /\ Idles(w) /\ now <= now'
    BY <1>1, DayTypes DEF Crash, TypeOK
  <2> QED
    BY <1>0, <2>1, CutRunEnds, Calm
<1> QED
  BY <1>0, <1>1, SessionCutoffs, RequestCutoffs, GrantCutoffs, BootstrapCutoffs,
     StoreCutoffs, PushCutoffs, RunCutoffs, RevokeCutoffs, RecordCutoffs, AuditCutoffs
     DEF Next, WorkerStep

\* The evidence of a coding day does not change once it is recorded, until a
\* later coding day begins or a request of before the cutoff gives access back.
THEOREM EvidenceIsFinal == Spec => []EvidenceFrozen
<1>1. Cutoffs => EvidenceFrozen
  BY DEF Cutoffs, RowOK, Reopened, EvidenceFrozen
<1>2. Spec => [](TypeOK /\ Cutoffs)
  BY InitType, InitCutoffs, NextType, NextCutoffs, PTL DEF Spec
<1> QED
  BY <1>1, <1>2, PTL

-----------------------------------------------------------------------------
(* The day-close jobs, as the queue's contract sees them *)

Status == [d \in ClosedDays |-> job[d].st]
Held == {p \in Workers \X ClosedDays : wk[p[1]].day = p[2]}

\* A worker holds the job of the day it closes, an idle one none.
OneDay ==
  \A w \in Workers : IF wk[w].pc = "idle" THEN wk[w].day = None
                                           ELSE wk[w].day \in ClosedDays

JInv == TypeOK /\ OneDay

\* A worker goes on with its day.
StaysOn(w) == /\ wk' = [wk EXCEPT ![w] = wk'[w]]
             /\ wk'[w].day = wk[w].day /\ wk'[w].pc # "idle"

LEMMA NoneIsNoDay == None \notin ClosedDays
  BY ConstantAssumption, DayTypes

\* What a step of a run does to its job: it ends with an outcome, puts the job
\* back, ends after that without a word, or leaves the job alone.
LEMMA RunKinds ==
  ASSUME TypeOK, NEW w \in Workers, NEW d \in ClosedDays, WorkerStep(w, d)
  PROVE  /\ wk[w].pc # "idle" /\ wk[w].day = d
         /\ \/ Succeed(w) \/ Fail(w) \/ PutBack(w, d)
            \/ (Idles(w) \/ StaysOn(w)) /\ UNCHANGED job
<1>1. wk \in [Workers -> WorkerMem]
  BY DEF TypeOK
<1>2. \A pc : pc # "idle" /\ RunGoesOn(w, pc) => StaysOn(w)
  BY <1>1 DEF RunGoesOn, StaysOn, WorkerMem
<1>3. CASE LoadText(w, d)
  <2>1. CASE /\ wk' = [wk EXCEPT ![w].pc = Loaded(d), ![w].start = sess.start,
                          ![w].status = sess.status, ![w].saw = draft[d].text]
             /\ UNCHANGED job
    <3>1. Loaded(d) # "idle"
      BY DEF Loaded
    <3> QED
      BY <1>1, <1>3, <2>1, <3>1 DEF LoadText, Runs, StaysOn, WorkerMem
  <2> QED
    BY <1>3, <2>1 DEF LoadText, Runs
<1>4. CASE VerifyRescheduled(w, d)
  BY <1>4 DEF VerifyRescheduled, Runs
<1>5. CASE FinalizeText(w, d) \/ MarkDraft(w, d)
  BY <1>2, <1>5 DEF FinalizeText, MarkDraft, Runs
<1>6. CASE FinishText(w, d) \/ CreateAudit(w, d)
  BY <1>6 DEF FinishText, CreateAudit, Runs
<1>7. CASE LoadCode(w, d) \/ Revoke(w, d) \/ RecordRevocation(w, d)
  BY <1>2, <1>7 DEF LoadCode, Revoke, RecordRevocation, Runs
<1>8. CASE ReadHead(w, d)
  <2>1. CASE wk' = [wk EXCEPT ![w].pc = "auditing", ![w].head = repo.head]
             /\ UNCHANGED job
    BY <1>1, <1>8, <2>1 DEF ReadHead, Runs, StaysOn, WorkerMem
  <2> QED
    BY <1>8, <2>1 DEF ReadHead, Runs
<1> QED
  BY <1>3, <1>4, <1>5, <1>6, <1>7, <1>8 DEF WorkerStep

\* Whatever the candidate and the operator do, workers keep what they hold.
LEMMA OthersKeep ==
  ASSUME \/ Tick \/ Claim \/ FetchOwned \/ Schedule \/ AdminReset
         \/ GetCurrentTask \/ Push \/ UNCHANGED vars
         \/ \E d \in Days : CompleteUpload(d)
         \/ \E r \in Requests, d \in Days :
              BeginDraft(r, d) \/ BeginSubmit(r, d) \/ BeginInit(r, d)
         \/ \E r \in Requests :
              WriteDraft(r) \/ GateCode(r) \/ CreateSubmission(r) \/ FinishSubmit(r)
              \/ Grant(r) \/ Bootstrap(r) \/ StoreRow(r) \/ Abandon(r)
  PROVE  UNCHANGED wk /\ (UNCHANGED job \/ Schedule)
  BY DEF Tick, Claim, FetchOwned, Schedule, AdminReset, GetCurrentTask, Push,
         CompleteUpload, BeginDraft, BeginSubmit, BeginInit, WriteDraft, GateCode,
         CreateSubmission, FinishSubmit, Grant, Bootstrap, StoreRow, Abandon, vars

LEMMA OneDayInv == JInv /\ [Next]_vars => OneDay'
<1> SUFFICES ASSUME JInv, [Next]_vars PROVE OneDay'
  OBVIOUS
<1>0. wk \in [Workers -> WorkerMem] /\ OneDay
  BY DEF JInv, TypeOK
<1>1. CASE UNCHANGED wk
  BY <1>0, <1>1 DEF OneDay
<1>2. ASSUME NEW w \in Workers, Idles(w) PROVE OneDay'
  BY <1>0, <1>2 DEF Idles, OneDay, NoRun
<1>3. ASSUME NEW w \in Workers, StaysOn(w), wk[w].pc # "idle" PROVE OneDay'
  BY <1>0, <1>3 DEF StaysOn, OneDay
<1>4. ASSUME NEW w \in Workers, NEW d \in ClosedDays, StartRun(w, d) PROVE OneDay'
  BY <1>0, <1>4 DEF StartRun, OneDay, NoRun
<1>5. ASSUME NEW w \in Workers, NEW d \in ClosedDays, WorkerStep(w, d) PROVE OneDay'
  <2>1. RunGoesOn(w, "requeued") => StaysOn(w)
    BY <1>0 DEF RunGoesOn, StaysOn, WorkerMem
  <2>2. wk[w].pc # "idle" /\ (Idles(w) \/ StaysOn(w))
    BY <1>5, <2>1, RunKinds DEF JInv, Succeed, Fail, PutBack
  <2> QED
    BY <1>2, <1>3, <2>2
<1> QED
  BY <1>1, <1>2, <1>4, <1>5, OthersKeep DEF Next, Crash

\* A worker that claims a job, reports an outcome of it or lets it go.
LEMMA StartContract ==
  ASSUME JInv, NEW w \in Workers, NEW d \in ClosedDays, StartRun(w, d)
  PROVE  Queue!Next
<1>1. /\ wk \in [Workers -> WorkerMem] /\ job \in [ClosedDays -> Job]
      /\ wk[w].day = None /\ wk' = [wk EXCEPT ![w] = wk'[w]] /\ wk'[w].day = d
  BY DEF JInv, TypeOK, OneDay, StartRun, NoRun
<1>2. Held' = Held \cup {<<w, d>>} /\ \A e \in ClosedDays : <<w, e>> \notin Held
  <2>1. \A v \in Workers : wk'[v].day = IF v = w THEN d ELSE wk[v].day
    BY <1>1
  <2> QED
    BY <1>1, <2>1, NoneIsNoDay DEF Held
<1>3. Status' = [Status EXCEPT ![d] = "running"] /\ Status[d] \in {"queued", "running"}
  BY <1>1 DEF StartRun, Runnable, Status, Job
<1>4. Queue!Claim(w, d)
  BY <1>2, <1>3 DEF Queue!Claim, Queue!Idle, Queue!Claimable, Status, Held
<1> QED
  BY <1>4 DEF Queue!Next, Queue!WorkerStep

LEMMA Released ==
  ASSUME JInv, NEW w \in Workers, NEW d \in ClosedDays, wk[w].day = d, Idles(w)
  PROVE  <<w, d>> \in Held /\ Held' = Held \ {<<w, d>>}
<1>1. \A v \in Workers : wk'[v].day = IF v = w THEN None ELSE wk[v].day
  BY DEF JInv, TypeOK, Idles, NoRun
<1> QED
  BY <1>1, NoneIsNoDay DEF Held

LEMMA AbandonContract ==
  ASSUME JInv, NEW w \in Workers, wk[w].pc # "idle", Idles(w), UNCHANGED job
  PROVE  Queue!Next
<1>1. PICK d \in ClosedDays : wk[w].day = d
  BY DEF JInv, OneDay
<1>2. Queue!Abandon(w, d)
  BY <1>1, Released DEF Queue!Abandon, Held
<1> QED
  BY <1>2 DEF Queue!Next, Queue!WorkerStep

LEMMA ReportContract ==
  ASSUME JInv, NEW w \in Workers, NEW d \in ClosedDays, wk[w].day = d,
         NEW o \in {"succeeded", "queued", "dead_letter"}, Outcome(d, o), Idles(w)
  PROVE  Queue!Next
<1>1. Status' = [Status EXCEPT ![d] = o]
  BY DEF Outcome, Status, JInv, TypeOK, Job
<1>2. Queue!Report(w, d, o)
  BY <1>1, Released DEF Queue!Report, Status, Held
<1> QED
  BY <1>2 DEF Queue!Next, Queue!WorkerStep, Queue!Outcomes

LEMMA RunContract ==
  ASSUME JInv, NEW w \in Workers, NEW d \in ClosedDays, WorkerStep(w, d)
  PROVE  Queue!Next \/ UNCHANGED <<Status, Held>>
<1>1. /\ wk[w].pc # "idle" /\ wk[w].day = d
      /\ \/ Succeed(w) \/ Fail(w) \/ PutBack(w, d)
         \/ (Idles(w) \/ StaysOn(w)) /\ UNCHANGED job
  BY RunKinds DEF JInv
<1>2. CASE Succeed(w)
  <2>1. Outcome(d, "succeeded") /\ Idles(w)
    BY <1>1, <1>2 DEF Succeed, Outcome
  <2> QED
    BY <1>1, <2>1, ReportContract
<1>3. CASE Fail(w)
  <2>1. Idles(w) /\ \E o \in {"dead_letter", "queued"} : Outcome(d, o)
    BY <1>1, <1>3 DEF Fail, Outcome
  <2> QED
    BY <1>1, <2>1, ReportContract
<1>4. CASE StaysOn(w)
  <2>1. \A v \in Workers : wk'[v].day = wk[v].day
    BY <1>4 DEF StaysOn, JInv, TypeOK
  <2>2. Held' = Held
    BY <2>1 DEF Held
  <2>3. CASE UNCHANGED job
    BY <2>2, <2>3 DEF Status
  <2>4. CASE PutBack(w, d) /\ ~Fail(w)
    <3>1. Status' = [Status EXCEPT ![d] = "queued"] /\ Status[d] \in {"queued", "running"}
      BY <2>4 DEF PutBack, Status, JInv, TypeOK, Job
    <3>2. <<w, d>> \in Held
      BY <1>1 DEF Held
    <3>3. Queue!PutBack(w, d)
      BY <2>2, <3>1, <3>2 DEF Queue!PutBack, Queue!Claimable, Status, Held
    <3> QED
      BY <3>3 DEF Queue!Next, Queue!WorkerStep
  <2>5. Succeed(w) => FALSE
    BY <1>1, <1>4 DEF Succeed, Idles, StaysOn, NoRun, JInv, TypeOK
  <2>6. Fail(w) \/ Idles(w) => FALSE
    BY <1>1, <1>4 DEF Fail, Idles, StaysOn, NoRun, JInv, TypeOK
  <2> QED
    BY <1>1, <2>3, <2>4, <2>5, <2>6
<1>5. CASE Idles(w) /\ UNCHANGED job
  BY <1>1, <1>5, AbandonContract
<1>6. PutBack(w, d) => Fail(w) \/ StaysOn(w)
  BY <1>1 DEF PutBack, RunGoesOn, StaysOn, JInv, TypeOK, WorkerMem
<1> QED
  BY <1>1, <1>2, <1>3, <1>4, <1>5, <1>6

\* A schedule inserts the jobs that are missing, all in one transaction.
LEMMA ScheduleContract ==
  ASSUME JInv, Schedule
  PROVE  Queue!Next
<1>1. PICK s : job' = EnqueueDayClose(s)
  BY DEF Schedule
<1>2. PICK js \in SUBSET ClosedDays : js = {d \in ClosedDays : job[d].st = "absent"}
  OBVIOUS
<1>3. \A d \in ClosedDays : job'[d].st = IF d \in js THEN "queued" ELSE job[d].st
  BY <1>1, <1>2 DEF EnqueueDayClose, JInv, TypeOK, Job
<1>4. Queue!Enqueue(js)
  BY <1>2, <1>3 DEF Queue!Enqueue, Schedule
<1> QED
  BY <1>4 DEF Queue!Next

LEMMA NextContract == JInv /\ [Next]_vars => [Queue!Next]_(Queue!vars)
<1> SUFFICES ASSUME JInv, [Next]_vars
             PROVE  Queue!Next \/ UNCHANGED <<Status, Held>>
  BY DEF Queue!vars, Status, Held
<1>1. CASE UNCHANGED wk /\ UNCHANGED job
  BY <1>1 DEF Status, Held
<1>2. ASSUME NEW w \in Workers, Crash(w) PROVE Queue!Next
  BY <1>2, AbandonContract DEF Crash
<1> QED
  BY <1>1, <1>2, OthersKeep, ScheduleContract, StartContract, RunContract DEF Next

\* The closing of days relies on nothing that the queue does not promise.
THEOREM ClosingKeepsContract == Spec => KeepsContract
<1>1. Init => Queue!Init /\ OneDay
  BY NoneIsNoDay DEF Init, Queue!Init, OneDay, NoRun
<1>2. Spec => []JInv
  BY <1>1, InitType, NextType, OneDayInv, PTL DEF Spec, JInv
<1> QED
  BY <1>1, <1>2, NextContract, PTL DEF Spec, Queue!Spec, KeepsContract
-----------------------------------------------------------------------------
(* A job that succeeded has closed its day                                 *)

\* Until a reset a session with jobs has its schedule, so that no run takes it
\* for unscheduled; a run about to complete the session has a submission.
ClosingRun(m) ==
  /\ m.pc # "idle" => job[m.day].st # "absent"
  /\ m.pc \in {"creating", "marking", "progressing"} => m.day \in TextDays
  /\ m.pc = "progressing" => m.day \in Submitted
  /\ m.pc \in {"revoking", "recording", "heading", "auditing"} => m.day \in CodeDays

Closing ==
  /\ resets = 0 /\ (\E d \in ClosedDays : job[d].st # "absent") => sess.start # None
  /\ \A w \in Workers : ClosingRun(wk[w])
  /\ SuccessCloses

CInv == JInv /\ Submissions /\ Closing

\* Only an operator takes a schedule back, and a day that is closed stays so.
LEMMA SchedulesStay ==
  ASSUME CInv, [Next]_vars
  PROVE  /\ AdminReset \/ (sess.start # None => sess'.start # None)
         /\ resets' = IF AdminReset THEN resets + 1 ELSE resets
         /\ Submitted \subseteq Submitted'
         /\ \A d \in ClosedDays : Done(d) => Done(d)'
<1>1. sess \in Session /\ resets \in Nat
  BY DEF CInv, JInv, TypeOK
<1>2. AdminReset \/ (sess.start # None => sess'.start # None)
  <2>1. ASSUME Schedule PROVE sess'.start # None
    BY <1>1, <2>1, ConstantAssumption DEF Schedule, Session, Instants
  <2>2. ASSUME \/ Claim \/ FetchOwned \/ GetCurrentTask
               \/ \E r \in Requests : FinishSubmit(r) \/ Grant(r) \/ StoreRow(r)
               \/ \E w \in Workers, d \in ClosedDays : FinishText(w, d)
        PROVE  sess'.start = sess.start
    BY <1>1, <2>2 DEF Claim, FetchOwned, GetCurrentTask, FinishSubmit, Grant,
                      StoreRow, FinishText, Progress, Session
  <2>3. ASSUME \/ Tick \/ Push \/ UNCHANGED vars
               \/ \E d \in Days : CompleteUpload(d)
               \/ \E w \in Workers : Crash(w)
        PROVE  sess' = sess
    BY <2>3 DEF Tick, Push, CompleteUpload, Crash, vars
  <2>4. ASSUME NEW r \in Requests,
               \/ \E d \in Days : BeginDraft(r, d) \/ BeginSubmit(r, d) \/ BeginInit(r, d)
               \/ WriteDraft(r) \/ GateCode(r) \/ CreateSubmission(r)
               \/ Bootstrap(r) \/ Abandon(r)
        PROVE  sess' = sess
    BY <2>4 DEF BeginDraft, BeginSubmit, BeginInit, WriteDraft, GateCode,
                CreateSubmission, Bootstrap, Abandon
  <2>5. ASSUME NEW w \in Workers, NEW d \in ClosedDays,
               \/ StartRun(w, d) \/ LoadText(w, d) \/ VerifyRescheduled(w, d)
               \/ FinalizeText(w, d) \/ MarkDraft(w, d) \/ LoadCode(w, d)
               \/ Revoke(w, d) \/ RecordRevocation(w, d) \/ ReadHead(w, d)
               \/ CreateAudit(w, d)
        PROVE  sess' = sess
    BY <2>5 DEF StartRun, LoadText, VerifyRescheduled, FinalizeText, MarkDraft,
                LoadCode, Revoke, RecordRevocation, ReadHead, CreateAudit
  <2> QED
    BY <2>1, <2>2, <2>3, <2>4, <2>5 DEF Next, WorkerStep
<1>3. resets' = IF AdminReset THEN resets + 1 ELSE resets
  <2>1. ASSUME NEW w \in Workers,
               Crash(w) \/ \E d \in ClosedDays : StartRun(w, d) \/ WorkerStep(w, d)
        PROVE  UNCHANGED resets
    BY <2>1 DEF Crash, StartRun, WorkerStep, LoadText, VerifyRescheduled, FinalizeText,
                MarkDraft, FinishText, LoadCode, Revoke, RecordRevocation, ReadHead,
                CreateAudit
  <2>2. ASSUME NEW r \in Requests,
               \/ \E d \in Days : BeginDraft(r, d) \/ BeginSubmit(r, d) \/ BeginInit(r, d)
               \/ WriteDraft(r) \/ GateCode(r) \/ CreateSubmission(r)
               \/ FinishSubmit(r) \/ Grant(r) \/ StoreRow(r)
               \/ Bootstrap(r) \/ Abandon(r)
        PROVE  UNCHANGED resets
    BY <2>2 DEF BeginDraft, BeginSubmit, BeginInit, WriteDraft, GateCode,
                CreateSubmission, FinishSubmit, Grant, StoreRow, Bootstrap, Abandon
  <2>3. ASSUME \/ Tick \/ Claim \/ FetchOwned \/ Schedule \/ GetCurrentTask \/ Push
               \/ UNCHANGED vars
               \/ \E d \in Days : CompleteUpload(d)
        PROVE  UNCHANGED resets
    BY <2>3 DEF Tick, Claim, FetchOwned, Schedule, GetCurrentTask, Push, vars,
                CompleteUpload
  <2>4. AdminReset => resets' = resets + 1
    BY DEF AdminReset
  <2> QED
    BY <1>1, <2>1, <2>2, <2>3, <2>4 DEF Next
<1>4. /\ \A d \in CodeDays : audit[d] # None => audit'[d] = audit[d]
      /\ \A d \in Days : sub[d].source # "none" => sub'[d] = sub[d]
  BY NextStays DEF CInv, JInv
<1>5. Submitted \subseteq Submitted'
  BY <1>4 DEF Submitted
<1>6. \A d \in ClosedDays : Done(d) => Done(d)'
  BY <1>4, <1>5 DEF Done, ClosedDays
<1> QED
  BY <1>2, <1>3, <1>5, <1>6

\* A run ends with success only when the day is closed.
LEMMA RunCloses ==
  ASSUME CInv, NEW w \in Workers, NEW d \in ClosedDays, WorkerStep(w, d), resets = 0,
         job'[d].st = "succeeded", job[d].st # "succeeded"
  PROVE  Done(d)'
<1>1. /\ job \in [ClosedDays -> Job] /\ wk[w] \in WorkerMem
      /\ wk[w].pc # "idle" /\ wk[w].day = d
  BY RunKinds DEF CInv, JInv, TypeOK
<1>2. ClosingRun(wk[w]) /\ sess.start # None
  BY <1>1 DEF CInv, Closing, ClosingRun
<1>3. ~Fail(w) /\ ~PutBack(w, d) /\ ~UNCHANGED job
  <2>1. Fail(w) => FALSE
    BY <1>1 DEF Fail, Outcome
  <2>2. PutBack(w, d) => FALSE
    BY <1>1, <2>1 DEF PutBack, Job
  <2> QED
    BY <2>1, <2>2
<1>4. CASE FinishText(w, d)
  BY <1>1, <1>2, <1>4 DEF FinishText, Runs, ClosingRun, Done, Submitted
<1>5. CASE CreateAudit(w, d)
  <2>1. d \in CodeDays /\ wk[w].head # None
    BY <1>1, <1>2, <1>5, ConstantAssumption DEF CreateAudit, Runs, ClosingRun, WorkerMem
  <2>2. audit'[d] # None
    BY <1>5, <2>1 DEF CreateAudit, CInv, JInv, TypeOK
  <2> QED
    BY <2>1, <2>2 DEF Done, CodeDays, TextDays
<1>6. CASE LoadCode(w, d)
  BY <1>3, <1>6 DEF LoadCode, Done, CodeDays, TextDays
<1> QED
  BY <1>2, <1>3, <1>4, <1>5, <1>6 DEF WorkerStep, LoadText, VerifyRescheduled,
     FinalizeText, MarkDraft, Revoke, RecordRevocation, ReadHead

\* No step of a run makes a job absent, and none but its own is touched.
LEMMA RunJobs ==
  ASSUME CInv, NEW w \in Workers, NEW d \in ClosedDays, WorkerStep(w, d)
  PROVE  /\ \A e \in ClosedDays \ {d} : job'[e] = job[e]
         /\ job[d].st # "absent" /\ job'[d].st # "absent"
<1>1. /\ job \in [ClosedDays -> Job] /\ wk[w].pc # "idle" /\ wk[w].day = d
      /\ Succeed(w) \/ Fail(w) \/ PutBack(w, d) \/ UNCHANGED job
  BY RunKinds DEF CInv, JInv, TypeOK
<1>2. job[d].st # "absent"
  BY <1>1 DEF CInv, Closing, ClosingRun
<1> QED
  BY <1>1, <1>2 DEF Succeed, Fail, PutBack, Outcome, Job

\* What a step of a run leaves the run to remember.
LEMMA RunRemembers ==
  ASSUME CInv, NEW w \in Workers, NEW d \in ClosedDays, WorkerStep(w, d)
  PROVE  wk'[w] = NoRun \/ ClosingRun(wk[w])'
<1>1. /\ wk \in [Workers -> WorkerMem] /\ wk[w].pc # "idle" /\ wk[w].day = d
      /\ job'[d].st # "absent" /\ ClosingRun(wk[w]) /\ Submissions
      /\ Submitted \subseteq Submitted'
  BY RunKinds, RunJobs, SchedulesStay DEF CInv, JInv, TypeOK, Closing, Next
<1>2. Succeed(w) \/ Fail(w) \/ Idles(w) => wk'[w] = NoRun
  BY <1>1 DEF Succeed, Fail, Idles
<1>3. ASSUME NEW pc, RunGoesOn(w, pc) \/ /\ wk'[w].pc = pc /\ wk'[w].day = d,
             pc \in {"creating", "marking", "progressing"} => d \in TextDays,
             pc = "progressing" => d \in Submitted,
             pc \in {"revoking", "recording", "heading", "auditing"} => d \in CodeDays
      PROVE  ClosingRun(wk[w])'
  <2>1. wk'[w].pc = pc /\ wk'[w].day = d
    BY <1>1, <1>3 DEF RunGoesOn, WorkerMem
  <2>2. pc = "progressing" => d \in Submitted'
    BY <1>1, <1>3
  <2> QED
    BY <1>1, <1>3, <2>1, <2>2 DEF ClosingRun, TextDays, CodeDays
<1>4. CASE LoadText(w, d)
  <2>1. CASE wk' = [wk EXCEPT ![w].pc = Loaded(d), ![w].start = sess.start,
                              ![w].status = sess.status, ![w].saw = draft[d].text]
    <3>1. /\ wk'[w].pc = Loaded(d) /\ wk'[w].day = d
          /\ Loaded(d) \in {"creating", "marking"} /\ d \in TextDays
      BY <1>1, <1>4, <2>1 DEF LoadText, Loaded, WorkerMem
    <3> QED
      BY <1>3, <3>1
  <2>2. CASE PutBack(w, d)
    BY <1>2, <1>3, <2>2 DEF PutBack
  <2> QED
    BY <1>2, <1>4, <2>1, <2>2 DEF LoadText
<1>5. CASE FinalizeText(w, d)
  <2>1. d \in TextDays
    BY <1>1, <1>5 DEF FinalizeText, Runs, ClosingRun
  <2> QED
    BY <1>2, <1>3, <1>5, <2>1 DEF FinalizeText
<1>6. CASE MarkDraft(w, d)
  <2>1. d \in Submitted /\ d \in TextDays
    BY <1>1, <1>6 DEF MarkDraft, Runs, Submissions, SubmissionRun, ClosingRun
  <2> QED
    BY <1>3, <1>6, <2>1 DEF MarkDraft
<1>7. CASE LoadCode(w, d) \/ Revoke(w, d) \/ RecordRevocation(w, d)
  <2>1. d \in CodeDays
    BY <1>1, <1>7 DEF LoadCode, Revoke, RecordRevocation, Runs, ClosingRun
  <2> QED
    BY <1>2, <1>3, <1>7, <2>1 DEF LoadCode, Revoke, RecordRevocation
<1>8. CASE ReadHead(w, d)
  <2>1. CASE wk' = [wk EXCEPT ![w].pc = "auditing", ![w].head = repo.head]
    <3>1. wk'[w].pc = "auditing" /\ wk'[w].day = d /\ d \in CodeDays
      BY <1>1, <1>8, <2>1 DEF ReadHead, Runs, ClosingRun, WorkerMem
    <3> QED
      BY <1>3, <3>1
  <2> QED
    BY <1>2, <1>8, <2>1 DEF ReadHead
<1>9. CASE VerifyRescheduled(w, d) \/ FinishText(w, d) \/ CreateAudit(w, d)
  BY <1>2, <1>9 DEF VerifyRescheduled, FinishText, CreateAudit
<1> QED
  BY <1>4, <1>5, <1>6, <1>7, <1>8, <1>9 DEF WorkerStep

\* Runs that keep what they remember, when no job gets absent.
LEMMA RunsRemember ==
  ASSUME CInv, Submitted \subseteq Submitted',
         \A d \in ClosedDays : job[d].st # "absent" => job'[d].st # "absent",
         \A w \in Workers : wk'[w] = wk[w] \/ wk'[w] = NoRun \/ ClosingRun(wk[w])'
  PROVE  \A w \in Workers : ClosingRun(wk[w])'
<1> SUFFICES ASSUME NEW w \in Workers PROVE ClosingRun(wk[w])'
  OBVIOUS
<1>1. CASE wk'[w] = wk[w]
  <2>1. ClosingRun(wk[w]) /\ (wk[w].pc # "idle" => wk[w].day \in ClosedDays)
    BY DEF CInv, JInv, OneDay, Closing
  <2> QED
    BY <1>1, <2>1 DEF ClosingRun
<1>2. CASE wk'[w] = NoRun
  BY <1>2 DEF ClosingRun, NoRun
<1> QED
  BY <1>1, <1>2

LEMMA NextClosing == CInv /\ [Next]_vars => Closing'
<1> SUFFICES ASSUME CInv, [Next]_vars PROVE Closing'
  OBVIOUS
<1>1. /\ job \in [ClosedDays -> Job] /\ wk \in [Workers -> WorkerMem] /\ resets \in Nat
      /\ AdminReset \/ (sess.start # None => sess'.start # None)
      /\ resets' = IF AdminReset THEN resets + 1 ELSE resets
      /\ Submitted \subseteq Submitted'
      /\ \A d \in ClosedDays : Done(d) => Done(d)'
  BY SchedulesStay DEF CInv, JInv, TypeOK
<1>2. ASSUME \A d \in ClosedDays : job[d].st = "absent" <=> job'[d].st = "absent",
             \A d \in ClosedDays : job'[d].st = "succeeded" /\ resets = 0
                                     => job[d].st = "succeeded" \/ Done(d)',
             \A w \in Workers : wk'[w] = wk[w] \/ wk'[w] = NoRun \/ ClosingRun(wk[w])'
      PROVE  Closing'
  <2>1. \A w \in Workers : ClosingRun(wk[w])'
    BY <1>1, <1>2, RunsRemember
  <2>2. resets' = 0 => resets = 0 /\ ~AdminReset
    BY <1>1
  <2>3. SuccessCloses'
    BY <1>1, <1>2, <2>2 DEF CInv, Closing, SuccessCloses
  <2>4. resets' = 0 /\ (\E d \in ClosedDays : job'[d].st # "absent") => sess'.start # None
    BY <1>1, <1>2, <2>2 DEF CInv, Closing
  <2> QED
    BY <2>1, <2>3, <2>4 DEF Closing
<1>3. CASE UNCHANGED job /\ UNCHANGED wk
  BY <1>2, <1>3
<1>4. ASSUME NEW w \in Workers, Crash(w) PROVE Closing'
  <2>1. UNCHANGED job /\ wk' = [wk EXCEPT ![w] = NoRun]
    BY <1>4 DEF Crash, Idles
  <2> QED
    BY <1>1, <1>2, <2>1
<1>5. CASE Schedule
  <2>1. UNCHANGED wk /\ sess'.start # None
    <3>1. PICK i \in Instants : sess' = [sess EXCEPT !.start = i, !.user = TRUE]
      BY <1>5 DEF Schedule
    <3> QED
      BY <1>5, <3>1, DayTypes DEF Schedule, CInv, JInv, TypeOK, Session
  <2>2. \A d \in ClosedDays : job'[d].st = IF job[d].st = "absent" THEN "queued"
                                                                   ELSE job[d].st
    <3>1. PICK s : job' = EnqueueDayClose(s)
      BY <1>5 DEF Schedule
    <3> QED
      BY <1>1, <3>1 DEF EnqueueDayClose, Job
  <2>3. \A w \in Workers : ClosingRun(wk[w])'
    BY <1>1, <2>1, <2>2, RunsRemember
  <2>4. SuccessCloses'
    BY <1>1, <2>2 DEF CInv, Closing, SuccessCloses
  <2> QED
    BY <2>1, <2>3, <2>4 DEF Closing
<1>6. ASSUME NEW w \in Workers, NEW d \in ClosedDays, StartRun(w, d) PROVE Closing'
  <2>1. /\ job[d].st \in {"queued", "running"}
        /\ \A e \in ClosedDays : job'[e].st = IF e = d THEN "running" ELSE job[e].st
        /\ wk'[w].day = d /\ wk'[w].pc = "loading"
        /\ \A v \in Workers \ {w} : wk'[v] = wk[v]
    BY <1>1, <1>6 DEF StartRun, Runnable, Job, NoRun
  <2>2. ClosingRun(wk[w])'
    BY <2>1 DEF ClosingRun
  <2> QED
    BY <1>2, <2>1, <2>2
<1>7. ASSUME NEW w \in Workers, NEW d \in ClosedDays, WorkerStep(w, d) PROVE Closing'
  <2>1. \A v \in Workers \ {w} : wk'[v] = wk[v]
    BY <1>1, <1>7, RunKinds DEF CInv, JInv, Succeed, Fail, PutBack, Idles, StaysOn, RunGoesOn
  <2>2. wk'[w] = NoRun \/ ClosingRun(wk[w])'
    BY <1>7, RunRemembers
  <2>3. /\ \A e \in ClosedDays \ {d} : job'[e] = job[e]
        /\ job[d].st # "absent" /\ job'[d].st # "absent"
    BY <1>7, RunJobs
  <2>4. \A e \in ClosedDays : job'[e].st = "succeeded" /\ resets = 0
                                => job[e].st = "succeeded" \/ Done(e)'
    BY <1>7, <2>3, RunCloses
  <2> QED
    BY <1>2, <2>1, <2>2, <2>3, <2>4
<1> QED
  BY <1>3, <1>4, <1>5, <1>6, <1>7, OthersKeep DEF Next

\* A closing job that succeeded has closed its day, however often and by however
\* many runs it was tried, unless an operator has reset the session.
THEOREM SuccessIsClosed == Spec => []SuccessCloses
<1>1. Init => OneDay /\ Closing
  BY NoneIsNoDay DEF Init, OneDay, NoRun, Closing, ClosingRun, SuccessCloses
<1>2. CInv /\ [Next]_vars => CInv'
  BY NextType, OneDayInv, NextSubmissions, NextClosing DEF CInv, JInv
<1>3. CInv => SuccessCloses
  BY DEF CInv, Closing
<1> QED
  BY <1>1, <1>2, <1>3, InitType, InitSubmissions, PTL DEF Spec, CInv, JInv

\* A draft is closed by a submission, an automatic submission holds a saved text,
\* and a finished job has closed its day.
THEOREM DaysAreSettled == Spec => []DaysSettled
  BY DraftsAreSettled, SuccessIsClosed, PTL DEF DaysSettled
=============================================================================
