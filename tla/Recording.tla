----------------------------- MODULE Recording -----------------------------
(***************************************************************************)
(* The life of a Day 4 upload: the candidate's upload and its completion,  *)
(* the transcription job on the workers, the candidate's deletion and the  *)
(* operator's purge (app/media, the transcribe_recording handler).         *)
(*                                                                         *)
(* A transaction that locks the recording FOR UPDATE is one action, except *)
(* the purge, which deletes the stored object under the lock and commits   *)
(* the row afterwards. The sessions keep what they have read               *)
(* (expire_on_commit=False, no populate_existing): a row read before the   *)
(* lock is still the old one after it, as the deletion's is.               *)
(***************************************************************************)
EXTENDS Naturals, FiniteSets

CONSTANTS
  Recs,          \* the recordings of one session's handoff task
  Supplemental,  \* those whose asset kind is "supplemental"
  Workers,       \* worker processes that take transcription jobs
  None,          \* no recording
  MaxAttempts,   \* TRANSCRIBE_RECORDING_MAX_ATTEMPTS
  MaxFaults      \* bound on crashes, overruns and storage errors together

ASSUME RecordingAssumption ==
  /\ Supplemental \subseteq Recs
  /\ None \notin Recs
  /\ MaxAttempts \in Nat \ {0}
  /\ MaxFaults \in Nat

VARIABLES
  phase,      \* Day 4's window is open, closed, or retention has passed too
  consented,  \* the session has a consent version and timestamp
  rec,        \* recording_assets
  transcript, \* transcripts, one row per recording at most
  object,     \* whether the storage holds the recording's object
  pointer,    \* submissions.recording_id of the handoff task
  job,        \* the transcription job of each recording
  wk,         \* what each worker holds in memory
  deleter,    \* a deletion request between its read and its lock
  purger,     \* a purge run
  faults      \* bound counter

vars == <<phase, consented, rec, transcript, object, pointer, job, wk,
          deleter, purger, faults>>
media == <<rec, transcript, object, pointer, job>>

-----------------------------------------------------------------------------
(* Rows *)

RecStatus == {"absent", "uploading", "uploaded", "processing", "ready",
              "failed", "deleted", "purged"}
Reasons == {"none", "retention_expired", "data_request"}

RecordingAsset ==
  [st : RecStatus, deleted : BOOLEAN, purged : BOOLEAN, reason : Reasons]
Transcript ==
  [st : {"absent", "pending", "processing", "ready", "failed"},
   text : BOOLEAN, deleted : BOOLEAN]
Job == [st : {"absent", "queued", "running", "succeeded", "dead_letter"},
        attempt : Nat]
Worker ==
  [pc : {"idle", "claimed", "marked", "calling", "transcribed", "retrying",
         "failing", "finishing"},
   rec : Recs \cup {None}, attempt : Nat,
   target : {"queued", "succeeded", "dead_letter"}]
Deleter == [rec : Recs \cup {None}, seen : RecordingAsset]
Purger ==
  [pc : {"idle", "listed", "erased", "failed"}, reason : Reasons,
   todo : SUBSET Recs, cur : Recs \cup {None}]

\* What the queue promises of the transcription jobs.
Queue == INSTANCE JobContract WITH
  Jobs <- Recs,
  status <- [r \in Recs |-> job[r].st],
  held <- {p \in Workers \X Recs : wk[p[1]].rec = p[2]}

NoRecording ==
  [st |-> "absent", deleted |-> FALSE, purged |-> FALSE, reason |-> "none"]
NoTranscript == [st |-> "absent", text |-> FALSE, deleted |-> FALSE]
IdleWorker ==
  [pc |-> "idle", rec |-> None, attempt |-> 0, target |-> "queued"]
IdleDeleter == [rec |-> None, seen |-> NoRecording]
IdlePurger == [pc |-> "idle", reason |-> "none", todo |-> {}, cur |-> None]

Init ==
  /\ phase = "open"
  /\ consented = FALSE
  /\ rec = [r \in Recs |-> NoRecording]
  /\ transcript = [r \in Recs |-> NoTranscript]
  /\ object = [r \in Recs |-> FALSE]
  /\ pointer = None
  /\ job = [r \in Recs |-> [st |-> "absent", attempt |-> 0]]
  /\ wk = [w \in Workers |-> IdleWorker]
  /\ deleter = IdleDeleter
  /\ purger = IdlePurger
  /\ faults = 0

\* is_deleted_or_purged
Gone(x) == x.deleted \/ x.purged \/ x.st \in {"deleted", "purged"}

\* Nobody holds the row's lock across a step but a purge.
Free(r) == ~(purger.pc = "erased" /\ purger.cur = r)

\* get_or_create_transcript followed by update_transcript: the row, deleted
\* or not, with a new status; the text is set, kept or cleared.
WithStatus(t, s) == [t EXCEPT !.st = s]
WithText(t, s, b) == [t EXCEPT !.st = s, !.text = b]

-----------------------------------------------------------------------------
(* The candidate *)

\* The window closes; the session completes and its retention runs out.
TimePasses ==
  /\ phase' = IF phase = "open" THEN "closed" ELSE "expired"
  /\ phase # "expired"
  /\ UNCHANGED <<consented, media, wk, deleter, purger, faults>>

\* record_candidate_session_consent
Consent ==
  /\ ~consented
  /\ consented' = TRUE
  /\ UNCHANGED <<phase, media, wk, deleter, purger, faults>>

\* init_handoff_upload; a storage error rolls it back.
InitUpload(r) ==
  /\ phase = "open"
  /\ rec[r].st = "absent"
  /\ rec' = [rec EXCEPT ![r].st = "uploading"]
  /\ UNCHANGED <<phase, consented, transcript, object, pointer, job, wk,
                 deleter, purger, faults>>

\* The candidate puts the file to the signed URL while it is valid.
PutObject(r) ==
  /\ phase = "open"
  /\ rec[r].st # "absent" /\ ~object[r]
  /\ object' = [object EXCEPT ![r] = TRUE]
  /\ UNCHANGED <<phase, consented, rec, transcript, pointer, job, wk,
                 deleter, purger, faults>>

\* Mutant: the status set whatever it was.
CompletedStatusAlways(x) == IF Gone(x) THEN x.st ELSE "uploaded"

CompletedStatus(x) ==
  IF x.st \in {"uploading", "failed"} THEN "uploaded" ELSE x.st

\* complete_handoff_upload: a repeated call finds the transcript and the job
\* it created, whatever has become of them, and leaves them alone.
CompleteUpload(r) ==
  /\ phase = "open" /\ consented
  /\ rec[r].st # "absent" /\ Free(r)
  /\ rec[r].st \in {"uploading", "failed"} => object[r]
  /\ rec' = [rec EXCEPT ![r].st = CompletedStatus(rec[r])]
  /\ IF r \in Supplemental
       THEN UNCHANGED <<transcript, pointer, job>>
       ELSE /\ transcript' = [transcript EXCEPT ![r] =
                 IF @.st = "absent" THEN WithStatus(@, "pending") ELSE @]
            /\ pointer' = r
            /\ job' = [job EXCEPT ![r] =
                 IF @.st = "absent" THEN [st |-> "queued", attempt |-> 0] ELSE @]
  /\ UNCHANGED <<phase, consented, object, wk, deleter, purger, faults>>

\* delete_recording_route reads the recording to find its session ...
BeginDelete(r) ==
  /\ deleter.rec = None
  /\ rec[r].st # "absent"
  /\ deleter' = [rec |-> r, seen |-> rec[r]]
  /\ UNCHANGED <<phase, consented, media, wk, purger, faults>>

\* Mutant: the recording's status given to its transcript.
DeletedTranscriptStatus(t) == [t EXCEPT !.st = "deleted", !.text = FALSE]

DeletedTranscript(t) ==
  IF t.st = "absent" THEN t ELSE [t EXCEPT !.deleted = TRUE, !.text = FALSE]

\* ... delete_recording_asset locks it, and judges it by what was read.
CommitDelete ==
  LET r == deleter.rec
      s == deleter.seen.st
  IN /\ r # None
     /\ Free(r)
     /\ rec' = [rec EXCEPT
          ![r].deleted = TRUE,
          ![r].st = IF s \in {"deleted", "purged"} THEN @ ELSE "deleted"]
     /\ transcript' = [transcript EXCEPT ![r] = DeletedTranscript(@)]
     /\ deleter' = IdleDeleter
     /\ UNCHANGED <<phase, consented, object, pointer, job, wk, purger, faults>>

-----------------------------------------------------------------------------
(* The transcription job *)

Holders(r) == {w \in Workers : wk[w].rec = r}

\* A queued job, or one whose lease is over; that its worker still runs then
\* counts as a fault.
Claim(w, r) ==
  LET overrun == job[r].st = "running" /\ Holders(r) # {}
  IN /\ wk[w].pc = "idle"
     /\ job[r].st \in {"queued", "running"}
     /\ overrun => faults < MaxFaults
     /\ job' = [job EXCEPT ![r] = [st |-> "running", attempt |-> @.attempt + 1]]
     /\ wk' = [wk EXCEPT ![w] = [IdleWorker EXCEPT
                 !.pc = "claimed", !.rec = r, !.attempt = job[r].attempt + 1]]
     /\ faults' = IF overrun THEN faults + 1 ELSE faults
     /\ UNCHANGED <<phase, consented, rec, transcript, object, pointer, deleter,
                    purger>>

\* Mutant: a transcript that is ready is transcribed again.
NothingToDoGone(r) == Gone(rec[r])

\* The returns of the handler before it calls the provider.
NothingToDo(r) ==
  Gone(rec[r]) \/ (rec[r].st = "ready" /\ transcript[r].st = "ready")

Returns(w) ==
  wk' = [wk EXCEPT ![w] = [@ EXCEPT !.pc = "finishing", !.target = "succeeded"]]

\* _mark_processing
MarkProcessing(w) ==
  LET r == wk[w].rec
  IN /\ wk[w].pc = "claimed"
     /\ Free(r)
     /\ IF NothingToDo(r)
          THEN Returns(w) /\ UNCHANGED <<rec, transcript>>
          ELSE /\ rec' = [rec EXCEPT ![r].st = "processing"]
               /\ transcript' = [transcript EXCEPT ![r] =
                                   WithStatus(@, "processing")]
               /\ wk' = [wk EXCEPT ![w].pc = "marked"]
     /\ UNCHANGED <<phase, consented, object, pointer, job, deleter, purger,
                    faults>>

\* The second look, without a lock, before the download URL is signed.
ReadAgain(w) ==
  /\ wk[w].pc = "marked"
  /\ IF Gone(rec[wk[w].rec]) THEN Returns(w)
                             ELSE wk' = [wk EXCEPT ![w].pc = "calling"]
  /\ UNCHANGED <<phase, consented, media, deleter, purger, faults>>

\* transcribe_recording returns a text.
Transcribe(w) ==
  /\ wk[w].pc = "calling"
  /\ object[wk[w].rec]
  /\ wk' = [wk EXCEPT ![w].pc = "transcribed"]
  /\ UNCHANGED <<phase, consented, media, deleter, purger, faults>>

\* Mutant: the attempt in progress not counted.
HeadroomOfAttempt(r) == job[r].attempt <= MaxAttempts

\* _transcription_job_has_retry_headroom of the job's view, which is one
\* attempt ahead of the row.
Headroom(r) == job[r].attempt + 1 < MaxAttempts

\* It raises, or returns no text; the job is looked up to decide what the
\* recording will show.
TranscribeFails(w) ==
  /\ wk[w].pc = "calling"
  /\ \E retryable \in BOOLEAN :
       wk' = [wk EXCEPT ![w].pc = IF retryable /\ Headroom(wk[w].rec)
                                    THEN "retrying" ELSE "failing"]
  /\ UNCHANGED <<phase, consented, media, deleter, purger, faults>>

\* Mutant: the result stored without looking at the row again.
WriteResultBlind(r, s, t) ==
  /\ rec' = [rec EXCEPT ![r].st = s]
  /\ transcript' = [transcript EXCEPT ![r] = t]

\* _mark_ready, _mark_retrying and _mark_failure lock the row and leave one
\* that is deleted or purged as it is.
WriteResult(r, s, t) ==
  IF Gone(rec[r])
    THEN UNCHANGED <<rec, transcript>>
    ELSE /\ rec' = [rec EXCEPT ![r].st = s]
         /\ transcript' = [transcript EXCEPT ![r] = t]

MarkReady(w) ==
  LET r == wk[w].rec
  IN /\ wk[w].pc = "transcribed"
     /\ Free(r)
     /\ WriteResult(r, "ready", WithText(transcript[r], "ready", TRUE))
     /\ Returns(w)
     /\ UNCHANGED <<phase, consented, object, pointer, job, deleter, purger,
                    faults>>

\* retry_or_dead_letter, after the handler has raised
Raises(w) ==
  wk' = [wk EXCEPT ![w] = [@ EXCEPT
           !.pc = "finishing",
           !.target = IF wk[w].attempt < MaxAttempts THEN "queued" ELSE "dead_letter"]]

MarkRetrying(w) ==
  LET r == wk[w].rec
  IN /\ wk[w].pc = "retrying"
     /\ Free(r)
     /\ WriteResult(r, "processing", WithText(transcript[r], "processing", FALSE))
     /\ Raises(w)
     /\ UNCHANGED <<phase, consented, object, pointer, job, deleter, purger,
                    faults>>

MarkFailure(w) ==
  LET r == wk[w].rec
  IN /\ wk[w].pc = "failing"
     /\ Free(r)
     /\ WriteResult(r, "failed", WithText(transcript[r], "failed", FALSE))
     /\ Raises(w)
     /\ UNCHANGED <<phase, consented, object, pointer, job, deleter, purger,
                    faults>>

\* The worker records the outcome (see JobQueue, which splits this step).
Finish(w) ==
  /\ wk[w].pc = "finishing"
  /\ job' = [job EXCEPT ![wk[w].rec].st = wk[w].target]
  /\ wk' = [wk EXCEPT ![w] = IdleWorker]
  /\ UNCHANGED <<phase, consented, rec, transcript, object, pointer, deleter,
                 purger, faults>>

\* The process dies and another takes its place.
Crash(w) ==
  /\ wk[w].pc # "idle"
  /\ faults < MaxFaults
  /\ faults' = faults + 1
  /\ wk' = [wk EXCEPT ![w] = IdleWorker]
  /\ UNCHANGED <<phase, consented, media, deleter, purger>>

-----------------------------------------------------------------------------
(* The purge *)

\* get_expired_for_retention; list_for_candidate_session of a data request.
Expired ==
  {r \in Recs : /\ ~rec[r].purged
                /\ rec[r].st \in {"uploaded", "ready", "failed", "deleted"}}
Requested == {r \in Recs : rec[r].st # "absent" /\ ~rec[r].purged}

ListPurge ==
  /\ purger.pc = "idle"
  /\ \/ /\ phase = "expired"
        /\ Expired # {}
        /\ purger' = [IdlePurger EXCEPT !.pc = "listed", !.todo = Expired,
                                        !.reason = "retention_expired"]
     \/ /\ Requested # {}
        /\ purger' = [IdlePurger EXCEPT !.pc = "listed", !.todo = Requested,
                                        !.reason = "data_request"]
  /\ UNCHANGED <<phase, consented, media, wk, deleter, faults>>

\* The row is locked and the object deleted. The list's objects are those the
\* lock returns, so none of them looks purged already.
EraseObject(r) ==
  /\ purger.pc = "listed" /\ r \in purger.todo
  /\ object' = [object EXCEPT ![r] = FALSE]
  /\ purger' = [purger EXCEPT !.pc = "erased", !.cur = r, !.todo = @ \ {r}]
  /\ UNCHANGED <<phase, consented, rec, transcript, pointer, job, wk, deleter,
                 faults>>

AfterPurge == IF purger.todo = {} THEN IdlePurger
                                  ELSE [purger EXCEPT !.pc = "listed", !.cur = None]

\* redact_by_recording_id keeps the row and its status.
Redacted(t) ==
  IF t.st = "absent" THEN t ELSE [t EXCEPT !.deleted = TRUE, !.text = FALSE]

\* mark_purged and the commit, which releases the lock.
CommitPurge ==
  LET r == purger.cur
  IN /\ purger.pc = "erased"
     /\ rec' = [rec EXCEPT ![r] = [st |-> "purged", deleted |-> TRUE,
                                   purged |-> TRUE, reason |-> purger.reason]]
     /\ transcript' = [transcript EXCEPT ![r] = Redacted(@)]
     /\ purger' = AfterPurge
     /\ UNCHANGED <<phase, consented, object, pointer, job, wk, deleter, faults>>

\* Mutant: a storage error taken for an object that is not there.
StorageErrorIgnored(r) ==
  /\ purger' = [purger EXCEPT !.pc = "erased", !.cur = r, !.todo = @ \ {r}]
  /\ UNCHANGED rec

\* The roll-back, and the failed attempt noted on the row.
StorageError(r) ==
  /\ purger' = [purger EXCEPT !.pc = "failed", !.cur = r, !.todo = @ \ {r}]
  /\ rec' = [rec EXCEPT ![r].reason = purger.reason]

\* The object store refuses.
PurgeFails(r) ==
  /\ purger.pc = "listed" /\ r \in purger.todo
  /\ faults < MaxFaults
  /\ faults' = faults + 1
  /\ StorageError(r)
  /\ UNCHANGED <<phase, consented, transcript, object, pointer, job, wk, deleter>>

\* The roll-back has expired the objects of the rest of the list: reading the
\* next one's id outside the session's greenlet raises, and the run ends. The
\* operator may start another.
NewPurge ==
  /\ purger.pc = "failed"
  /\ purger' = IdlePurger
  /\ UNCHANGED <<phase, consented, media, wk, deleter, faults>>

\* The process dies between the object and the row.
PurgeCrash ==
  /\ purger.pc = "erased"
  /\ faults < MaxFaults
  /\ faults' = faults + 1
  /\ purger' = IdlePurger
  /\ UNCHANGED <<phase, consented, media, wk, deleter>>

-----------------------------------------------------------------------------

CandidateNext ==
  \/ TimePasses \/ Consent \/ CommitDelete
  \/ \E r \in Recs : InitUpload(r) \/ PutObject(r) \/ CompleteUpload(r)
                     \/ BeginDelete(r)

Works(w) ==
  \/ MarkProcessing(w) \/ ReadAgain(w)
  \/ Transcribe(w) \/ TranscribeFails(w)
  \/ MarkReady(w) \/ MarkRetrying(w) \/ MarkFailure(w) \/ Finish(w)

PurgeNext ==
  \/ ListPurge \/ CommitPurge \/ NewPurge \/ PurgeCrash
  \/ \E r \in Recs : EraseObject(r) \/ PurgeFails(r)

Next ==
  \/ CandidateNext
  \/ \E w \in Workers : Works(w) \/ Crash(w) \/ \E r \in Recs : Claim(w, r)
  \/ PurgeNext

Spec == Init /\ [][Next]_vars

\* A worker goes on with the job it has, a job that nobody holds is taken by some
\* worker (run_worker_forever), and a purge releases the lock it has taken.
Fairness ==
  /\ \A w \in Workers : WF_vars(Works(w))
  /\ \A r \in Recs : WF_vars(\E w \in Workers : Holders(r) = {} /\ Claim(w, r))
  /\ WF_vars(CommitPurge)

FairSpec == Spec /\ Fairness

-----------------------------------------------------------------------------
(* Properties *)

TypeOK ==
  /\ phase \in {"open", "closed", "expired"}
  /\ consented \in BOOLEAN
  /\ rec \in [Recs -> RecordingAsset]
  /\ transcript \in [Recs -> Transcript]
  /\ object \in [Recs -> BOOLEAN]
  /\ pointer \in Recs \cup {None}
  /\ job \in [Recs -> Job]
  /\ wk \in [Workers -> Worker]
  /\ deleter \in Deleter
  /\ purger \in Purger
  /\ faults \in Nat

\* Deleted means deleted: no recording that is deleted or purged has the text
\* of its transcript, however late a transcription of it ends.
ErasedText == \A r \in Recs : Gone(rec[r]) => ~transcript[r].text

\* The two rows agree: while neither is gone, the recording shows ready
\* exactly when its transcript is ready and has its text, under repeated
\* completions, overrun workers and failures that come late.
ReadyTogether ==
  \A r \in Recs : ~Gone(rec[r]) =>
    (rec[r].st = "ready" <=> transcript[r].st = "ready" /\ transcript[r].text)

\* What retention has purged is out of the storage: a failed deletion is not
\* recorded as a purge, and an upload does not come back afterwards.
PurgedErased ==
  \A r \in Recs :
    rec[r].purged /\ rec[r].reason = "retention_expired" => ~object[r]

\* Workers that are past _mark_processing with r.
Transcribing(r) ==
  {w \in Workers : wk[w].rec = r /\ wk[w].pc \in
     {"marked", "calling", "transcribed", "retrying", "failing"}}

\* A transcript that is ready is not transcribed again: only a run that was
\* under way when it became ready, or a deletion, takes it back, though its
\* job is run again after a crash.
ReadyKept ==
  [][\A r \in Recs :
       rec[r].st = "ready" /\ ~Gone(rec[r]) /\ Transcribing(r) = {}
         => rec'[r].st = "ready" \/ Gone(rec'[r])]_vars

\* The candidate is told: a completed upload whose job is new becomes ready or
\* failed, or is deleted, in spite of crashes and retries. The last attempt
\* does not leave it "processing".
TranscriptionSettles ==
  \A r \in Recs :
    rec[r].st = "uploaded" /\ job[r] = [st |-> "queued", attempt |-> 0]
      ~> rec[r].st \in {"ready", "failed"} \/ Gone(rec[r])

\* A storage error is counted and the run goes on with the rest of its list.
BatchRuns == purger.pc = "failed" => purger.todo = {}
=============================================================================
