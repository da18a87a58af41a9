-------------------------- MODULE RecordingProofs ---------------------------
(***************************************************************************)
(* What Recording keeps for any number of recordings, workers, attempts    *)
(* and faults: types, erased texts, agreeing rows, retention purges that   *)
(* erased the object, and transcripts that are not made twice.             *)
(***************************************************************************)
EXTENDS Recording, TLAPS

GoneStates == {"deleted", "purged"}

\* One recording and its transcript: the flags of a deletion show in the
\* status, a gone one has no text, and the two agree on being ready.
RowOK(x, t) ==
  /\ x.deleted \/ x.purged => x.st \in GoneStates
  /\ Gone(x) \/ t.st = "absent" => ~t.text
  /\ ~Gone(x) => (x.st = "ready" <=> t.st = "ready" /\ t.text)

Rows == \A r \in Recs : RowOK(rec[r], transcript[r])

\* A deletion that has read a gone recording will find it gone.
DeleterOK ==
  deleter.rec # None /\ deleter.seen.st \in GoneStates => Gone(rec[deleter.rec])

WorkersOK == \A w \in Workers : wk[w].pc # "idle" => wk[w].rec \in Recs

\* What a purge still has on its list is not purged, and retention runs only
\* when nothing is uploaded any more.
PurgerOK ==
  /\ purger.pc \in {"erased", "failed"} => purger.cur \in Recs
  /\ \A r \in purger.todo : ~rec[r].purged /\ r # purger.cur
  /\ purger.reason = "retention_expired" => phase = "expired"
  /\ purger.pc = "erased" /\ purger.reason = "retention_expired" => ~object[purger.cur]

Retention ==
  \A r \in Recs : rec[r].reason = "retention_expired" =>
    phase = "expired" /\ (rec[r].purged => ~object[r])

IInv == TypeOK /\ Rows /\ DeleterOK /\ WorkersOK /\ PurgerOK /\ Retention

LEMMA Constants ==
  /\ NoRecording \in RecordingAsset /\ NoTranscript \in Transcript
  /\ IdleWorker \in Worker /\ IdlePurger \in Purger /\ IdleDeleter \in Deleter
<1>1. NoRecording \in RecordingAsset /\ NoTranscript \in Transcript
  BY DEF NoRecording, RecordingAsset, RecStatus, Reasons, NoTranscript, Transcript
<1>2. IdleWorker \in Worker /\ IdlePurger \in Purger
  BY DEF IdleWorker, Worker, IdlePurger, Purger, Reasons
<1>3. IdleDeleter \in Deleter
  BY <1>1 DEF IdleDeleter, Deleter
<1> QED
  BY <1>1, <1>2, <1>3

LEMMA InitInv == Init => IInv
<1> SUFFICES ASSUME Init PROVE IInv
  OBVIOUS
<1>1. TypeOK
  BY Constants DEF Init, TypeOK, Job
<1>2. Rows /\ Retention
  BY DEF Init, Rows, RowOK, Gone, GoneStates, NoRecording, NoTranscript, Retention
<1>3. DeleterOK /\ WorkersOK /\ PurgerOK
  BY DEF Init, DeleterOK, WorkersOK, PurgerOK, IdleDeleter, IdleWorker, IdlePurger
<1> QED
  BY <1>1, <1>2, <1>3 DEF IInv

\* A step on one recording's rows that keeps them in order and a gone one gone.
LEMMA OneRow ==
  ASSUME IInv, NEW r \in Recs, NEW x \in RecordingAsset, NEW t \in Transcript,
         rec' = [rec EXCEPT ![r] = x], transcript' = [transcript EXCEPT ![r] = t],
         RowOK(x, t), Gone(rec[r]) => Gone(x)
  PROVE  /\ Rows'
         /\ UNCHANGED deleter => DeleterOK'
         /\ rec' \in [Recs -> RecordingAsset]
         /\ transcript' \in [Recs -> Transcript]
<1>1. rec \in [Recs -> RecordingAsset] /\ transcript \in [Recs -> Transcript]
  BY DEF IInv, TypeOK
<1>2. \A s \in Recs : /\ rec'[s] = IF s = r THEN x ELSE rec[s]
                      /\ transcript'[s] = IF s = r THEN t ELSE transcript[s]
  BY <1>1
<1>3. Rows'
  BY <1>2 DEF IInv, Rows
<1>4. ASSUME UNCHANGED deleter PROVE DeleterOK'
  BY <1>2, <1>4 DEF IInv, TypeOK, Deleter, DeleterOK
<1> QED
  BY <1>1, <1>3, <1>4

\* It leaves the purge alone when it neither purges the recording nor gives it
\* a reason.
LEMMA OneRowPurge ==
  ASSUME IInv, NEW r \in Recs, NEW x \in RecordingAsset,
         rec' = [rec EXCEPT ![r] = x], UNCHANGED <<object, purger, phase>>,
         x.purged = rec[r].purged, x.reason = rec[r].reason
  PROVE  PurgerOK' /\ Retention'
<1>1. \A s \in Recs : rec'[s].purged = rec[s].purged /\ rec'[s].reason = rec[s].reason
  BY DEF IInv, TypeOK
<1>2. purger.todo \subseteq Recs
  BY DEF IInv, TypeOK, Purger
<1> QED
  BY <1>1, <1>2 DEF IInv, PurgerOK, Retention

\* A worker that changes its memory only.
LEMMA WorkerStep ==
  ASSUME IInv, NEW w \in Workers, NEW m \in Worker, wk' = [wk EXCEPT ![w] = m],
         m.pc # "idle" => m.rec \in Recs
  PROVE  WorkersOK' /\ wk' \in [Workers -> Worker]
  BY DEF IInv, TypeOK, WorkersOK

\* Nothing else depends on workers and jobs.
LEMMA WorkInv ==
  ASSUME IInv, NEW w \in Workers, NEW m \in Worker, wk' = [wk EXCEPT ![w] = m],
         m.pc # "idle" => m.rec \in Recs,
         UNCHANGED <<phase, consented, rec, transcript, object, pointer, deleter, purger>>,
         job' \in [Recs -> Job], faults' \in Nat
  PROVE  IInv'
<1>1. WorkersOK' /\ wk' \in [Workers -> Worker]
  BY WorkerStep
<1>2. TypeOK'
  BY <1>1 DEF IInv, TypeOK
<1>3. Rows' /\ DeleterOK' /\ PurgerOK' /\ Retention'
  BY DEF IInv, Rows, DeleterOK, PurgerOK, Retention
<1> QED
  BY <1>1, <1>2, <1>3 DEF IInv

-----------------------------------------------------------------------------
(* The candidate's steps *)

LEMMA TimeInv ==
  ASSUME IInv, TimePasses
  PROVE  IInv'
<1>1. UNCHANGED <<rec, transcript, object, pointer, job, consented, wk, deleter, purger, faults>>
  BY DEF TimePasses, media
<1>2. phase' \in {"closed", "expired"} /\ phase # "expired"
  BY DEF TimePasses, IInv, TypeOK
<1>3. TypeOK'
  BY <1>1, <1>2 DEF IInv, TypeOK
<1>4. Rows' /\ DeleterOK' /\ WorkersOK'
  BY <1>1 DEF IInv, Rows, DeleterOK, WorkersOK
<1>5. PurgerOK' /\ Retention'
  BY <1>1, <1>2 DEF IInv, PurgerOK, Retention
<1> QED
  BY <1>3, <1>4, <1>5 DEF IInv

LEMMA ConsentInv ==
  ASSUME IInv, Consent
  PROVE  IInv'
<1>1. /\ UNCHANGED <<phase, rec, transcript, object, pointer, job, wk, deleter, purger, faults>>
      /\ consented' = TRUE
  BY DEF Consent, media
<1> QED
  BY <1>1 DEF IInv, TypeOK, Rows, DeleterOK, WorkersOK, PurgerOK, Retention

LEMMA InitUploadInv ==
  ASSUME IInv, NEW r \in Recs, InitUpload(r)
  PROVE  IInv'
<1> DEFINE x == [rec[r] EXCEPT !.st = "uploading"]
<1>1. rec[r] \in RecordingAsset /\ transcript[r] \in Transcript /\ RowOK(rec[r], transcript[r])
  BY DEF IInv, TypeOK, Rows
<1>2. /\ x \in RecordingAsset /\ x.st = "uploading" /\ x.deleted = rec[r].deleted
      /\ x.purged = rec[r].purged /\ x.reason = rec[r].reason
  BY <1>1 DEF RecordingAsset, RecStatus
<1>3. /\ rec' = [rec EXCEPT ![r] = x]
      /\ transcript' = [transcript EXCEPT ![r] = transcript[r]]
      /\ UNCHANGED <<phase, consented, transcript, object, pointer, job, wk, deleter, purger, faults>>
  BY DEF InitUpload, IInv, TypeOK
<1>4. rec[r].st = "absent"
  BY DEF InitUpload
<1>5. RowOK(x, transcript[r]) /\ ~Gone(rec[r])
  BY <1>1, <1>2, <1>4 DEF RowOK, Gone, GoneStates
<1> HIDE DEF x
<1>6. Rows' /\ DeleterOK' /\ rec' \in [Recs -> RecordingAsset]
  BY <1>1, <1>2, <1>3, <1>5, OneRow
<1>7. PurgerOK' /\ Retention'
  BY <1>2, <1>3, OneRowPurge
<1>8. TypeOK' /\ WorkersOK'
  BY <1>3, <1>6 DEF IInv, TypeOK, WorkersOK
<1> QED
  BY <1>6, <1>7, <1>8 DEF IInv

LEMMA PutObjectInv ==
  ASSUME IInv, NEW r \in Recs, PutObject(r)
  PROVE  IInv'
<1>1. /\ UNCHANGED <<phase, consented, rec, transcript, pointer, job, wk, deleter, purger, faults>>
      /\ object' = [object EXCEPT ![r] = TRUE] /\ phase = "open"
  BY DEF PutObject
<1>2. TypeOK' /\ Rows' /\ DeleterOK' /\ WorkersOK'
  BY <1>1 DEF IInv, TypeOK, Rows, DeleterOK, WorkersOK
<1>3. PurgerOK' /\ Retention'
  BY <1>1 DEF IInv, PurgerOK, Retention
<1> QED
  BY <1>2, <1>3 DEF IInv

LEMMA CompleteUploadInv ==
  ASSUME IInv, NEW r \in Recs, CompleteUpload(r)
  PROVE  IInv'
<1> DEFINE x == [rec[r] EXCEPT !.st = CompletedStatus(rec[r])]
           t == transcript'[r]
<1>1. rec[r] \in RecordingAsset /\ transcript[r] \in Transcript /\ RowOK(rec[r], transcript[r])
  BY DEF IInv, TypeOK, Rows
<1>2. /\ x \in RecordingAsset /\ x.st = CompletedStatus(rec[r]) /\ x.deleted = rec[r].deleted
      /\ x.purged = rec[r].purged /\ x.reason = rec[r].reason
  BY <1>1 DEF RecordingAsset, RecStatus, CompletedStatus
<1>3. /\ rec' = [rec EXCEPT ![r] = x]
      /\ UNCHANGED <<phase, consented, object, wk, deleter, purger, faults>>
  BY DEF CompleteUpload, IInv, TypeOK
<1>4. /\ pointer' \in Recs \cup {None}
      /\ job' \in [Recs -> Job]
  BY DEF CompleteUpload, IInv, TypeOK, Job
<1>5. \/ UNCHANGED transcript
      \/ /\ transcript[r].st = "absent"
         /\ transcript' = [transcript EXCEPT ![r] = WithStatus(transcript[r], "pending")]
  BY <1>1 DEF CompleteUpload, IInv, TypeOK
<1>6. /\ t \in Transcript /\ transcript' = [transcript EXCEPT ![r] = t]
      /\ t.text = transcript[r].text
      /\ t.st = transcript[r].st \/ (transcript[r].st = "absent" /\ t.st = "pending")
  BY <1>1, <1>5 DEF WithStatus, Transcript, IInv, TypeOK
<1>7. RowOK(x, t) /\ (Gone(rec[r]) => Gone(x))
  BY <1>1, <1>2, <1>6 DEF RowOK, Gone, GoneStates, CompletedStatus
<1> HIDE DEF x, t
<1>8. /\ Rows' /\ DeleterOK' /\ rec' \in [Recs -> RecordingAsset]
      /\ transcript' \in [Recs -> Transcript]
  BY <1>2, <1>3, <1>6, <1>7, OneRow
<1>9. PurgerOK' /\ Retention'
  BY <1>2, <1>3, OneRowPurge
<1>10. TypeOK' /\ WorkersOK'
  BY <1>3, <1>4, <1>8 DEF IInv, TypeOK, WorkersOK
<1> QED
  BY <1>8, <1>9, <1>10 DEF IInv

LEMMA BeginDeleteInv ==
  ASSUME IInv, NEW r \in Recs, BeginDelete(r)
  PROVE  IInv'
<1>1. /\ UNCHANGED <<phase, consented, rec, transcript, object, pointer, job, wk, purger, faults>>
      /\ deleter' = [rec |-> r, seen |-> rec[r]]
  BY DEF BeginDelete, media
<1>2. deleter' \in Deleter /\ deleter'.rec = r /\ deleter'.seen = rec[r]
  BY <1>1 DEF IInv, TypeOK, Deleter
<1>3. TypeOK' /\ Rows' /\ WorkersOK' /\ PurgerOK' /\ Retention'
  BY <1>1, <1>2 DEF IInv, TypeOK, Rows, WorkersOK, PurgerOK, Retention
<1>4. DeleterOK'
  BY <1>1, <1>2 DEF DeleterOK, Gone, GoneStates
<1> QED
  BY <1>3, <1>4 DEF IInv

LEMMA CommitDeleteInv ==
  ASSUME IInv, CommitDelete
  PROVE  IInv'
<1> DEFINE r == deleter.rec
           x == [rec[r] EXCEPT
                   !.deleted = TRUE,
                   !.st = IF deleter.seen.st \in GoneStates THEN @ ELSE "deleted"]
           t == DeletedTranscript(transcript[r])
<1>1. r \in Recs
  BY DEF CommitDelete, IInv, TypeOK, Deleter
<1>2. rec[r] \in RecordingAsset /\ transcript[r] \in Transcript /\ RowOK(rec[r], transcript[r])
  BY <1>1 DEF IInv, TypeOK, Rows
<1>3. /\ x \in RecordingAsset /\ x.deleted = TRUE
      /\ x.st = IF deleter.seen.st \in GoneStates THEN rec[r].st ELSE "deleted"
      /\ x.purged = rec[r].purged /\ x.reason = rec[r].reason
  BY <1>2 DEF RecordingAsset, RecStatus
<1>4. /\ rec' = [rec EXCEPT ![r] = x] /\ transcript' = [transcript EXCEPT ![r] = t]
      /\ deleter' = IdleDeleter
      /\ UNCHANGED <<phase, consented, object, pointer, job, wk, purger, faults>>
  <2>1. rec \in [Recs -> RecordingAsset] /\ transcript \in [Recs -> Transcript]
    BY DEF IInv, TypeOK
  <2>2. rec' = [rec EXCEPT ![r] = x]
    BY <1>1, <2>1 DEF CommitDelete, GoneStates
  <2>3. transcript' = [transcript EXCEPT ![r] = t]
    BY <1>1, <2>1 DEF CommitDelete
  <2> QED
    BY <2>2, <2>3 DEF CommitDelete
<1>5. t \in Transcript /\ ~t.text
  BY <1>2 DEF DeletedTranscript, Transcript, RowOK
<1>6. deleter.seen.st \in GoneStates => rec[r].st \in GoneStates
  BY <1>1, <1>2 DEF IInv, DeleterOK, RowOK, Gone, GoneStates, CommitDelete
<1>7. x.st \in GoneStates
  BY <1>3, <1>6 DEF GoneStates
<1>8. RowOK(x, t) /\ Gone(x)
  BY <1>5, <1>7 DEF RowOK, Gone, GoneStates
<1> HIDE DEF x, t, r
<1>9. Rows' /\ rec' \in [Recs -> RecordingAsset] /\ transcript' \in [Recs -> Transcript]
  BY <1>1, <1>3, <1>4, <1>5, <1>8, OneRow
<1>10. PurgerOK' /\ Retention'
  BY <1>1, <1>3, <1>4, OneRowPurge
<1>11. DeleterOK'
  BY <1>4 DEF DeleterOK, IdleDeleter
<1>12. TypeOK' /\ WorkersOK'
  BY <1>4, <1>9, Constants DEF IInv, TypeOK, WorkersOK
<1> QED
  BY <1>9, <1>10, <1>11, <1>12 DEF IInv

-----------------------------------------------------------------------------
(* The transcription job's steps *)

LEMMA ClaimInv ==
  ASSUME IInv, NEW w \in Workers, NEW r \in Recs, Claim(w, r)
  PROVE  IInv'
<1> DEFINE m == [IdleWorker EXCEPT !.pc = "claimed", !.rec = r,
                                   !.attempt = job[r].attempt + 1]
<1>1. job[r] \in Job
  BY DEF IInv, TypeOK
<1>2. m \in Worker /\ m.rec = r
  <2>1. IdleWorker \in Worker /\ job[r].attempt + 1 \in Nat
    BY <1>1, Constants DEF Job
  <2> QED
    BY <2>1 DEF Worker
<1>3. /\ wk' = [wk EXCEPT ![w] = m]
      /\ job' = [job EXCEPT ![r] = [st |-> "running", attempt |-> @.attempt + 1]]
      /\ UNCHANGED <<phase, consented, rec, transcript, object, pointer, deleter, purger>>
  BY DEF Claim
<1>4. job' \in [Recs -> Job]
  BY <1>1, <1>3 DEF Job, IInv, TypeOK
<1>5. faults' \in Nat
  BY DEF Claim, IInv, TypeOK
<1> HIDE DEF m
<1> QED
  BY <1>2, <1>3, <1>4, <1>5, WorkInv

\* What a worker remembers after a step that keeps its recording.
LEMMA WorkerKeeps ==
  ASSUME IInv, NEW w \in Workers, wk[w].pc # "idle",
         NEW p \in {"marked", "calling", "transcribed", "retrying", "failing",
                    "finishing"},
         NEW g \in {"queued", "succeeded", "dead_letter"}
  PROVE  /\ [wk[w] EXCEPT !.pc = p] \in Worker
         /\ [wk[w] EXCEPT !.pc = p].rec \in Recs
         /\ [wk[w] EXCEPT !.pc = p, !.target = g] \in Worker
         /\ [wk[w] EXCEPT !.pc = p, !.target = g].rec \in Recs
  BY DEF IInv, TypeOK, WorkersOK, Worker

LEMMA MemoryInv ==
  ASSUME IInv, NEW w \in Workers,
         ReadAgain(w) \/ Transcribe(w) \/ TranscribeFails(w) \/ Crash(w)
  PROVE  IInv'
<1>1. /\ UNCHANGED <<phase, consented, rec, transcript, object, pointer, job, deleter, purger>>
      /\ faults' \in Nat /\ job' \in [Recs -> Job]
  BY DEF ReadAgain, Transcribe, TranscribeFails, Crash, media, IInv, TypeOK
<1>2. \E m \in Worker : wk' = [wk EXCEPT ![w] = m] /\ (m.pc # "idle" => m.rec \in Recs)
  <2>1. CASE Crash(w)
    BY <2>1, Constants DEF Crash, IdleWorker
  <2>2. CASE ReadAgain(w) \/ Transcribe(w) \/ TranscribeFails(w)
    <3>1. wk[w].pc # "idle" /\ wk \in [Workers -> Worker]
      BY <2>2 DEF ReadAgain, Transcribe, TranscribeFails, IInv, TypeOK
    <3>2. \/ \E p \in {"calling", "transcribed", "retrying", "failing"} :
               wk' = [wk EXCEPT ![w] = [wk[w] EXCEPT !.pc = p]]
          \/ wk' = [wk EXCEPT ![w] =
                      [wk[w] EXCEPT !.pc = "finishing", !.target = "succeeded"]]
      BY <2>2, <3>1 DEF ReadAgain, Transcribe, TranscribeFails, Returns
    <3> QED
      BY <3>1, <3>2, WorkerKeeps
  <2> QED
    BY <2>1, <2>2
<1> QED
  BY <1>1, <1>2, WorkInv

LEMMA FinishInv ==
  ASSUME IInv, NEW w \in Workers, Finish(w)
  PROVE  IInv'
<1>1. /\ UNCHANGED <<phase, consented, rec, transcript, object, pointer, deleter, purger, faults>>
      /\ wk' = [wk EXCEPT ![w] = IdleWorker]
      /\ job' = [job EXCEPT ![wk[w].rec].st = wk[w].target]
  BY DEF Finish
<1>2. job' \in [Recs -> Job]
  BY <1>1 DEF IInv, TypeOK, Worker, Job
<1>3. IdleWorker \in Worker /\ IdleWorker.pc = "idle" /\ faults' \in Nat
  BY <1>1, Constants DEF IdleWorker, IInv, TypeOK
<1> QED
  BY <1>1, <1>2, <1>3, WorkInv

\* A worker's write to the rows of its recording.
LEMMA WriteInv ==
  ASSUME IInv, NEW w \in Workers, wk[w].pc # "idle",
         NEW x \in RecordingAsset, NEW t \in Transcript, NEW m \in Worker,
         rec' = [rec EXCEPT ![wk[w].rec] = x],
         transcript' = [transcript EXCEPT ![wk[w].rec] = t],
         wk' = [wk EXCEPT ![w] = m], m.rec \in Recs,
         RowOK(x, t), Gone(rec[wk[w].rec]) => Gone(x),
         x.purged = rec[wk[w].rec].purged, x.reason = rec[wk[w].rec].reason,
         UNCHANGED <<phase, consented, object, pointer, job, deleter, purger, faults>>
  PROVE  IInv'
<1>1. wk[w].rec \in Recs
  BY DEF IInv, WorkersOK
<1>2. /\ Rows' /\ DeleterOK' /\ rec' \in [Recs -> RecordingAsset]
      /\ transcript' \in [Recs -> Transcript]
  BY <1>1, OneRow
<1>3. PurgerOK' /\ Retention'
  BY <1>1, OneRowPurge
<1>4. WorkersOK' /\ wk' \in [Workers -> Worker]
  BY WorkerStep
<1>5. TypeOK'
  BY <1>2, <1>4 DEF IInv, TypeOK
<1> QED
  BY <1>2, <1>3, <1>4, <1>5 DEF IInv

\* The same with a status alone: the rows of a gone recording stay.
LEMMA ResultInv ==
  ASSUME IInv, NEW w \in Workers, wk[w].pc # "idle",
         NEW s \in {"processing", "ready", "failed"},
         NEW t \in Transcript, t.st = s, t.text => s = "ready" \/ transcript[wk[w].rec].text,
         s = "ready" => t.text,
         WriteResult(wk[w].rec, s, t),
         NEW m \in Worker, wk' = [wk EXCEPT ![w] = m], m.rec \in Recs,
         UNCHANGED <<phase, consented, object, pointer, job, deleter, purger, faults>>
  PROVE  IInv'
<1> DEFINE r == wk[w].rec
           x == [rec[r] EXCEPT !.st = s]
<1>1. /\ r \in Recs /\ rec[r] \in RecordingAsset /\ transcript[r] \in Transcript
      /\ RowOK(rec[r], transcript[r])
  BY DEF IInv, WorkersOK, TypeOK, Rows
<1>2. CASE Gone(rec[r])
  <2>1. UNCHANGED <<rec, transcript>>
    BY <1>2 DEF WriteResult
  <2>2. /\ rec' = [rec EXCEPT ![wk[w].rec] = rec[wk[w].rec]]
        /\ transcript' = [transcript EXCEPT ![wk[w].rec] = transcript[wk[w].rec]]
    BY <2>1 DEF IInv, TypeOK
  <2> QED
    BY <1>1, <2>2, WriteInv
<1>3. CASE ~Gone(rec[r])
  <2>1. /\ x \in RecordingAsset /\ x.st = s /\ x.deleted = rec[r].deleted
        /\ x.purged = rec[r].purged /\ x.reason = rec[r].reason
    BY <1>1 DEF RecordingAsset, RecStatus
  <2>2. rec' = [rec EXCEPT ![wk[w].rec] = x] /\ transcript' = [transcript EXCEPT ![wk[w].rec] = t]
    BY <1>1, <1>3 DEF WriteResult, IInv, TypeOK
  <2>3. RowOK(x, t)
    BY <1>1, <1>3, <2>1 DEF RowOK, Gone, GoneStates
  <2> HIDE DEF x
  <2> QED
    BY <1>1, <1>3, <2>1, <2>2, <2>3, WriteInv
<1> QED
  BY <1>2, <1>3

LEMMA MarkProcessingInv ==
  ASSUME IInv, NEW w \in Workers, MarkProcessing(w)
  PROVE  IInv'
<1> DEFINE r == wk[w].rec
<1>1. /\ wk[w].pc # "idle" /\ wk \in [Workers -> Worker]
      /\ r \in Recs /\ transcript[r] \in Transcript
      /\ UNCHANGED <<phase, consented, object, pointer, job, deleter, purger, faults>>
  BY DEF MarkProcessing, IInv, WorkersOK, TypeOK
<1>2. CASE NothingToDo(r)
  <2>1. /\ wk' = [wk EXCEPT ![w] = [wk[w] EXCEPT !.pc = "finishing", !.target = "succeeded"]]
        /\ UNCHANGED <<rec, transcript>>
    BY <1>1, <1>2 DEF MarkProcessing, Returns
  <2>2. faults' \in Nat /\ job' \in [Recs -> Job]
    BY <1>1 DEF IInv, TypeOK
  <2> QED
    BY <1>1, <2>1, <2>2, WorkerKeeps, WorkInv
<1>3. CASE ~NothingToDo(r)
  <2> DEFINE t == [transcript[r] EXCEPT !.st = "processing"]
             m == [wk[w] EXCEPT !.pc = "marked"]
  <2>1. ~Gone(rec[r])
    BY <1>3 DEF NothingToDo
  <2>2. /\ rec' = [rec EXCEPT ![r].st = "processing"]
        /\ transcript' = [transcript EXCEPT ![r] = t]
        /\ wk' = [wk EXCEPT ![w] = m]
    BY <1>1, <1>3 DEF MarkProcessing, WithStatus, IInv, TypeOK
  <2>3. /\ t \in Transcript /\ t.st = "processing" /\ t.text = transcript[r].text
    BY <1>1 DEF Transcript
  <2>4. m \in Worker /\ m.rec \in Recs
    BY <1>1, WorkerKeeps
  <2>5. WriteResult(r, "processing", t)
    BY <2>1, <2>2 DEF WriteResult
  <2> HIDE DEF m, t
  <2> QED
    BY <1>1, <2>2, <2>3, <2>4, <2>5, ResultInv
<1> QED
  BY <1>2, <1>3

LEMMA MarkResultInv ==
  ASSUME IInv, NEW w \in Workers, MarkReady(w) \/ MarkRetrying(w) \/ MarkFailure(w)
  PROVE  IInv'
<1> DEFINE r == wk[w].rec
<1>1. /\ wk[w].pc # "idle" /\ wk \in [Workers -> Worker]
      /\ r \in Recs /\ transcript[r] \in Transcript
      /\ UNCHANGED <<phase, consented, object, pointer, job, deleter, purger, faults>>
  BY DEF MarkReady, MarkRetrying, MarkFailure, IInv, WorkersOK, TypeOK
<1>2. PICK s \in {"processing", "ready", "failed"}, b \in BOOLEAN :
        (b <=> s = "ready") /\ WriteResult(r, s, WithText(transcript[r], s, b))
  BY DEF MarkReady, MarkRetrying, MarkFailure
<1>3. PICK g \in {"queued", "succeeded", "dead_letter"} :
        wk' = [wk EXCEPT ![w] = [wk[w] EXCEPT !.pc = "finishing", !.target = g]]
  BY <1>1 DEF MarkReady, MarkRetrying, MarkFailure, Returns, Raises
<1> DEFINE t == WithText(transcript[r], s, b)
           m == [wk[w] EXCEPT !.pc = "finishing", !.target = g]
<1>4. t \in Transcript /\ t.st = s /\ t.text = b
  BY <1>1 DEF WithText, Transcript
<1>5. m \in Worker /\ m.rec \in Recs
  BY <1>1, WorkerKeeps
<1> HIDE DEF t, m
<1>6. WriteResult(r, s, t) /\ wk' = [wk EXCEPT ![w] = m]
  BY <1>2, <1>3 DEF t, m
<1> QED
  BY <1>1, <1>2, <1>4, <1>5, <1>6, ResultInv

-----------------------------------------------------------------------------
(* The purge *)

LEMMA PurgeMemoryInv ==
  ASSUME IInv, purger' \in Purger, PurgerOK', faults' \in Nat,
         UNCHANGED <<phase, consented, rec, transcript, object, pointer, job, wk, deleter>>
  PROVE  IInv'
  BY DEF IInv, TypeOK, Rows, DeleterOK, WorkersOK, Retention

LEMMA ListPurgeInv ==
  ASSUME IInv, ListPurge
  PROVE  IInv'
<1>1. UNCHANGED <<phase, consented, rec, transcript, object, pointer, job, wk, deleter, faults>>
  BY DEF ListPurge, media
<1>2. PICK s \in SUBSET Recs, g \in Reasons :
        /\ purger' = [IdlePurger EXCEPT !.pc = "listed", !.todo = s, !.reason = g]
        /\ \A r \in s : ~rec[r].purged
        /\ g = "retention_expired" => phase = "expired"
  BY DEF ListPurge, Expired, Requested, Reasons
<1>3. /\ purger' \in Purger /\ purger'.pc = "listed" /\ purger'.todo = s
      /\ purger'.reason = g /\ purger'.cur = None
  BY <1>2, Constants DEF Purger, IdlePurger
<1>4. PurgerOK'
  BY <1>1, <1>2, <1>3, RecordingAssumption DEF PurgerOK
<1>5. faults' \in Nat
  BY <1>1 DEF IInv, TypeOK
<1> QED
  BY <1>1, <1>3, <1>4, <1>5, PurgeMemoryInv

LEMMA PurgeEndsInv ==
  ASSUME IInv, NewPurge \/ PurgeCrash
  PROVE  IInv'
<1>1. /\ UNCHANGED <<phase, consented, rec, transcript, object, pointer, job, wk, deleter>>
      /\ purger' = IdlePurger /\ faults' \in Nat
  BY DEF NewPurge, PurgeCrash, media, IInv, TypeOK
<1>2. purger' \in Purger /\ PurgerOK'
  BY <1>1, Constants DEF PurgerOK, IdlePurger
<1> QED
  BY <1>1, <1>2, PurgeMemoryInv

LEMMA EraseInv ==
  ASSUME IInv, NEW r \in Recs, EraseObject(r)
  PROVE  IInv'
<1>1. /\ UNCHANGED <<phase, consented, rec, transcript, pointer, job, wk, deleter, faults>>
      /\ object' = [object EXCEPT ![r] = FALSE]
      /\ purger' = [purger EXCEPT !.pc = "erased", !.cur = r, !.todo = @ \ {r}]
  BY DEF EraseObject
<1>2. /\ purger' \in Purger /\ purger'.pc = "erased" /\ purger'.cur = r
      /\ purger'.todo = purger.todo \ {r} /\ purger'.reason = purger.reason
  BY <1>1 DEF IInv, TypeOK, Purger
<1>3. object' \in [Recs -> BOOLEAN] /\ ~object'[r]
      /\ \A s \in Recs : ~object[s] => ~object'[s]
  BY <1>1 DEF IInv, TypeOK
<1>4. PurgerOK'
  BY <1>1, <1>2, <1>3 DEF IInv, PurgerOK
<1>5. Retention'
  BY <1>1, <1>3 DEF IInv, Retention
<1>6. TypeOK' /\ Rows' /\ DeleterOK' /\ WorkersOK'
  BY <1>1, <1>2, <1>3 DEF IInv, TypeOK, Rows, DeleterOK, WorkersOK
<1> QED
  BY <1>4, <1>5, <1>6 DEF IInv

LEMMA PurgeFailsInv ==
  ASSUME IInv, NEW r \in Recs, PurgeFails(r)
  PROVE  IInv'
<1> DEFINE x == [rec[r] EXCEPT !.reason = purger.reason]
<1>1. /\ UNCHANGED <<phase, consented, transcript, object, pointer, job, wk, deleter>>
      /\ purger' = [purger EXCEPT !.pc = "failed", !.cur = r, !.todo = @ \ {r}]
      /\ rec' = [rec EXCEPT ![r].reason = purger.reason]
      /\ r \in purger.todo /\ faults' \in Nat
  BY DEF PurgeFails, StorageError, IInv, TypeOK
<1>2. rec[r] \in RecordingAsset /\ transcript[r] \in Transcript /\ RowOK(rec[r], transcript[r])
      /\ purger \in Purger
  BY DEF IInv, TypeOK, Rows
<1>3. /\ x \in RecordingAsset /\ x.st = rec[r].st /\ x.deleted = rec[r].deleted
      /\ x.purged = rec[r].purged /\ x.reason = purger.reason
  BY <1>2 DEF RecordingAsset, Purger
<1>4. RowOK(x, transcript[r]) /\ (Gone(rec[r]) => Gone(x))
  BY <1>2, <1>3 DEF RowOK, Gone
<1>5. /\ rec' = [rec EXCEPT ![r] = x]
      /\ transcript' = [transcript EXCEPT ![r] = transcript[r]]
  BY <1>1 DEF IInv, TypeOK
<1> HIDE DEF x
<1>6. Rows' /\ DeleterOK' /\ rec' \in [Recs -> RecordingAsset]
  BY <1>1, <1>2, <1>3, <1>4, <1>5, OneRow
<1>7. /\ purger' \in Purger /\ purger'.pc = "failed" /\ purger'.cur = r
      /\ purger'.todo = purger.todo \ {r} /\ purger'.reason = purger.reason
  BY <1>1, <1>2 DEF Purger
<1>8. \A s \in Recs : rec'[s] = IF s = r THEN x ELSE rec[s]
  BY <1>5 DEF IInv, TypeOK
<1>9. PurgerOK'
  <2>1. purger.todo \subseteq Recs
    BY <1>2 DEF Purger
  <2> QED
    BY <1>1, <1>3, <1>7, <1>8, <2>1 DEF IInv, PurgerOK
<1>10. Retention'
  BY <1>1, <1>3, <1>8 DEF IInv, Retention, PurgerOK
<1>11. TypeOK' /\ WorkersOK'
  BY <1>1, <1>6, <1>7 DEF IInv, TypeOK, WorkersOK
<1> QED
  BY <1>6, <1>9, <1>10, <1>11 DEF IInv

LEMMA CommitPurgeInv ==
  ASSUME IInv, CommitPurge
  PROVE  IInv'
<1> DEFINE r == purger.cur
           x == [st |-> "purged", deleted |-> TRUE, purged |-> TRUE,
                 reason |-> purger.reason]
           t == Redacted(transcript[r])
<1>1. r \in Recs /\ purger \in Purger
  BY DEF CommitPurge, IInv, TypeOK, PurgerOK
<1>2. /\ rec' = [rec EXCEPT ![r] = x] /\ transcript' = [transcript EXCEPT ![r] = t]
      /\ purger' = AfterPurge
      /\ UNCHANGED <<phase, consented, object, pointer, job, wk, deleter, faults>>
  BY DEF CommitPurge
<1>3. /\ x \in RecordingAsset /\ x.st = "purged" /\ x.purged
      /\ x.reason = purger.reason
  BY <1>1 DEF RecordingAsset, RecStatus, Purger
<1>4. t \in Transcript /\ ~t.text
  BY <1>1 DEF Redacted, Transcript, RowOK, IInv, TypeOK, Rows
<1>5. RowOK(x, t) /\ Gone(x)
  BY <1>3, <1>4 DEF RowOK, Gone, GoneStates
<1>6. \A s \in Recs : rec'[s] = IF s = r THEN x ELSE rec[s]
  BY <1>2 DEF IInv, TypeOK
<1> HIDE DEF x, t
<1>7. Rows' /\ DeleterOK' /\ rec' \in [Recs -> RecordingAsset]
      /\ transcript' \in [Recs -> Transcript]
  <2> HIDE DEF r
  <2> QED
    BY <1>1, <1>2, <1>3, <1>4, <1>5, OneRow
<1>8. /\ purger' \in Purger /\ purger'.pc \notin {"erased", "failed"}
      /\ purger'.todo \subseteq purger.todo /\ purger'.cur = None
      /\ purger'.reason = purger.reason \/ purger'.reason = "none"
  <2>1. CASE purger.todo = {}
    BY <1>1, <1>2, <2>1, Constants DEF AfterPurge, IdlePurger
  <2>2. CASE purger.todo # {}
    BY <1>1, <1>2, <2>2 DEF AfterPurge, Purger
  <2> QED
    BY <2>1, <2>2
<1>9. PurgerOK'
  <2>1. purger.todo \subseteq Recs
    BY <1>1 DEF Purger
  <2> QED
    BY <1>2, <1>6, <1>8, <2>1, RecordingAssumption DEF IInv, PurgerOK
<1>10. Retention'
  BY <1>1, <1>2, <1>3, <1>6 DEF IInv, Retention, PurgerOK, CommitPurge
<1>11. TypeOK' /\ WorkersOK'
  BY <1>2, <1>7, <1>8 DEF IInv, TypeOK, WorkersOK
<1> QED
  BY <1>7, <1>9, <1>10, <1>11 DEF IInv

-----------------------------------------------------------------------------

LEMMA NextInv == IInv /\ [Next]_vars => IInv'
<1> SUFFICES ASSUME IInv, [Next]_vars PROVE IInv'
  OBVIOUS
<1>1. CASE UNCHANGED vars
  BY <1>1 DEF vars, IInv, TypeOK, Rows, DeleterOK, WorkersOK, PurgerOK, Retention
<1>2. CASE CandidateNext
  BY <1>2, TimeInv, ConsentInv, CommitDeleteInv, InitUploadInv, PutObjectInv,
     CompleteUploadInv, BeginDeleteInv
  DEF CandidateNext
<1>3. ASSUME NEW w \in Workers, Works(w) \/ Crash(w) PROVE IInv'
  BY <1>3, MarkProcessingInv, MemoryInv, MarkResultInv, FinishInv DEF Works
<1>4. ASSUME NEW w \in Workers, NEW r \in Recs, Claim(w, r) PROVE IInv'
  BY <1>4, ClaimInv
<1>5. CASE PurgeNext
  BY <1>5, ListPurgeInv, CommitPurgeInv, PurgeEndsInv, EraseInv, PurgeFailsInv
  DEF PurgeNext
<1> QED
  BY <1>1, <1>2, <1>3, <1>4, <1>5 DEF Next

LEMMA Invariance == Spec => []IInv
  BY InitInv, NextInv, PTL DEF Spec

\* Every row and memory holds values of its columns and fields.
THEOREM TypeSafe == Spec => []TypeOK
<1>1. IInv => TypeOK
  BY DEF IInv
<1> QED
  BY <1>1, Invariance, PTL

\* A recording that is deleted or purged has no transcript text, however late a
\* transcription ends (_mark_ready's look at the locked row).
THEOREM DeletionErases == Spec => []ErasedText
<1>1. IInv => ErasedText
  BY DEF IInv, Rows, RowOK, ErasedText
<1> QED
  BY <1>1, Invariance, PTL

\* Recording and transcript agree on being ready.
THEOREM RowsAgree == Spec => []ReadyTogether
<1>1. IInv => ReadyTogether
  BY DEF IInv, Rows, RowOK, ReadyTogether
<1> QED
  BY <1>1, Invariance, PTL

\* A recording that retention has purged has no object in the storage.
THEOREM RetentionErases == Spec => []PurgedErased
<1>1. IInv => PurgedErased
  BY DEF IInv, Retention, PurgedErased
<1> QED
  BY <1>1, Invariance, PTL

\* A ready transcript is not made again (_mark_processing's early return).
THEOREM ReadyStays == Spec => ReadyKept
<1>1. ASSUME IInv, [Next]_vars
      PROVE  [\A r \in Recs :
                rec[r].st = "ready" /\ ~Gone(rec[r]) /\ Transcribing(r) = {}
                  => rec'[r].st = "ready" \/ Gone(rec'[r])]_vars
  <2> SUFFICES ASSUME NEW r \in Recs, rec[r].st = "ready", ~Gone(rec[r]),
                      Transcribing(r) = {}
               PROVE  rec'[r].st = "ready" \/ Gone(rec'[r])
    OBVIOUS
  <2>1. rec \in [Recs -> RecordingAsset] /\ RowOK(rec[r], transcript[r])
    BY <1>1 DEF IInv, TypeOK, Rows
  <2>2. ASSUME NEW w \in Workers, MarkReady(w) \/ MarkRetrying(w) \/ MarkFailure(w)
        PROVE  rec'[r] = rec[r]
    <3>1. wk[w].rec # r
      BY <2>2 DEF Transcribing, MarkReady, MarkRetrying, MarkFailure
    <3> QED
      BY <2>1, <2>2, <3>1 DEF MarkReady, MarkRetrying, MarkFailure, WriteResult
  <2>3. ASSUME NEW w \in Workers, MarkProcessing(w)
        PROVE  rec'[r] = rec[r]
    BY <2>1, <2>3 DEF MarkProcessing, NothingToDo, RowOK
  <2>4. ASSUME NEW w \in Workers,
               ReadAgain(w) \/ Transcribe(w) \/ TranscribeFails(w) \/ Finish(w) \/ Crash(w)
        PROVE  rec'[r] = rec[r]
    BY <2>4 DEF ReadAgain, Transcribe, TranscribeFails, Finish, Crash, media
  <2>5. ASSUME NEW w \in Workers, NEW s \in Recs, Claim(w, s) PROVE rec'[r] = rec[r]
    BY <2>5 DEF Claim
  <2>6. CASE CandidateNext
    <3>1. CASE CommitDelete
      BY <2>1, <3>1 DEF CommitDelete, Gone, RecordingAsset
    <3>2. ASSUME NEW s \in Recs, InitUpload(s) PROVE rec'[r] = rec[r]
      BY <2>1, <3>2 DEF InitUpload
    <3>3. ASSUME NEW s \in Recs, CompleteUpload(s) PROVE rec'[r].st = "ready"
      BY <2>1, <3>3 DEF CompleteUpload, CompletedStatus, RecordingAsset
    <3>4. ASSUME NEW s \in Recs, PutObject(s) \/ BeginDelete(s) PROVE rec'[r] = rec[r]
      BY <3>4 DEF PutObject, BeginDelete, media
    <3>5. CASE TimePasses \/ Consent
      BY <3>5 DEF TimePasses, Consent, media
    <3> QED
      BY <2>6, <3>1, <3>2, <3>3, <3>4, <3>5 DEF CandidateNext
  <2>7. CASE PurgeNext
    <3>1. CASE CommitPurge
      BY <2>1, <3>1 DEF CommitPurge, Gone
    <3>2. ASSUME NEW s \in Recs, PurgeFails(s) PROVE rec'[r].st = "ready"
      BY <2>1, <3>2 DEF PurgeFails, StorageError, RecordingAsset
    <3>3. ASSUME NEW s \in Recs, EraseObject(s) PROVE rec'[r] = rec[r]
      BY <3>3 DEF EraseObject
    <3>4. CASE ListPurge \/ NewPurge \/ PurgeCrash
      BY <3>4 DEF ListPurge, NewPurge, PurgeCrash, media
    <3> QED
      BY <2>7, <3>1, <3>2, <3>3, <3>4 DEF PurgeNext
  <2>8. CASE UNCHANGED vars
    BY <2>8 DEF vars
  <2> QED
    BY <1>1, <2>2, <2>3, <2>4, <2>5, <2>6, <2>7, <2>8 DEF Next, Works
<1> QED
  BY <1>1, Invariance, PTL DEF Spec, ReadyKept
-----------------------------------------------------------------------------
(* The transcription jobs, as the queue's contract sees them *)

Status == [r \in Recs |-> job[r].st]
Held == {p \in Workers \X Recs : wk[p[1]].rec = p[2]}

\* An idle worker holds nothing.
Resting == \A w \in Workers : wk[w].pc = "idle" => wk[w].rec = None

\* A worker goes on with its recording.
GoesOn(w) == /\ wk' = [wk EXCEPT ![w] = wk'[w]]
             /\ wk'[w].rec = wk[w].rec /\ wk'[w].pc # "idle"

LEMMA WorkGoesOn ==
  ASSUME IInv, NEW w \in Workers, Works(w), ~Finish(w)
  PROVE  GoesOn(w) /\ UNCHANGED job
<1>1. wk \in [Workers -> Worker]
  BY DEF IInv, TypeOK
<1>2. CASE MarkProcessing(w)
  BY <1>1, <1>2 DEF MarkProcessing, Returns, GoesOn, Worker
<1>3. CASE ReadAgain(w)
  BY <1>1, <1>3 DEF ReadAgain, Returns, GoesOn, Worker, media
<1>4. CASE Transcribe(w) \/ TranscribeFails(w)
  BY <1>1, <1>4 DEF Transcribe, TranscribeFails, GoesOn, Worker, media
<1>5. CASE MarkReady(w)
  BY <1>1, <1>5 DEF MarkReady, Returns, GoesOn, Worker
<1>6. CASE MarkRetrying(w) \/ MarkFailure(w)
  BY <1>1, <1>6 DEF MarkRetrying, MarkFailure, Raises, GoesOn, Worker
<1> QED
  BY <1>2, <1>3, <1>4, <1>5, <1>6 DEF Works

\* The steps that no worker takes part in insert a job at most.
LEMMA OthersContract ==
  ASSUME IInv, CandidateNext \/ PurgeNext \/ UNCHANGED vars
  PROVE  UNCHANGED wk /\ (Queue!Next \/ UNCHANGED <<Status, Held>>)
<1>1. UNCHANGED wk
  BY DEF CandidateNext, TimePasses, Consent, CommitDelete, InitUpload, PutObject,
         CompleteUpload, BeginDelete, PurgeNext, ListPurge, CommitPurge, NewPurge,
         PurgeCrash, EraseObject, PurgeFails, vars
<1>2. UNCHANGED Held
  BY <1>1 DEF Held
<1>3. ASSUME NEW r \in Recs, CompleteUpload(r)
      PROVE  Queue!Next \/ UNCHANGED <<Status, Held>>
  <2>1. CASE job' = job
    BY <1>2, <2>1 DEF Status
  <2>2. CASE job[r].st = "absent" /\
             job' = [job EXCEPT ![r] = [st |-> "queued", attempt |-> 0]]
    <3>1. \A s \in Recs : job'[s].st = IF s \in {r} THEN "queued" ELSE job[s].st
      BY <2>2 DEF IInv, TypeOK
    <3>2. Queue!Enqueue({r})
      BY <1>1, <2>2, <3>1 DEF Queue!Enqueue
    <3>3. {r} \in SUBSET Recs
      OBVIOUS
    <3> QED
      BY <3>2, <3>3 DEF Queue!Next
  <2> QED
    BY <1>3, <2>1, <2>2 DEF CompleteUpload, IInv, TypeOK
<1>4. CASE \/ TimePasses \/ Consent \/ CommitDelete \/ PurgeNext \/ UNCHANGED vars
           \/ \E r \in Recs : InitUpload(r) \/ PutObject(r) \/ BeginDelete(r)
  <2>1. UNCHANGED job
    BY <1>4 DEF TimePasses, Consent, CommitDelete, InitUpload, PutObject, BeginDelete,
         PurgeNext, ListPurge, CommitPurge, NewPurge, PurgeCrash, EraseObject,
         PurgeFails, vars, media
  <2> QED
    BY <1>1, <1>2, <2>1 DEF Status
<1> QED
  BY <1>1, <1>3, <1>4 DEF CandidateNext

LEMMA RestingInv == IInv /\ Resting /\ [Next]_vars => Resting'
<1> SUFFICES ASSUME IInv, Resting, [Next]_vars PROVE Resting'
  OBVIOUS
<1>0. wk \in [Workers -> Worker]
  BY DEF IInv, TypeOK
<1>1. CASE UNCHANGED wk
  BY <1>1 DEF Resting
<1>2. ASSUME NEW w \in Workers, GoesOn(w) PROVE Resting'
  BY <1>0, <1>2 DEF GoesOn, Resting
<1>3. ASSUME NEW w \in Workers, Finish(w) \/ Crash(w) PROVE Resting'
  BY <1>0, <1>3 DEF Finish, Crash, Resting, IdleWorker
<1>4. ASSUME NEW w \in Workers, NEW r \in Recs, Claim(w, r) PROVE Resting'
  BY <1>0, <1>4 DEF Claim, Resting, IdleWorker
<1> QED
  BY <1>1, <1>2, <1>3, <1>4, WorkGoesOn, OthersContract DEF Next

\* A worker that dies or reports lets go of the recording it holds.
LEMMA EndsContract ==
  ASSUME IInv, NEW w \in Workers, Finish(w) \/ Crash(w)
  PROVE  Queue!Next
<1>1. /\ wk \in [Workers -> Worker] /\ wk[w].rec \in Recs
      /\ wk' = [wk EXCEPT ![w] = IdleWorker] /\ IdleWorker.rec = None
  BY DEF IInv, TypeOK, WorkersOK, Finish, Crash, IdleWorker
<1>2. PICK r \in Recs : wk[w].rec = r
  BY <1>1
<1>3. <<w, r>> \in Held /\ Held' = Held \ {<<w, r>>}
  <2>1. \A v \in Workers : wk'[v].rec = IF v = w THEN None ELSE wk[v].rec
    BY <1>1
  <2> QED
    BY <1>2, <2>1, RecordingAssumption DEF Held
<1>4. CASE Finish(w)
  <2>1. PICK o \in Queue!Outcomes : o = wk[w].target
    BY <1>1 DEF Worker, Queue!Outcomes
  <2>2. Status' = [Status EXCEPT ![r] = o]
    BY <1>2, <1>4, <2>1 DEF Finish, Status, IInv, TypeOK, Job
  <2>3. Queue!Report(w, r, o)
    BY <1>3, <2>2 DEF Queue!Report, Status, Held
  <2> QED
    BY <2>3 DEF Queue!Next, Queue!WorkerStep
<1>5. CASE Crash(w)
  <2>1. Queue!Abandon(w, r)
    BY <1>3, <1>5 DEF Queue!Abandon, Crash, Held, media
  <2> QED
    BY <2>1 DEF Queue!Next, Queue!WorkerStep
<1> QED
  BY <1>4, <1>5

LEMMA ClaimContract ==
  ASSUME IInv, Resting, NEW w \in Workers, NEW r \in Recs, Claim(w, r)
  PROVE  Queue!Next
<1>1. /\ wk \in [Workers -> Worker] /\ job \in [Recs -> Job]
      /\ wk[w].rec = None /\ wk' = [wk EXCEPT ![w] = wk'[w]] /\ wk'[w].rec = r
  BY DEF IInv, TypeOK, Resting, Claim, IdleWorker
<1>2. Held' = Held \cup {<<w, r>>} /\ \A s \in Recs : <<w, s>> \notin Held
  <2>1. \A v \in Workers : wk'[v].rec = IF v = w THEN r ELSE wk[v].rec
    BY <1>1
  <2> QED
    BY <1>1, <2>1, RecordingAssumption DEF Held
<1>3. Status' = [Status EXCEPT ![r] = "running"] /\ Status[r] \in {"queued", "running"}
  BY <1>1 DEF Claim, Status, Job
<1>4. Queue!Claim(w, r)
  BY <1>2, <1>3 DEF Queue!Claim, Queue!Idle, Queue!Claimable, Status, Held
<1> QED
  BY <1>4 DEF Queue!Next, Queue!WorkerStep

LEMMA NextContract == IInv /\ Resting /\ [Next]_vars => [Queue!Next]_(Queue!vars)
<1> SUFFICES ASSUME IInv, Resting, [Next]_vars
             PROVE  Queue!Next \/ UNCHANGED <<Status, Held>>
  BY DEF Queue!vars, Status, Held
<1>1. ASSUME NEW w \in Workers, Works(w), ~Finish(w) PROVE UNCHANGED <<Status, Held>>
  <2>1. GoesOn(w) /\ UNCHANGED job
    BY <1>1, WorkGoesOn
  <2>2. \A v \in Workers : wk'[v].rec = wk[v].rec
    BY <2>1 DEF GoesOn, IInv, TypeOK
  <2> QED
    BY <2>1, <2>2 DEF Status, Held
<1> QED
  BY <1>1, OthersContract, EndsContract, ClaimContract DEF Next

\* The transcription relies on nothing but the queue's contract: an upload inserts
\* the job of its recording once, and workers run and report it, perhaps two at a
\* time and in any order (create_or_get_idempotent, claim_next_runnable, mark_*).
THEOREM TranscriptionKeepsContract == Spec => Queue!Spec
<1>1. Init => Queue!Init /\ Resting
  BY RecordingAssumption DEF Init, Queue!Init, Resting, IdleWorker
<1>2. Spec => [](IInv /\ Resting)
  BY <1>1, InitInv, NextInv, RestingInv, PTL DEF Spec
<1> QED
  BY <1>1, <1>2, NextContract, PTL DEF Spec, Queue!Spec
=============================================================================
