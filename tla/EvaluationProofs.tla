-------------------------- MODULE EvaluationProofs --------------------------
(***************************************************************************)
(* What EvaluationRun keeps for every number of workers, states of the     *)
(* evidence, retries, attempts and faults: one final run of a job, the     *)
(* report and its notice in one commit, success only with a report, and a  *)
(* latest report that the evaluator can find.                              *)
(***************************************************************************)
EXTENDS EvaluationRun, TLAPS, FiniteSetTheorems

\* The types of what the outcomes depend on.
RowTypes ==
  /\ evidence \in 1..MaxEvidence
  /\ job \in [Jobs -> [st : {"absent", "queued", "running", "succeeded",
                             "dead_letter"}, attempt : Nat]]
  /\ wk \in [Workers -> Worker]
  /\ run \in [Jobs -> Run]
  /\ marker \in Jobs \cup {None}
  /\ notice \in {"none", "queued", "sent"}

\* A worker beyond the idle state has a job, it has a result only at the end,
\* and a success only with a completed run; while it evaluates the job has no
\* committed run.
MemoryOf(w) ==
  LET m == wk[w] IN
  /\ m.pc # "idle" => m.job \in Jobs
  /\ m.pc = "done" => m.target # "none"
  /\ m.target = "succeeded" => m.pc = "done" /\ run[m.job].st = "completed"
  /\ m.pc = "evaluating" => run[m.job].st = "none"

Memory == \A w \in Workers : MemoryOf(w)

\* The index on job_id admits one open insert of a job.
OneInsert ==
  \A v, w \in Workers :
    wk[v].pc = "evaluating" /\ wk[w].pc = "evaluating" /\ wk[v].job = wk[w].job
      => v = w

Outcomes == ReportTogether /\ SucceededHasReport

IInv == RowTypes /\ Memory /\ OneInsert /\ Outcomes

\* A step that leaves the runs, the marker and the notice alone and makes no
\* job succeed does not disturb the outcomes.
LEMMA OutcomesKept ==
  ASSUME Outcomes, UNCHANGED <<run, marker>>,
         notice' = notice \/ (notice = "queued" /\ notice' = "sent"),
         \A j \in Jobs : job'[j].st = "succeeded"
                           => job[j].st = "succeeded" \/ run[j].st = "completed"
  PROVE  Outcomes'
  BY DEF Outcomes, ReportTogether, SucceededHasReport, Committed

\* A step that leaves workers and runs alone does not disturb what they hold.
LEMMA MemoryKept ==
  ASSUME Memory, OneInsert, UNCHANGED <<wk, run>>
  PROVE  Memory' /\ OneInsert'
  BY DEF Memory, MemoryOf, OneInsert

LEMMA IdleTyped == Idle \in Worker
  BY EvaluationAssumption DEF Idle, Worker, Targets

LEMMA InitInv == Init => IInv
<1> SUFFICES ASSUME Init PROVE IInv
  OBVIOUS
<1>1. RowTypes
  BY EvaluationAssumption
  DEF Init, RowTypes, Worker, Idle, Targets, Run, RunStatuses, NoRun
<1>2. Memory /\ OneInsert
  BY DEF Init, Memory, MemoryOf, OneInsert, Idle
<1>3. Outcomes
  BY DEF Init, Outcomes, ReportTogether, SucceededHasReport, Committed, NoRun
<1> QED
  BY <1>1, <1>2, <1>3 DEF IInv

\* Requests for a report, of which the job may exist already.
LEMMA CreateInv ==
  ASSUME IInv, NEW k, job' = CreateOrGet(k),
         UNCHANGED <<evidence, wk, run, marker, notice>>
  PROVE  IInv'
<1>1. RowTypes'
  BY DEF IInv, RowTypes, CreateOrGet
<1>2. Memory' /\ OneInsert'
  BY MemoryKept DEF IInv
<1>3. \A j \in Jobs : job'[j].st = "succeeded" => job[j].st = "succeeded"
  BY DEF IInv, RowTypes, CreateOrGet
<1>4. Outcomes'
  BY <1>3, OutcomesKept DEF IInv
<1> QED
  BY <1>1, <1>2, <1>4 DEF IInv

\* Steps that change none of the rows, but for the evidence and the mail.
LEMMA FrameInv ==
  ASSUME IInv, UNCHANGED <<job, wk, run, marker>>, evidence' \in 1..MaxEvidence,
         notice' = notice \/ (notice = "queued" /\ notice' = "sent")
  PROVE  IInv'
<1>1. RowTypes'
  BY DEF IInv, RowTypes
<1>2. Memory' /\ OneInsert'
  BY MemoryKept DEF IInv
<1>3. Outcomes'
  BY OutcomesKept DEF IInv
<1> QED
  BY <1>1, <1>2, <1>3 DEF IInv

LEMMA RequestInv ==
  ASSUME IInv, ChangeEvidence \/ Generate \/ SendNotice \/ Evaluate
  PROVE  IInv'
<1>1. CASE ChangeEvidence
  <2>1. evidence' \in 1..MaxEvidence
    BY <1>1, EvaluationAssumption DEF ChangeEvidence, IInv, RowTypes
  <2> QED
    BY <1>1, <2>1, FrameInv DEF ChangeEvidence
<1>2. CASE Generate
  BY <1>2, CreateInv DEF Generate
<1>3. CASE SendNotice
  <2>1. evidence' \in 1..MaxEvidence
    BY <1>3 DEF SendNotice, IInv, RowTypes
  <2> QED
    BY <1>3, <2>1, FrameInv DEF SendNotice
<1>4. CASE Evaluate
  <2>1. UNCHANGED <<evidence, wk, run, marker, notice>>
    BY <1>4 DEF Evaluate, PassMissing, PassDispatch, PassValid, PassInvalid,
                PassRaises, Pass
  <2>2. UNCHANGED job \/ \E k : job' = CreateOrGet(k)
    BY <1>4 DEF Evaluate, PassMissing, PassDispatch, PassValid, PassInvalid,
                PassRaises, Pass
  <2>3. CASE UNCHANGED job
    <3>1. evidence' \in 1..MaxEvidence
      BY <2>1 DEF IInv, RowTypes
    <3> QED
      BY <2>1, <2>3, <3>1, FrameInv
  <2>4. CASE \E k : job' = CreateOrGet(k)
    BY <2>1, <2>4, CreateInv
  <2> QED
    BY <2>2, <2>3, <2>4
<1> QED
  BY <1>1, <1>2, <1>3, <1>4

LEMMA RetryInv ==
  ASSUME IInv, NEW j \in Jobs, RetryDead(j)
  PROVE  IInv'
<1>1. /\ UNCHANGED <<evidence, wk, run, marker, notice>>
      /\ \E n \in {0, job[j].attempt} :
           job' = [job EXCEPT ![j] = [st |-> "queued", attempt |-> n]]
  BY DEF RetryDead
<1>2. RowTypes'
  BY <1>1 DEF IInv, RowTypes
<1>3. Memory' /\ OneInsert'
  BY <1>1, MemoryKept DEF IInv
<1>4. \A i \in Jobs : job'[i].st = "succeeded" => job[i].st = "succeeded"
  BY <1>1 DEF IInv, RowTypes
<1>5. Outcomes'
  BY <1>1, <1>4, OutcomesKept DEF IInv
<1> QED
  BY <1>2, <1>3, <1>5 DEF IInv

\* A worker that changes only what it remembers, and does not begin a run.
LEMMA StepInv ==
  ASSUME IInv, NEW w \in Workers, NEW m \in Worker, wk' = [wk EXCEPT ![w] = m],
         UNCHANGED <<evidence, run, marker, notice>>,
         RowTypes',
         m.pc # "evaluating",
         m.pc # "idle" => m.job \in Jobs,
         m.pc = "done" => m.target # "none",
         m.target = "succeeded" => m.pc = "done" /\ run[m.job].st = "completed",
         \A j \in Jobs : job'[j].st = "succeeded"
                           => job[j].st = "succeeded" \/ run[j].st = "completed"
  PROVE  IInv'
<1>1. \A v \in Workers : wk'[v] = IF v = w THEN m ELSE wk[v]
  BY DEF IInv, RowTypes
<1>2. Memory'
  BY <1>1 DEF IInv, Memory, MemoryOf
<1>3. OneInsert'
  BY <1>1 DEF IInv, OneInsert
<1>4. Outcomes'
  BY OutcomesKept DEF IInv
<1> QED
  BY <1>2, <1>3, <1>4 DEF IInv

LEMMA ClaimInv ==
  ASSUME IInv, NEW w \in Workers, NEW j \in Jobs, Claim(w, j)
  PROVE  IInv'
<1> DEFINE m == [Idle EXCEPT !.pc = "claimed", !.job = j,
                             !.attempt = job[j].attempt + 1]
<1>1. /\ UNCHANGED <<evidence, run, marker, notice>>
      /\ wk' = [wk EXCEPT ![w] = m]
      /\ job' = [job EXCEPT ![j] = [st |-> "running", attempt |-> @.attempt + 1]]
  BY DEF Claim
<1>2. m \in Worker
  <2>1. job[j].attempt + 1 \in Nat
    BY DEF IInv, RowTypes
  <2> QED
    BY <2>1, IdleTyped DEF Worker
<1>3. RowTypes'
  BY <1>1, <1>2 DEF IInv, RowTypes
<1>4. \A i \in Jobs : job'[i].st = "succeeded" => job[i].st = "succeeded"
  BY <1>1 DEF IInv, RowTypes
<1>5. m.pc = "claimed" /\ m.job = j /\ m.target = "none"
  BY DEF Idle
<1> HIDE DEF m
<1> QED
  BY <1>1, <1>2, <1>3, <1>4, <1>5, StepInv

\* A worker that ends the pipeline without touching runs.
LEMMA FinishInv ==
  ASSUME IInv, NEW w \in Workers, NEW target \in Targets \ {"none"},
         wk[w].pc # "idle", wk' = Finish(w, target),
         UNCHANGED <<evidence, job, run, marker, notice>>,
         target = "succeeded" => run[wk[w].job].st = "completed"
  PROVE  IInv'
<1> DEFINE m == [wk[w] EXCEPT !.pc = "done", !.target = target]
<1>1. wk' = [wk EXCEPT ![w] = m]
  BY DEF Finish, IInv, RowTypes
<1>2. wk[w] \in Worker /\ wk[w].job \in Jobs
  BY DEF IInv, RowTypes, Memory, MemoryOf
<1>3. m \in Worker
  BY <1>2 DEF Worker
<1>4. RowTypes'
  BY <1>1, <1>3 DEF IInv, RowTypes
<1>5. m.pc = "done" /\ m.job = wk[w].job /\ m.target = target
  BY <1>2 DEF Worker
<1> HIDE DEF m
<1> QED
  BY <1>1, <1>2, <1>3, <1>4, <1>5, StepInv

LEMMA LookUpInv ==
  ASSUME IInv, NEW w \in Workers, LookUp(w)
  PROVE  IInv'
<1> DEFINE known == OutcomeOfRun(wk[w].job)
           m == [wk[w] EXCEPT !.pc = "starting", !.evidence = evidence]
<1>1. wk[w] \in Worker /\ wk[w].pc = "claimed" /\ wk[w].job \in Jobs
  BY DEF LookUp, IInv, RowTypes, Memory, MemoryOf
<1>2. UNCHANGED <<evidence, job, run, marker, notice>>
  BY DEF LookUp
<1>3. CASE known = "none"
  <2>1. wk' = [wk EXCEPT ![w] = m]
    BY <1>3 DEF LookUp, IInv, RowTypes
  <2>2. m \in Worker
    <3>1. evidence \in 0..MaxEvidence
      BY EvaluationAssumption DEF IInv, RowTypes
    <3> QED
      BY <1>1, <3>1 DEF Worker
  <2>3. RowTypes'
    BY <1>2, <2>1, <2>2 DEF IInv, RowTypes
  <2>4. /\ m.pc = "starting" /\ m.job = wk[w].job /\ m.target = wk[w].target
        /\ m.target # "succeeded"
    BY <1>1 DEF Worker, IInv, Memory, MemoryOf
  <2> HIDE DEF m
  <2> QED
    BY <1>1, <1>2, <2>1, <2>2, <2>3, <2>4, StepInv
<1>4. CASE known # "none"
  <2>1. /\ known \in Targets \ {"none"}
        /\ known = "succeeded" => run[wk[w].job].st = "completed"
    BY <1>1, <1>4 DEF OutcomeOfRun, Targets, IInv, RowTypes, Run, RunStatuses
  <2>2. wk' = Finish(w, known)
    BY <1>4 DEF LookUp
  <2> HIDE DEF known
  <2> QED
    BY <1>1, <1>2, <2>1, <2>2, FinishInv
<1> QED
  BY <1>3, <1>4

LEMMA StartInv ==
  ASSUME IInv, NEW w \in Workers, StartRun(w)
  PROVE  IInv'
<1>1. wk[w] \in Worker /\ wk[w].pc = "starting" /\ wk[w].job \in Jobs
  BY DEF StartRun, IInv, RowTypes, Memory, MemoryOf
<1>2. UNCHANGED <<evidence, job, run, marker, notice>>
  BY DEF StartRun
<1>3. CASE ~RunUnique(wk[w].job)
  <2>1. wk' = Finish(w, "retry")
    BY <1>3 DEF StartRun
  <2> QED
    BY <1>1, <1>2, <2>1, FinishInv DEF Targets
<1>4. CASE RunUnique(wk[w].job)
  <2>1. wk' = [wk EXCEPT ![w].pc = "evaluating"] /\ ~Evaluating(wk[w].job)
    BY <1>4 DEF StartRun
  <2>2. \A v \in Workers : wk'[v] = IF v = w THEN [wk[w] EXCEPT !.pc = "evaluating"]
                                             ELSE wk[v]
    BY <2>1 DEF IInv, RowTypes
  <2>3. wk' \in [Workers -> Worker]
    <3>1. [wk[w] EXCEPT !.pc = "evaluating"] \in Worker
      BY <1>1 DEF Worker
    <3> QED
      BY <2>1, <3>1 DEF IInv, RowTypes
  <2>4. RowTypes'
    BY <1>2, <2>3 DEF IInv, RowTypes
  <2>5. /\ wk'[w].pc = "evaluating" /\ wk'[w].job = wk[w].job
        /\ wk'[w].target = wk[w].target
    BY <1>1, <2>2 DEF Worker
  <2>6. Memory'
    <3>1. ASSUME NEW v \in Workers, v # w PROVE MemoryOf(v)'
      BY <1>2, <2>2, <3>1 DEF IInv, Memory, MemoryOf
    <3>2. MemoryOf(w)'
      BY <1>1, <1>2, <1>4, <2>5 DEF RunUnique, IInv, Memory, MemoryOf
    <3> QED
      BY <3>1, <3>2 DEF Memory
  <2>7. \A v \in Workers : wk[v].pc = "evaluating" => wk[v].job # wk[w].job
    BY <2>1 DEF Evaluating, Holders
  <2>8. OneInsert'
    BY <2>2, <2>5, <2>7 DEF IInv, OneInsert
  <2>9. Outcomes'
    BY <1>2, OutcomesKept DEF IInv
  <2> QED
    BY <2>4, <2>6, <2>8, <2>9 DEF IInv
<1> QED
  BY <1>3, <1>4

\* The other workers, when one commits a run of a job that had none.
LEMMA CommitMemory ==
  ASSUME IInv, NEW w \in Workers, wk[w].job \in Jobs, run[wk[w].job].st = "none",
         NEW r \in Run, run' = [run EXCEPT ![wk[w].job] = r],
         NEW target \in Targets \ {"none"}, wk' = Finish(w, target),
         target = "succeeded" => r.st = "completed",
         \A v \in Workers : v # w /\ wk[v].pc = "evaluating"
                              => wk[v].job # wk[w].job
  PROVE  Memory' /\ OneInsert' /\ wk' \in [Workers -> Worker]
           /\ run' \in [Jobs -> Run]
<1> DEFINE j == wk[w].job
<1>1. \A v \in Workers : wk[v] \in Worker
  BY DEF IInv, RowTypes
<1>2. \A v \in Workers : v # w => wk'[v] = wk[v]
  BY DEF Finish, IInv, RowTypes
<1>3. wk'[w] = [wk[w] EXCEPT !.pc = "done", !.target = target]
  BY DEF Finish, IInv, RowTypes
<1>4. /\ wk'[w].pc = "done" /\ wk'[w].job = j /\ wk'[w].target = target
      /\ wk'[w] \in Worker
  BY <1>1, <1>3 DEF Worker
<1>5. \A i \in Jobs : run'[i] = IF i = j THEN r ELSE run[i]
  BY DEF IInv, RowTypes
<1>6. ASSUME NEW v \in Workers, v # w PROVE MemoryOf(v)'
  <2>1. MemoryOf(v) /\ wk'[v] = wk[v]
    BY <1>2, <1>6 DEF IInv, Memory
  <2>2. CASE wk[v].job = j
    BY <1>5, <1>6, <2>1, <2>2 DEF MemoryOf
  <2>3. CASE wk[v].job # j
    BY <1>1, <1>5, <2>1, <2>3 DEF MemoryOf, Worker
  <2> QED
    BY <2>2, <2>3
<1>7. MemoryOf(w)'
  BY <1>4, <1>5 DEF MemoryOf
<1>8. OneInsert'
  BY <1>2, <1>4 DEF IInv, OneInsert
<1>9. wk' \in [Workers -> Worker]
  <2>1. [wk[w] EXCEPT !.pc = "done", !.target = target] \in Worker
    BY <1>3, <1>4
  <2> QED
    BY <2>1 DEF Finish, IInv, RowTypes
<1> QED
  BY <1>6, <1>7, <1>8, <1>9 DEF Memory, IInv, RowTypes

LEMMA CompleteInv ==
  ASSUME IInv, NEW w \in Workers, Complete(w)
  PROVE  IInv'
<1> DEFINE j == wk[w].job
<1>1. wk[w] \in Worker /\ wk[w].pc = "evaluating" /\ j \in Jobs /\ run[j].st = "none"
  BY DEF Complete, IInv, RowTypes, Memory, MemoryOf
<1>2. PICK sound \in BOOLEAN :
        run' = [run EXCEPT ![j] = RunOf(wk[w].evidence, "completed", sound)]
  BY DEF Complete
<1> DEFINE r == RunOf(wk[w].evidence, "completed", sound)
<1>3. r \in Run /\ r.st = "completed"
  BY <1>1 DEF RunOf, Run, RunStatuses, Worker
<1>4. \A v \in Workers : v # w /\ wk[v].pc = "evaluating" => wk[v].job # j
  BY <1>1 DEF IInv, OneInsert
<1>5. /\ marker' = j /\ notice' = NoticeOnce /\ UNCHANGED <<evidence, job>>
      /\ wk' = Finish(w, "succeeded") /\ run' = [run EXCEPT ![j] = r]
  BY <1>2 DEF Complete
<1> HIDE DEF r
<1>6. Memory' /\ OneInsert' /\ wk' \in [Workers -> Worker] /\ run' \in [Jobs -> Run]
  <2>1. "succeeded" \in Targets \ {"none"}
    BY DEF Targets
  <2> QED
    BY <1>1, <1>3, <1>4, <1>5, <2>1, CommitMemory
<1>7. notice' \in {"queued", "sent"}
  BY <1>5 DEF NoticeOnce, IInv, RowTypes
<1>8. RowTypes'
  BY <1>1, <1>5, <1>6, <1>7 DEF IInv, RowTypes
<1>9. \A i \in Jobs : run'[i] = IF i = j THEN r ELSE run[i]
  BY <1>5 DEF IInv, RowTypes
<1>10. ReportTogether'
  <2>1. j # None
    BY <1>1, NoneAssumption
  <2>2. j \in Committed("completed")'
    BY <1>1, <1>3, <1>9 DEF Committed
  <2> QED
    BY <1>3, <1>5, <1>7, <1>9, <1>1, <2>1, <2>2 DEF ReportTogether
<1>11. SucceededHasReport'
  BY <1>3, <1>5, <1>9 DEF IInv, Outcomes, SucceededHasReport
<1> QED
  BY <1>6, <1>8, <1>10, <1>11 DEF IInv, Outcomes

\* A failed run of a job that had none leaves the outcomes of the others.
LEMMA FailedRunInv ==
  ASSUME IInv, NEW w \in Workers, wk[w].job \in Jobs, run[wk[w].job].st = "none",
         NEW e \in 0..MaxEvidence,
         run' = [run EXCEPT ![wk[w].job] = RunOf(e, "failed", FALSE)],
         wk' = Finish(w, "dead_letter"),
         \A v \in Workers : v # w /\ wk[v].pc = "evaluating"
                              => wk[v].job # wk[w].job,
         UNCHANGED <<evidence, job, marker, notice>>
  PROVE  IInv'
<1> DEFINE j == wk[w].job
           r == RunOf(e, "failed", FALSE)
<1>1. r \in Run /\ r.st = "failed"
  BY DEF RunOf, Run, RunStatuses
<1> HIDE DEF r
<1>2. Memory' /\ OneInsert' /\ wk' \in [Workers -> Worker] /\ run' \in [Jobs -> Run]
  <2>1. "dead_letter" \in Targets \ {"none"}
    BY DEF Targets
  <2>2. run' = [run EXCEPT ![j] = r]
    BY DEF r
  <2> QED
    BY <1>1, <2>1, <2>2, CommitMemory
<1>3. RowTypes'
  BY <1>2 DEF IInv, RowTypes
<1>4. \A i \in Jobs : run'[i] = IF i = j THEN r ELSE run[i]
  BY DEF IInv, RowTypes, r
<1>5. Committed("completed")' = Committed("completed")
  <2>1. ASSUME NEW i \in Jobs
        PROVE  run'[i].st = "completed" <=> run[i].st = "completed"
    <3>1. CASE i = j
      BY <1>1, <1>4, <3>1
    <3>2. CASE i # j
      BY <1>4, <3>2
    <3> QED
      BY <3>1, <3>2
  <2> QED
    BY <2>1 DEF Committed, Jobs
<1>6. marker # None => marker \in Jobs /\ marker # j
  BY DEF IInv, RowTypes, Outcomes, ReportTogether
<1>7. ReportTogether'
  BY <1>4, <1>5, <1>6 DEF IInv, Outcomes, ReportTogether
<1>8. SucceededHasReport'
  BY <1>4 DEF IInv, Outcomes, SucceededHasReport
<1> QED
  BY <1>2, <1>3, <1>7, <1>8 DEF IInv, Outcomes

LEMMA FailInv ==
  ASSUME IInv, NEW w \in Workers, Fail(w)
  PROVE  IInv'
<1> DEFINE j == wk[w].job
<1>1. /\ wk[w] \in Worker /\ j \in Jobs /\ run[j].st = "none"
      /\ wk[w].pc = "evaluating" /\ wk[w].evidence \in 0..MaxEvidence
  BY DEF Fail, IInv, RowTypes, Memory, MemoryOf, Worker
<1>2. \A v \in Workers : v # w /\ wk[v].pc = "evaluating" => wk[v].job # j
  BY <1>1 DEF IInv, OneInsert
<1>3. /\ run' = [run EXCEPT ![j] = RunOf(wk[w].evidence, "failed", FALSE)]
      /\ wk' = Finish(w, "dead_letter")
      /\ UNCHANGED <<evidence, job, marker, notice>>
  BY DEF Fail
<1> QED
  BY <1>1, <1>2, <1>3, FailedRunInv

LEMMA RefuseInv ==
  ASSUME IInv, NEW w \in Workers, RefuseSnapshot(w)
  PROVE  IInv'
<1> DEFINE j == wk[w].job
<1>1. wk[w] \in Worker /\ wk[w].pc = "claimed" /\ j \in Jobs
  BY DEF RefuseSnapshot, IInv, RowTypes, Memory, MemoryOf
<1>2. UNCHANGED <<evidence, job, marker, notice>>
  BY DEF RefuseSnapshot
<1>3. CASE run[j].st = "none"
  <2>1. /\ run' = [run EXCEPT ![j] = RunOf(evidence, "failed", FALSE)]
        /\ wk' = Finish(w, "dead_letter")
    BY <1>3 DEF RefuseSnapshot
  <2>2. \A v \in Workers : wk[v].pc = "evaluating" => wk[v].job # j
    BY DEF RefuseSnapshot, Evaluating, Holders
  <2>3. evidence \in 0..MaxEvidence
    BY EvaluationAssumption DEF IInv, RowTypes
  <2> QED
    BY <1>1, <1>2, <1>3, <2>1, <2>2, <2>3, FailedRunInv
<1>4. CASE run[j].st # "none"
  <2>1. wk' = Finish(w, "retry") /\ UNCHANGED run
    BY <1>4 DEF RefuseSnapshot
  <2> QED
    BY <1>1, <1>2, <2>1, FinishInv DEF Targets
<1> QED
  BY <1>3, <1>4

LEMMA AbortInv ==
  ASSUME IInv, NEW w \in Workers, Abort(w)
  PROVE  IInv'
  BY FinishInv DEF Abort, Targets

\* A worker that is idle again: it recorded an outcome or died.
LEMMA IdleInv ==
  ASSUME IInv, NEW w \in Workers, wk' = [wk EXCEPT ![w] = Idle],
         UNCHANGED <<evidence, run, marker, notice>>,
         job' \in [Jobs -> [st : {"absent", "queued", "running", "succeeded",
                                  "dead_letter"}, attempt : Nat]],
         \A j \in Jobs : job'[j].st = "succeeded"
                           => job[j].st = "succeeded" \/ run[j].st = "completed"
  PROVE  IInv'
<1>1. Idle \in Worker
  BY IdleTyped
<1>2. RowTypes'
  BY <1>1 DEF IInv, RowTypes
<1>3. Idle.pc = "idle" /\ Idle.target = "none"
  BY DEF Idle
<1> QED
  BY <1>1, <1>2, <1>3, StepInv

LEMMA RecordInv ==
  ASSUME IInv, NEW w \in Workers, Record(w)
  PROVE  IInv'
<1> DEFINE j == wk[w].job
<1>1. /\ wk[w] \in Worker /\ j \in Jobs /\ wk[w].pc = "done"
      /\ wk[w].target # "none"
      /\ wk[w].target = "succeeded" => run[j].st = "completed"
  BY DEF Record, IInv, RowTypes, Memory, MemoryOf
<1>2. /\ job' = [job EXCEPT ![j].st = Outcome(w)]
      /\ wk' = [wk EXCEPT ![w] = Idle]
      /\ UNCHANGED <<evidence, run, marker, notice>>
  BY DEF Record
<1>3. /\ Outcome(w) \in {"succeeded", "dead_letter", "queued"}
      /\ Outcome(w) = "succeeded" => wk[w].target = "succeeded"
  BY <1>1 DEF Outcome, Worker, Targets
<1> HIDE DEF j
<1>4. job' \in [Jobs -> [st : {"absent", "queued", "running", "succeeded",
                               "dead_letter"}, attempt : Nat]]
  BY <1>1, <1>2, <1>3 DEF IInv, RowTypes
<1>5. \A i \in Jobs : job'[i].st = "succeeded"
                        => job[i].st = "succeeded" \/ run[i].st = "completed"
  BY <1>1, <1>2, <1>3 DEF IInv, RowTypes
<1> QED
  BY <1>2, <1>4, <1>5, IdleInv

LEMMA CrashInv ==
  ASSUME IInv, NEW w \in Workers, Crash(w)
  PROVE  IInv'
<1>1. wk' = [wk EXCEPT ![w] = Idle] /\ UNCHANGED <<evidence, job, run, marker, notice>>
  BY DEF Crash
<1> QED
  BY <1>1, IdleInv DEF IInv, RowTypes

LEMMA NextInv == IInv /\ [Next]_vars => IInv'
<1> SUFFICES ASSUME IInv, [Next]_vars PROVE IInv'
  OBVIOUS
<1>1. CASE UNCHANGED vars
  <2>1. evidence' \in 1..MaxEvidence
    BY <1>1 DEF vars, IInv, RowTypes
  <2> QED
    BY <1>1, <2>1, FrameInv DEF vars
<1>2. CASE ChangeEvidence \/ Generate \/ SendNotice \/ Evaluate
  BY <1>2, RequestInv
<1>3. ASSUME NEW j \in Jobs, RetryDead(j) PROVE IInv'
  BY <1>3, RetryInv
<1>4. ASSUME NEW w \in Workers, WorkerStep(w) \/ RefuseSnapshot(w) \/ Crash(w)
      PROVE  IInv'
  BY <1>4, LookUpInv, StartInv, CompleteInv, FailInv, AbortInv, RecordInv,
     RefuseInv, CrashInv
  DEF WorkerStep
<1>5. ASSUME NEW w \in Workers, NEW j \in Jobs, Claim(w, j) PROVE IInv'
  BY <1>5, ClaimInv
<1> QED
  BY <1>1, <1>2, <1>3, <1>4, <1>5 DEF Next

LEMMA Invariance == Spec => []IInv
  BY InitInv, NextInv, PTL DEF Spec

\* A job is recorded as succeeded only if its report is there
\* (handle_evaluation_run raises for a failed run).
THEOREM SuccessMeansReport == Spec => []SucceededHasReport
<1>1. IInv => SucceededHasReport
  BY DEF IInv, Outcomes
<1> QED
  BY <1>1, Invariance, PTL

\* A committed run is never replaced (get_run_by_job_id, ix_evaluation_runs_job_id).
THEOREM RunsAreFinal == Spec => RunsStay
<1>1. ASSUME IInv, [Next]_vars
      PROVE  [\A j \in Jobs : run[j].st # "none" => run'[j] = run[j]]_vars
  <2> SUFFICES ASSUME NEW j \in Jobs, run[j].st # "none"
               PROVE  run'[j] = run[j]
    OBVIOUS
  <2>1. run \in [Jobs -> Run]
    BY <1>1 DEF IInv, RowTypes
  <2>2. ASSUME NEW w \in Workers, Complete(w) \/ Fail(w) PROVE run'[j] = run[j]
    <3>1. run[wk[w].job].st = "none"
      BY <1>1, <2>2 DEF IInv, Memory, MemoryOf, Complete, Fail
    <3> QED
      BY <2>1, <2>2, <3>1 DEF Complete, Fail
  <2>3. ASSUME NEW w \in Workers, RefuseSnapshot(w) PROVE run'[j] = run[j]
    BY <2>1, <2>3 DEF RefuseSnapshot
  <2>4. ASSUME NEW w \in Workers, LookUp(w) \/ StartRun(w) \/ Abort(w) \/ Record(w)
                                  \/ Crash(w)
        PROVE  UNCHANGED run
    BY <2>4 DEF LookUp, StartRun, Abort, Record, Crash
  <2>5. ASSUME ChangeEvidence \/ Generate \/ SendNotice \/ Evaluate
        PROVE  UNCHANGED run
    BY <2>5 DEF ChangeEvidence, Generate, SendNotice, Evaluate, PassMissing,
                PassDispatch, PassValid, PassInvalid, PassRaises, Pass
  <2>6. ASSUME NEW i \in Jobs, RetryDead(i) PROVE UNCHANGED run
    BY <2>6 DEF RetryDead
  <2>7. ASSUME NEW w \in Workers, NEW i \in Jobs, Claim(w, i) PROVE UNCHANGED run
    BY <2>7 DEF Claim
  <2> QED
    BY <1>1, <2>2, <2>3, <2>4, <2>5, <2>6, <2>7 DEF Next, WorkerStep, vars
<1> QED
  BY <1>1, Invariance, PTL DEF Spec, RunsStay

-----------------------------------------------------------------------------
(* The order of started_at *)

\* Jobs with a run, committed or in an open transaction.
Live == {j \in Jobs : run[j].st # "none" \/ Evaluating(j)}

IsOrder(S, R) ==
  /\ R \subseteq S \X S
  /\ \A i, j \in S : <<i, j>> \in R \/ <<j, i>> \in R
  /\ \A i, j \in S : <<i, j>> \in R /\ <<j, i>> \in R => i = j
  /\ \A i, j, k \in S : <<i, j>> \in R /\ <<j, k>> \in R => <<i, k>> \in R

Order == Begun = Live /\ IsOrder(Live, begun)

\* What Without leaves of an order.
Removed(R, j) == {p \in R : p[1] # j /\ p[2] # j}

\* The rest of the types.
Books ==
  /\ begun \subseteq Jobs \X Jobs
  /\ state \in EvaluationState
  /\ passes \in Nat /\ faults \in Nat

OInv == IInv /\ Books /\ Order

\* A run that is begun last, and one that is rolled back.
LEMMA AppendOrder ==
  ASSUME NEW S, NEW R, IsOrder(S, R), NEW j, j \notin S
  PROVE  IsOrder(S \cup {j}, R \cup {<<i, j>> : i \in S \cup {j}})
<1> DEFINE T == S \cup {j}
           Q == R \cup {<<i, j>> : i \in T}
<1>1. \A h, i \in T : <<h, i>> \in Q <=> i = j \/ <<h, i>> \in R
  OBVIOUS
<1>2. \A h, i : <<h, i>> \in R => h \in S /\ i \in S
  BY DEF IsOrder
<1>3. Q \subseteq T \X T
  BY DEF IsOrder
<1> HIDE DEF Q
<1> QED
  BY <1>1, <1>2, <1>3 DEF IsOrder

LEMMA RemoveOrder ==
  ASSUME NEW S, NEW R, IsOrder(S, R), NEW j
  PROVE  IsOrder(S \ {j}, Removed(R, j))
<1> DEFINE T == S \ {j}
           Q == Removed(R, j)
<1>1. \A h, i \in T : <<h, i>> \in Q <=> <<h, i>> \in R
  BY DEF Removed
<1>2. Q \subseteq T \X T
  <2> SUFFICES ASSUME NEW p \in Q PROVE p \in T \X T
    OBVIOUS
  <2>1. p \in S \X S
    BY DEF Removed, IsOrder
  <2> QED
    BY <2>1 DEF Removed
<1> QED
  BY <1>1, <1>2 DEF IsOrder

\* A finite ordered set that is not empty has a last element: those after it
\* are the smallest of all such sets.
LEMMA LastExists ==
  ASSUME NEW S, NEW R, IsOrder(S, R), NEW T, T \subseteq S, T # {}, IsFiniteSet(T)
  PROVE  \E j \in T : \A i \in T : <<i, j>> \in R
<1> DEFINE After(j) == {i \in T : <<j, i>> \in R}
           Ups == {After(j) : j \in T}
<1>1. IsWellFoundedOn(StrictSubsetOrdering(T), SUBSET T)
  BY FS_StrictSubsetOrderingWellFounded, FS_FiniteSubsetsOfFinite, Zenon
<1>2. Ups \subseteq SUBSET T /\ Ups # {}
  OBVIOUS
<1>3. PICK U \in Ups : \A V \in Ups : ~ (<<V, U>> \in StrictSubsetOrdering(T))
  <2> HIDE DEF Ups
  <2> QED
    BY <1>1, <1>2, WFMin, Zenon
<1>4. PICK j \in T : U = After(j)
  OBVIOUS
<1>5. ASSUME NEW i \in T PROVE <<i, j>> \in R
  <2> SUFFICES ASSUME <<i, j>> \notin R PROVE FALSE
    OBVIOUS
  <2>1. i \in S /\ j \in S /\ <<j, i>> \in R /\ <<j, j>> \in R
    BY DEF IsOrder
  <2>2. After(i) \subseteq After(j)
    BY <2>1 DEF IsOrder
  <2>3. j \in After(j) /\ j \notin After(i)
    BY <2>1
  <2>4. After(i) \in Ups /\ After(i) \in SUBSET T /\ After(j) \in SUBSET T
    OBVIOUS
  <2>5. <<After(i), After(j)>> \in StrictSubsetOrdering(T)
    BY <2>2, <2>3, <2>4 DEF StrictSubsetOrdering
  <2> QED
    BY <1>3, <1>4, <2>4, <2>5
<1> QED
  BY <1>5

\* The same for the order kept in begun.
LEMMA BeginOrder ==
  ASSUME Order, Books, NEW j \in Jobs, j \notin Live, begun' = Begin(j),
         Live' = Live \cup {j}
  PROVE  Order'
<1>1. begun' = begun \cup {<<i, j>> : i \in Live \cup {j}}
  BY DEF Begin, Order
<1>2. IsOrder(Live, begun)'
  BY <1>1, AppendOrder DEF Order
<1>3. Begun' = Live'
  <2>1. Live' \subseteq Jobs
    BY DEF Live
  <2>2. ASSUME NEW i \in Jobs PROVE <<i, i>> \in begun' <=> i \in Live'
    BY <1>2, <2>2 DEF IsOrder
  <2> QED
    BY <2>1, <2>2 DEF Begun
<1> QED
  BY <1>2, <1>3 DEF Order

LEMMA WithoutOrder ==
  ASSUME Order, Books, NEW j \in Jobs, begun' = Without(j),
         Live' = Live \ {j}
  PROVE  Order'
<1>1. begun' = Removed(begun, j)
  BY DEF Without, Removed
<1>2. IsOrder(Live, begun)'
  <2>1. IsOrder(Live, begun)
    BY DEF Order
  <2>2. IsOrder(Live \ {j}, Removed(begun, j))
    BY <2>1, RemoveOrder
  <2> QED
    BY <1>1, <2>2
<1>3. Begun' = Live'
  <2>1. Live' \subseteq Jobs
    BY DEF Live
  <2>2. ASSUME NEW i \in Jobs PROVE <<i, i>> \in begun' <=> i \in Live'
    BY <1>2, <2>2 DEF IsOrder
  <2> QED
    BY <2>1, <2>2 DEF Begun
<1> QED
  BY <1>2, <1>3 DEF Order

LEMMA SameOrder ==
  ASSUME Order, UNCHANGED begun, Live' = Live
  PROVE  Order'
  BY DEF Order, Begun

\* What a worker's step does to the memories.
LEMMA OneMemory ==
  ASSUME IInv, NEW w \in Workers, NEW m \in Worker, wk' = [wk EXCEPT ![w] = m]
  PROVE  \A v \in Workers : wk'[v] = IF v = w THEN m ELSE wk[v]
  BY DEF IInv, RowTypes

\* A worker that neither begins nor ends an evaluation.
LEMMA QuietOrder ==
  ASSUME OInv, NEW w \in Workers, NEW m \in Worker, wk' = [wk EXCEPT ![w] = m],
         UNCHANGED <<run, begun>>,
         wk[w].pc # "evaluating", m.pc # "evaluating"
  PROVE  Order'
<1>1. \A v \in Workers : wk'[v] = IF v = w THEN m ELSE wk[v]
  BY OneMemory DEF OInv
<1>2. ASSUME NEW j \in Jobs PROVE Evaluating(j)' <=> Evaluating(j)
  BY <1>1 DEF Evaluating, Holders
<1>3. Live' = Live
  BY <1>2 DEF Live
<1> QED
  BY <1>3, SameOrder DEF OInv

\* A worker that commits the run it began.
LEMMA CommitOrder ==
  ASSUME OInv, NEW w \in Workers, wk[w].pc = "evaluating",
         NEW m \in Worker, wk' = [wk EXCEPT ![w] = m], m.pc # "evaluating",
         NEW r \in Run, r.st # "none", run' = [run EXCEPT ![wk[w].job] = r],
         UNCHANGED begun
  PROVE  Order'
<1>1. wk[w].job \in Jobs
  BY DEF OInv, IInv, Memory, MemoryOf
<1>2. \A i \in Jobs : run'[i] = IF i = wk[w].job THEN r ELSE run[i]
  BY DEF OInv, IInv, RowTypes
<1>3. \A v \in Workers : wk'[v] = IF v = w THEN m ELSE wk[v]
  BY OneMemory DEF OInv
<1>4. ASSUME NEW j \in Jobs
      PROVE  run'[j].st # "none" \/ Evaluating(j)'
               <=> run[j].st # "none" \/ Evaluating(j)
  BY <1>2, <1>3 DEF Evaluating, Holders
<1>5. Live' = Live
  BY <1>4 DEF Live
<1> QED
  BY <1>5, SameOrder DEF OInv

\* A worker whose transaction is rolled back.
LEMMA RollbackOrder ==
  ASSUME OInv, NEW w \in Workers, wk[w].pc = "evaluating",
         NEW m \in Worker, wk' = [wk EXCEPT ![w] = m], m.pc # "evaluating",
         UNCHANGED run, begun' = Without(wk[w].job)
  PROVE  Order'
<1> DEFINE j == wk[w].job
<1>1. /\ j \in Jobs /\ run[j].st = "none"
      /\ \A v \in Workers \ {w} : wk[v].pc = "evaluating" => wk[v].job # j
  BY DEF OInv, IInv, Memory, MemoryOf, OneInsert
<1>2. \A v \in Workers : wk'[v] = IF v = w THEN m ELSE wk[v]
  BY OneMemory DEF OInv
<1>3. ASSUME NEW i \in Jobs
      PROVE  run'[i].st # "none" \/ Evaluating(i)'
               <=> (run[i].st # "none" \/ Evaluating(i)) /\ i # j
  BY <1>1, <1>2 DEF Evaluating, Holders
<1>4. Live' = Live \ {j}
  BY <1>3 DEF Live
<1> QED
  BY <1>1, <1>4, WithoutOrder DEF OInv

LEMMA StartOrder ==
  ASSUME OInv, NEW w \in Workers, StartRun(w)
  PROVE  Order'
<1> DEFINE j == wk[w].job
<1>1. wk[w] \in Worker /\ wk[w].pc = "starting" /\ j \in Jobs /\ ~Evaluating(j)
  BY DEF StartRun, OInv, IInv, RowTypes, Memory, MemoryOf
<1>2. CASE run[j].st = "none"
  <2> DEFINE m == [wk[w] EXCEPT !.pc = "evaluating"]
  <2>1. wk' = [wk EXCEPT ![w] = m] /\ begun' = Begin(j) /\ UNCHANGED run
    BY <1>2 DEF StartRun, RunUnique, OInv, IInv, RowTypes
  <2>2. m \in Worker /\ m.pc = "evaluating" /\ m.job = j
    BY <1>1 DEF Worker
  <2> HIDE DEF m
  <2>3. \A i \in Jobs : Evaluating(i)' <=> Evaluating(i) \/ i = j
    <3>1. \A v \in Workers : wk'[v] = IF v = w THEN m ELSE wk[v]
      BY <2>1, <2>2, OneMemory DEF OInv
    <3> QED
      BY <1>1, <2>2, <3>1 DEF Evaluating, Holders
  <2>4. Live' = Live \cup {j} /\ j \notin Live
    BY <1>1, <1>2, <2>1, <2>3 DEF Live
  <2> QED
    BY <1>1, <2>1, <2>4, BeginOrder DEF OInv
<1>3. CASE run[j].st # "none"
  <2> DEFINE m == [wk[w] EXCEPT !.pc = "done", !.target = "retry"]
  <2>1. wk' = [wk EXCEPT ![w] = m] /\ UNCHANGED <<run, begun>>
    BY <1>3 DEF StartRun, RunUnique, Finish
  <2>2. m \in Worker /\ m.pc = "done"
    BY <1>1 DEF Worker, Targets
  <2> HIDE DEF m
  <2> QED
    BY <1>1, <2>1, <2>2, QuietOrder
<1> QED
  BY <1>2, <1>3

LEMMA RefuseOrder ==
  ASSUME OInv, NEW w \in Workers, RefuseSnapshot(w)
  PROVE  Order'
<1> DEFINE j == wk[w].job
           m(t) == [wk[w] EXCEPT !.pc = "done", !.target = t]
<1>1. wk[w] \in Worker /\ wk[w].pc = "claimed" /\ j \in Jobs /\ ~Evaluating(j)
  BY DEF RefuseSnapshot, OInv, IInv, RowTypes, Memory, MemoryOf
<1>2. \A t \in Targets : m(t) \in Worker /\ m(t).pc = "done"
  BY <1>1 DEF Worker
<1>3. CASE run[j].st = "none"
  <2>1. /\ wk' = [wk EXCEPT ![w] = m("dead_letter")] /\ begun' = Begin(j)
        /\ run' = [run EXCEPT ![j] = RunOf(evidence, "failed", FALSE)]
    BY <1>3 DEF RefuseSnapshot, Finish
  <2>2. m("dead_letter") \in Worker /\ m("dead_letter").pc = "done"
    BY <1>2 DEF Targets
  <2> HIDE DEF m
  <2>3. \A i \in Jobs : Evaluating(i)' <=> Evaluating(i)
    <3>1. \A v \in Workers : wk'[v] = IF v = w THEN m("dead_letter") ELSE wk[v]
      BY <2>1, <2>2, OneMemory DEF OInv
    <3> QED
      BY <1>1, <2>2, <3>1 DEF Evaluating, Holders
  <2>4. \A i \in Jobs : run'[i].st # "none" <=> run[i].st # "none" \/ i = j
    BY <1>1, <2>1 DEF RunOf, OInv, IInv, RowTypes
  <2>5. Live' = Live \cup {j} /\ j \notin Live
    BY <1>1, <1>3, <2>3, <2>4 DEF Live
  <2> QED
    BY <1>1, <2>1, <2>5, BeginOrder DEF OInv
<1>4. CASE run[j].st # "none"
  <2>1. wk' = [wk EXCEPT ![w] = m("retry")] /\ UNCHANGED <<run, begun>>
    BY <1>4 DEF RefuseSnapshot, Finish
  <2>2. m("retry") \in Worker /\ m("retry").pc = "done"
    BY <1>2 DEF Targets
  <2> HIDE DEF m
  <2> QED
    BY <1>1, <2>1, <2>2, QuietOrder
<1> QED
  BY <1>3, <1>4

LEMMA EndOrder ==
  ASSUME OInv, NEW w \in Workers, Complete(w) \/ Fail(w) \/ Abort(w)
  PROVE  Order'
<1> DEFINE m(t) == [wk[w] EXCEPT !.pc = "done", !.target = t]
<1>1. /\ wk[w] \in Worker /\ wk[w].pc = "evaluating"
      /\ wk[w].evidence \in 0..MaxEvidence
  BY DEF Complete, Fail, Abort, OInv, IInv, RowTypes, Worker
<1>2. \A t \in Targets : m(t) \in Worker /\ m(t).pc = "done"
  BY <1>1 DEF Worker
<1>3. PICK t \in Targets : wk' = [wk EXCEPT ![w] = m(t)]
  BY DEF Complete, Fail, Abort, Finish, Targets
<1>4. m(t) \in Worker /\ m(t).pc = "done"
  BY <1>2
<1>5. CASE Abort(w)
  <2>1. UNCHANGED run /\ begun' = Without(wk[w].job)
    BY <1>5 DEF Abort
  <2> HIDE DEF m
  <2> QED
    BY <1>1, <1>3, <1>4, <2>1, RollbackOrder
<1>6. CASE Complete(w) \/ Fail(w)
  <2>1. PICK s \in {"completed", "failed"}, b \in BOOLEAN :
          run' = [run EXCEPT ![wk[w].job] = RunOf(wk[w].evidence, s, b)]
    BY <1>6 DEF Complete, Fail
  <2>2. /\ RunOf(wk[w].evidence, s, b) \in Run
        /\ RunOf(wk[w].evidence, s, b).st # "none"
    BY <1>1 DEF RunOf, Run, RunStatuses
  <2>3. UNCHANGED begun
    BY <1>6 DEF Complete, Fail
  <2> HIDE DEF m
  <2> QED
    BY <1>1, <1>3, <1>4, <2>1, <2>2, <2>3, CommitOrder
<1> QED
  BY <1>5, <1>6

LEMMA CrashOrder ==
  ASSUME OInv, NEW w \in Workers, Crash(w)
  PROVE  Order'
<1>1. Idle \in Worker /\ Idle.pc = "idle"
  BY IdleTyped DEF Idle
<1>2. wk' = [wk EXCEPT ![w] = Idle] /\ UNCHANGED run
  BY DEF Crash
<1>3. CASE wk[w].pc = "evaluating"
  BY <1>1, <1>2, <1>3, RollbackOrder DEF Crash
<1>4. CASE wk[w].pc # "evaluating"
  BY <1>1, <1>2, <1>4, QuietOrder DEF Crash
<1> QED
  BY <1>3, <1>4

LEMMA QuietSteps ==
  ASSUME OInv, NEW w \in Workers,
         \/ LookUp(w) \/ Record(w)
         \/ \E j \in Jobs : Claim(w, j)
  PROVE  Order'
<1>1. wk' \in [Workers -> Worker]
  BY LookUpInv, RecordInv, ClaimInv DEF OInv, IInv, RowTypes
<1>2. /\ UNCHANGED <<run, begun>>
      /\ wk[w].pc # "evaluating"
      /\ \A v \in Workers \ {w} : wk'[v] = wk[v]
  BY DEF LookUp, Record, Claim, Finish, OInv, IInv, RowTypes
<1>3. wk'[w].pc # "evaluating"
  <2>1. wk[w] \in Worker
    BY DEF OInv, IInv, RowTypes
  <2>2. CASE LookUp(w)
    BY <2>1, <2>2 DEF LookUp, Finish, OInv, IInv, RowTypes, Worker
  <2>3. CASE Record(w)
    BY <2>3 DEF Record, OInv, IInv, RowTypes, Idle
  <2>4. ASSUME NEW j \in Jobs, Claim(w, j) PROVE wk'[w].pc # "evaluating"
    BY <2>4 DEF Claim, OInv, IInv, RowTypes, Idle
  <2> QED
    BY <2>2, <2>3, <2>4
<1>4. wk' = [wk EXCEPT ![w] = wk'[w]]
  BY <1>1, <1>2 DEF OInv, IInv, RowTypes
<1> QED
  BY <1>1, <1>2, <1>3, <1>4, QuietOrder

LEMMA BooksInv ==
  ASSUME OInv, [Next]_vars
  PROVE  Books'
<1>1. begun' \subseteq Jobs \X Jobs
  <2>1. ASSUME NEW w \in Workers, StartRun(w) \/ RefuseSnapshot(w)
        PROVE  begun' \subseteq Jobs \X Jobs
    <3>1. wk[w].job \in Jobs
      BY <2>1 DEF StartRun, RefuseSnapshot, OInv, IInv, Memory, MemoryOf
    <3>2. Begin(wk[w].job) \subseteq Jobs \X Jobs
      <4>1. begun \subseteq Jobs \X Jobs /\ Begun \subseteq Jobs
        BY DEF Begun, OInv, Books
      <4>2. {<<i, wk[w].job>> : i \in Begun \cup {wk[w].job}} \subseteq Jobs \X Jobs
        BY <3>1, <4>1
      <4> QED
        BY <4>1, <4>2 DEF Begin
    <3>3. begun' = begun \/ begun' = Begin(wk[w].job)
      BY <2>1 DEF StartRun, RefuseSnapshot
    <3> QED
      BY <3>2, <3>3 DEF OInv, Books
  <2>2. ASSUME NEW w \in Workers, Abort(w) \/ Crash(w) \/ Complete(w) \/ Fail(w)
                                   \/ LookUp(w) \/ Record(w)
        PROVE  begun' \subseteq begun
    BY <2>2 DEF Abort, Crash, Complete, Fail, LookUp, Record, Without
  <2>3. ASSUME \/ ChangeEvidence \/ Generate \/ SendNotice \/ Evaluate
               \/ UNCHANGED vars
               \/ \E j \in Jobs : RetryDead(j)
               \/ \E w \in Workers, j \in Jobs : Claim(w, j)
        PROVE  UNCHANGED begun
    BY <2>3 DEF ChangeEvidence, Generate, SendNotice, Evaluate, PassMissing,
                PassDispatch, PassValid, PassInvalid, PassRaises, Pass,
                RetryDead, Claim, vars
  <2> QED
    BY <2>1, <2>2, <2>3 DEF Next, WorkerStep, OInv, Books
<1>2. state' \in EvaluationState
  <2>1. CASE Evaluate
    <3>1. state.retries + 1 \in Nat
      BY DEF OInv, Books, EvaluationState
    <3>2. PICK name \in States, n \in {0, state.retries + 1} :
            state' = [name |-> name, retries |-> n]
      BY <2>1 DEF Evaluate, PassMissing, PassDispatch, PassValid, PassInvalid,
                  PassRaises, Pass, States
    <3> QED
      BY <3>1, <3>2 DEF EvaluationState
  <2>2. ASSUME NEW w \in Workers, Complete(w)
        PROVE  state' \in EvaluationState
    BY <2>2 DEF Complete, Finalized, EvaluationState, States
  <2>3. ASSUME \/ ChangeEvidence \/ Generate \/ SendNotice \/ UNCHANGED vars
               \/ \E j \in Jobs : RetryDead(j)
               \/ \E w \in Workers, j \in Jobs : Claim(w, j)
               \/ \E w \in Workers : \/ RefuseSnapshot(w) \/ Crash(w) \/ LookUp(w)
                                     \/ StartRun(w) \/ Fail(w) \/ Abort(w)
                                     \/ Record(w)
        PROVE  UNCHANGED state
    BY <2>3 DEF ChangeEvidence, Generate, SendNotice, RetryDead, Claim,
                RefuseSnapshot, Crash, LookUp, StartRun, Fail, Abort, Record, vars
  <2> QED
    BY <2>1, <2>2, <2>3 DEF Next, WorkerStep, OInv, Books
<1>3. passes' \in Nat
  <2>1. passes' \in {passes, passes + 1}
    BY DEF Next, WorkerStep, vars, ChangeEvidence, Generate, SendNotice, Evaluate,
           PassMissing, PassDispatch, PassValid, PassInvalid, PassRaises, Pass,
           RetryDead, Claim, RefuseSnapshot, Crash, LookUp, StartRun, Complete,
           Fail, Abort, Record
  <2> QED
    BY <2>1 DEF OInv, Books
<1>4. faults' \in Nat
  <2>1. faults' \in {faults, faults + 1}
    BY DEF Next, WorkerStep, vars, ChangeEvidence, Generate, SendNotice, Evaluate,
           PassMissing, PassDispatch, PassValid, PassInvalid, PassRaises, Pass,
           RetryDead, Claim, RefuseSnapshot, Crash, LookUp, StartRun, Complete,
           Fail, Abort, Record, Fault
  <2> QED
    BY <2>1 DEF OInv, Books
<1> QED
  BY <1>1, <1>2, <1>3, <1>4 DEF Books

LEMMA OrderInv ==
  ASSUME OInv, [Next]_vars
  PROVE  Order'
<1>1. ASSUME NEW w \in Workers, WorkerStep(w) \/ RefuseSnapshot(w) \/ Crash(w)
      PROVE  Order'
  BY <1>1, StartOrder, RefuseOrder, EndOrder, CrashOrder, QuietSteps DEF WorkerStep
<1>2. ASSUME NEW w \in Workers, NEW j \in Jobs, Claim(w, j) PROVE Order'
  BY <1>2, QuietSteps
<1>3. ASSUME \/ ChangeEvidence \/ Generate \/ SendNotice \/ Evaluate
             \/ UNCHANGED vars
             \/ \E j \in Jobs : RetryDead(j)
      PROVE  Order'
  <2>1. UNCHANGED <<wk, run, begun>>
    BY <1>3 DEF ChangeEvidence, Generate, SendNotice, Evaluate, PassMissing,
                PassDispatch, PassValid, PassInvalid, PassRaises, Pass,
                RetryDead, vars
  <2>2. Live' = Live
    BY <2>1 DEF Live, Evaluating, Holders
  <2> QED
    BY <2>1, <2>2, SameOrder DEF OInv
<1> QED
  BY <1>1, <1>2, <1>3 DEF Next

LEMMA OrderInvariance == Spec => []OInv
<1>1. Init => OInv
  <2> SUFFICES ASSUME Init PROVE OInv
    OBVIOUS
  <2>1. Books
    BY DEF Init, Books, EvaluationState, States
  <2>2. Live = {} /\ Begun = {}
    BY DEF Init, Live, Begun, Evaluating, Holders, NoRun, Idle
  <2>3. Order
    BY <2>2 DEF Init, Order, IsOrder
  <2> QED
    BY <2>1, <2>3, InitInv DEF OInv
<1>2. OInv /\ [Next]_vars => OInv'
  BY NextInv, BooksInv, OrderInv DEF OInv
<1> QED
  BY <1>1, <1>2, PTL DEF Spec

\* Every row and memory holds values of its columns and fields.
THEOREM TypeSafe == Spec => []TypeOK
<1>1. OInv => TypeOK
  BY DEF OInv, IInv, RowTypes, Books, TypeOK, Queue!Claimable, Queue!Outcomes
<1> QED
  BY <1>1, OrderInvariance, PTL

\* Once there is a report, the look-up of the latest finished run finds one, and
\* it is the one that began last, although runs commit in another order than
\* they begin and aborted ones disappear (get_latest_run_for_candidate_session).
THEOREM LatestIsKnown ==
  Spec => [](marker # None =>
               /\ LatestSuccess \in Committed("completed")
               /\ \A j \in Committed("completed") : <<j, LatestSuccess>> \in begun)
<1>1. ASSUME OInv, marker # None
      PROVE  /\ LatestSuccess \in Committed("completed")
             /\ \A j \in Committed("completed") : <<j, LatestSuccess>> \in begun
  <2> DEFINE T == Committed("completed") \cap Begun
  <2>1. Committed("completed") \subseteq Live
    BY DEF Committed, Live
  <2>2. T = Committed("completed") /\ T # {}
    BY <1>1, <2>1 DEF OInv, Order, IInv, Outcomes, ReportTogether
  <2>3. IsFiniteSet(T)
    <3>1. IsFiniteSet(1..MaxEvidence) /\ IsFiniteSet(0..MaxRetries)
      BY EvaluationAssumption, FS_Interval
    <3>2. IsFiniteSet(Jobs)
      BY <3>1, FS_Product DEF Jobs
    <3>3. T \in SUBSET Jobs
      BY DEF Committed
    <3> HIDE DEF T
    <3> QED
      BY <3>2, <3>3, FS_Subset
  <2>4. IsOrder(Live, begun)
    BY <1>1 DEF OInv, Order
  <2>5. \E j \in T : \A i \in T : <<i, j>> \in begun
    <3> HIDE DEF T
    <3> QED
      BY <2>1, <2>2, <2>3, <2>4, LastExists
  <2>6. LatestSuccess = CHOOSE j \in T : \A i \in T : <<i, j>> \in begun
    BY <2>2 DEF LatestSuccess, LatestOf
  <2> HIDE DEF T
  <2> QED
    BY <2>2, <2>5, <2>6
<1> QED
  BY <1>1, OrderInvariance, PTL
-----------------------------------------------------------------------------
(* The jobs of the evaluation, as the queue's contract sees them *)

Status == [j \in Jobs |-> job[j].st]
Held == {p \in Workers \X Jobs : wk[p[1]].job = p[2]}

\* Nobody who takes no step of the queue's changes a status or a claim.
LEMMA ContractStutter ==
  ASSUME UNCHANGED job \/ \A j \in Jobs : job'[j].st = job[j].st,
         \A w \in Workers : wk'[w].job = wk[w].job
  PROVE  UNCHANGED <<Status, Held>>
<1>1. Status' = Status
  BY DEF Status
<1>2. Held' = Held
  BY DEF Held
<1> QED
  BY <1>1, <1>2

\* A job that exists already stays as it is, one that does not is queued.
LEMMA CreateStep ==
  ASSUME IInv, NEW k \in Jobs, job' = CreateOrGet(k), UNCHANGED wk
  PROVE  Queue!Enqueue({k}) \/ UNCHANGED <<Status, Held>>
<1>1. CASE job[k].st = "absent"
  <2>1. \A j \in Jobs : job'[j].st = IF j \in {k} THEN "queued" ELSE job[j].st
    BY <1>1 DEF CreateOrGet, IInv, RowTypes
  <2> QED
    BY <1>1, <2>1 DEF Queue!Enqueue
<1>2. CASE job[k].st # "absent"
  BY <1>2, ContractStutter DEF CreateOrGet
<1> QED
  BY <1>1, <1>2

LEMMA EvaluatorStep ==
  ASSUME OInv, Generate \/ Evaluate
  PROVE  Queue!Next \/ UNCHANGED <<Status, Held>>
<1>1. evidence \in 1..MaxEvidence /\ MaxRetries \in Nat /\ state.retries \in Nat
  BY EvaluationAssumption DEF OInv, IInv, RowTypes, Books, EvaluationState
<1>2. UNCHANGED wk
  BY DEF Generate, Evaluate, PassMissing, PassDispatch, PassValid, PassInvalid,
         PassRaises, Pass
<1>3. UNCHANGED job \/ \E n \in 0..MaxRetries : job' = CreateOrGet(<<evidence, n>>)
  <2>1. CASE Generate \/ PassDispatch
    BY <1>1, <2>1 DEF Generate, PassDispatch, Canonical
  <2>2. CASE PassInvalid
    BY <1>1, <2>2 DEF PassInvalid
  <2>3. CASE PassMissing \/ PassValid \/ PassRaises
    BY <2>3 DEF PassMissing, PassValid, PassRaises
  <2> QED
    BY <2>1, <2>2, <2>3 DEF Evaluate
<1>4. CASE UNCHANGED job
  BY <1>2, <1>4, ContractStutter
<1>5. ASSUME NEW n \in 0..MaxRetries, job' = CreateOrGet(<<evidence, n>>)
      PROVE  Queue!Next \/ UNCHANGED <<Status, Held>>
  <2>1. <<evidence, n>> \in Jobs
    BY <1>1 DEF Jobs
  <2>2. {<<evidence, n>>} \in SUBSET Jobs
    BY <2>1
  <2> QED
    BY <1>2, <1>5, <2>1, <2>2, CreateStep DEF OInv, Queue!Next
<1> QED
  BY <1>3, <1>4, <1>5

LEMMA FinishKeepsJob ==
  ASSUME wk \in [Workers -> Worker], NEW w \in Workers, NEW t, wk' = Finish(w, t)
  PROVE  /\ wk' = [wk EXCEPT ![w] = wk'[w]]
         /\ wk'[w].job = wk[w].job /\ wk'[w].attempt = wk[w].attempt
         /\ wk'[w].pc # "idle"
<1> DEFINE m == [wk[w] EXCEPT !.pc = "done", !.target = t]
<1>1. wk' = [wk EXCEPT ![w] = m]
  BY DEF Finish
<1>2. wk[w] \in Worker
  OBVIOUS
<1>3. m.job = wk[w].job /\ m.attempt = wk[w].attempt /\ m.pc = "done"
  BY <1>2 DEF Worker
<1> HIDE DEF m
<1> QED
  BY <1>1, <1>3

\* Within its handler a worker changes nothing of its claim, and touches no job row.
LEMMA WorkerKeepsJob ==
  ASSUME OInv, NEW w \in Workers,
         \/ LookUp(w) \/ StartRun(w) \/ Complete(w) \/ Fail(w) \/ Abort(w)
         \/ RefuseSnapshot(w)
  PROVE  /\ UNCHANGED job
         /\ wk' = [wk EXCEPT ![w] = wk'[w]]
         /\ wk'[w].job = wk[w].job /\ wk'[w].attempt = wk[w].attempt
         /\ wk'[w].pc # "idle"
<1>0. wk \in [Workers -> Worker] /\ wk[w] \in Worker
  BY DEF OInv, IInv, RowTypes
<1>1. UNCHANGED job
  BY DEF LookUp, StartRun, Complete, Fail, Abort, RefuseSnapshot
<1>2. CASE \E t : wk' = Finish(w, t)
  BY <1>0, <1>1, <1>2, FinishKeepsJob
<1>3. CASE LookUp(w) /\ ~\E t : wk' = Finish(w, t)
  <2>1. wk' = [wk EXCEPT ![w] = [@ EXCEPT !.pc = "starting", !.evidence = evidence]]
    BY <1>3 DEF LookUp
  <2> QED
    BY <1>0, <1>1, <2>1 DEF Worker
<1>4. CASE StartRun(w) /\ ~\E t : wk' = Finish(w, t)
  <2>1. wk' = [wk EXCEPT ![w].pc = "evaluating"]
    BY <1>4 DEF StartRun
  <2> QED
    BY <1>0, <1>1, <2>1 DEF Worker
<1> QED
  BY <1>2, <1>3, <1>4 DEF Complete, Fail, Abort, RefuseSnapshot

\* A worker reports what the contract knows as an outcome, of the job it holds.
LEMMA WorkerContract ==
  ASSUME OInv, NEW w \in Workers, WorkerStep(w) \/ RefuseSnapshot(w) \/ Crash(w)
  PROVE  Queue!Next \/ UNCHANGED <<Status, Held>>
<1>1. /\ wk \in [Workers -> Worker]
      /\ wk[w].pc # "idle" => wk[w].job \in Jobs
      /\ wk[w].pc = "done" => wk[w].target # "none"
  BY DEF OInv, IInv, RowTypes, Memory, MemoryOf
<1>2. CASE Record(w)
  <2>1. wk[w].job \in Jobs /\ Outcome(w) \in Queue!Outcomes
    BY <1>1, <1>2 DEF Record, Outcome, Queue!Outcomes, Worker, Targets
  <2>2. PICK j \in Jobs, o \in Queue!Outcomes : Queue!Report(w, j, o)
    BY <1>2, <2>1 DEF Record, Queue!Report
  <2> QED
    BY <2>2 DEF Queue!Next, Queue!WorkerStep
<1>3. CASE Crash(w)
  <2>1. PICK j \in Jobs : Queue!Abandon(w, j)
    BY <1>1, <1>3 DEF Crash, Queue!Abandon
  <2> QED
    BY <2>1 DEF Queue!Next, Queue!WorkerStep
<1>4. CASE LookUp(w) \/ StartRun(w) \/ Complete(w) \/ Fail(w) \/ Abort(w)
           \/ RefuseSnapshot(w)
  <2>1. UNCHANGED job
    BY <1>4, WorkerKeepsJob
  <2>2. wk' = [wk EXCEPT ![w] = wk'[w]] /\ wk'[w].job = wk[w].job
    BY <1>4, WorkerKeepsJob
  <2>3. \A v \in Workers : wk'[v].job = wk[v].job
    BY <1>1, <2>2
  <2> QED
    BY <2>1, <2>3, ContractStutter
<1> QED
  BY <1>2, <1>3, <1>4 DEF WorkerStep

LEMMA NextContract == OInv /\ [Next]_vars => [Queue!Next]_(Queue!vars)
<1> SUFFICES ASSUME OInv, [Next]_vars
             PROVE  Queue!Next \/ UNCHANGED <<Status, Held>>
  BY DEF Queue!vars, Status, Held
<1>1. CASE ChangeEvidence \/ SendNotice \/ UNCHANGED vars
  BY <1>1, ContractStutter DEF ChangeEvidence, SendNotice, vars
<1>2. ASSUME NEW j \in Jobs, RetryDead(j) PROVE Queue!Next
  BY <1>2 DEF RetryDead, Queue!Next, Queue!Operator
<1>3. ASSUME NEW w \in Workers, NEW j \in Jobs, Claim(w, j) PROVE Queue!Next
  BY <1>3 DEF Claim, Queue!Next, Queue!WorkerStep
<1> QED
  BY <1>1, <1>2, <1>3, EvaluatorStep, WorkerContract DEF Next

\* The evaluation asks of the queue no more than its contract: requests insert a
\* job once, a worker runs what is queued or running, perhaps beside another,
\* and reports an outcome of the job it holds (create_or_get_idempotent,
\* claim_next_runnable, mark_*), and nothing else touches the jobs.
THEOREM EvaluationKeepsContract == Spec => Queue!Spec
<1>1. Init => Queue!Init
  BY NoneAssumption DEF Init, Queue!Init, Idle
<1> QED
  BY <1>1, NextContract, OrderInvariance, PTL DEF Spec, Queue!Spec
-----------------------------------------------------------------------------
(* The evaluation state *)

\* A report and a notice that are there stay, and so does a state that is not
\* written.
LEMMA ReportStays ==
  ASSUME OInv, [Next]_vars
  PROVE  /\ marker # None => marker' # None
         /\ notice = "sent" => notice' = "sent"
<1>1. ASSUME NEW w \in Workers, Complete(w)
      PROVE  marker' # None /\ (notice = "sent" => notice' = "sent")
  <2>1. wk[w].job \in Jobs
    BY <1>1 DEF Complete, OInv, IInv, Memory, MemoryOf
  <2> QED
    BY <1>1, <2>1, NoneAssumption DEF Complete, NoticeOnce
<1>2. ASSUME NEW w \in Workers,
             \/ RefuseSnapshot(w) \/ Crash(w) \/ LookUp(w) \/ StartRun(w)
             \/ Fail(w) \/ Abort(w) \/ Record(w)
             \/ \E j \in Jobs : Claim(w, j)
      PROVE  UNCHANGED <<marker, notice>>
  BY <1>2 DEF RefuseSnapshot, Crash, LookUp, StartRun, Fail, Abort, Record, Claim
<1>3. ASSUME \/ ChangeEvidence \/ Generate \/ SendNotice \/ Evaluate
             \/ UNCHANGED vars \/ \E j \in Jobs : RetryDead(j)
      PROVE  UNCHANGED marker /\ (UNCHANGED notice \/ notice' = "sent")
  BY <1>3 DEF ChangeEvidence, Generate, SendNotice, Evaluate, PassMissing,
              PassDispatch, PassValid, PassInvalid, PassRaises, Pass, RetryDead, vars
<1> QED
  BY <1>1, <1>2, <1>3 DEF Next, WorkerStep

\* A pass calls a report final only when it has looked at a completed run, and
\* the notice sent only when it is.
LEMMA StateInv ==
  ASSUME OInv, StateTruthful, [Next]_vars
  PROVE  StateTruthful'
<1>1. /\ marker # None => marker' # None
      /\ notice = "sent" => notice' = "sent"
  BY ReportStays
<1>2. CASE UNCHANGED state
  BY <1>1, <1>2 DEF StateTruthful, IsFinalized
<1>3. ASSUME NEW w \in Workers, Complete(w) PROVE StateTruthful'
  <2>1. wk[w].job \in Jobs
    BY <1>3 DEF Complete, OInv, IInv, Memory, MemoryOf
  <2>2. marker' # None /\ state'.name = "REPORT_FINALIZED"
    BY <1>3, <2>1, NoneAssumption DEF Complete, Finalized
  <2> QED
    BY <2>2 DEF StateTruthful
<1>4. CASE PassValid
  <2>1. Committed("completed") # {}
    BY <1>4 DEF PassValid, ReviewersComplete, LatestSuccess, LatestOf
  <2>2. marker # None
    BY <2>1 DEF OInv, IInv, Outcomes, ReportTogether
  <2>3. /\ state'.name = IF notice = "sent" THEN "NOTIFICATION_SENT"
                                            ELSE "REPORT_FINALIZED"
        /\ UNCHANGED <<marker, notice>>
    BY <1>4 DEF PassValid, Pass
  <2> QED
    BY <2>2, <2>3 DEF StateTruthful
<1>5. CASE PassMissing \/ PassDispatch \/ PassInvalid \/ PassRaises
  <2>1. \/ state' = [name |-> "DAY_5_DEADLINE_PASSED", retries |-> 0]
        \/ state' = [name |-> "REVIEWERS_DISPATCHED", retries |-> 0]
        \/ state' = [name |-> "WINOE_SYNTHESIZING", retries |-> state.retries + 1]
        \/ state' = [name |-> "FAILED", retries |-> state.retries + 1]
        \/ state' = [name |-> "FAILED", retries |-> 0]
    BY <1>5, Zenon DEF PassMissing, PassDispatch, PassInvalid, PassRaises, Pass
  <2>2. state'.name \notin {"REPORT_FINALIZED", "NOTIFICATION_SENT"}
    BY <2>1
  <2> QED
    BY <2>2 DEF StateTruthful, IsFinalized
<1>6. ASSUME \/ ChangeEvidence \/ Generate \/ SendNotice \/ UNCHANGED vars
             \/ \E j \in Jobs : RetryDead(j)
             \/ \E w \in Workers, j \in Jobs : Claim(w, j)
             \/ \E w \in Workers : \/ RefuseSnapshot(w) \/ Crash(w) \/ LookUp(w)
                                   \/ StartRun(w) \/ Fail(w) \/ Abort(w) \/ Record(w)
      PROVE  UNCHANGED state
  BY <1>6 DEF ChangeEvidence, Generate, SendNotice, RetryDead, Claim,
              RefuseSnapshot, Crash, LookUp, StartRun, Fail, Abort, Record, vars
<1> QED
  BY <1>2, <1>3, <1>4, <1>5, <1>6 DEF Next, WorkerStep, Evaluate

\* A completed run, the marker with its citations and the notice are there
\* together (the one commit of _evaluate_and_finalize_run), and the evaluation
\* state claims neither before it is there, whoever wrote it last.
THEOREM OutcomeIsAtomic == Spec => []OutcomeTogether
<1>1. Init => StateTruthful
  BY DEF Init, StateTruthful, IsFinalized
<1>2. OInv => ReportTogether
  BY DEF OInv, IInv, Outcomes
<1> QED
  BY <1>1, <1>2, StateInv, OrderInvariance, PTL DEF Spec, OutcomeTogether
-----------------------------------------------------------------------------
(* The attempts of an evaluation job *)

\* Every attempt beyond the limit is owed to a fault: a job that can be claimed
\* without one has an attempt left, and a worker, which judges by the attempt it
\* claimed, is behind the row by no more than there were faults.
Attempts ==
  /\ \A j \in Jobs : job[j].attempt <= MaxAttempts + faults
  /\ \A j \in Jobs : job[j].st = "queued" \/ (job[j].st = "running" /\ Holders(j) = {})
                       => job[j].attempt < MaxAttempts + faults
  /\ \A w \in Workers : wk[w].job \in Jobs
                          => job[wk[w].job].attempt <= wk[w].attempt + faults
  /\ \A w \in Workers : wk[w].pc = "idle" => wk[w].job = None

LEMMA Numbers ==
  ASSUME OInv
  PROVE  /\ MaxAttempts \in Nat \ {0} /\ faults \in Nat
         /\ \A j \in Jobs : job[j].attempt \in Nat
         /\ \A w \in Workers : wk[w].attempt \in Nat
  BY EvaluationAssumption DEF OInv, Books, IInv, RowTypes, Worker

\* A step of no worker's, or one in which the worker keeps its job.
LEMMA AttemptsKept ==
  ASSUME OInv, Attempts, faults' \in {faults, faults + 1},
         \A j \in Jobs : \/ job'[j] = job[j]
                         \/ job'[j] = [st |-> "queued", attempt |-> 0]
                         \/ /\ faults' = faults + 1
                            /\ job'[j].attempt = job[j].attempt,
         \A w \in Workers : /\ wk'[w].job = wk[w].job /\ wk'[w].attempt = wk[w].attempt
                            /\ wk'[w].pc = "idle" => wk[w].pc = "idle"
  PROVE  Attempts'
<1>0. /\ MaxAttempts \in Nat \ {0} /\ faults \in Nat
      /\ \A j \in Jobs : job[j].attempt \in Nat
      /\ \A w \in Workers : wk[w].attempt \in Nat
  BY Numbers
<1>1. \A j \in Jobs : Holders(j)' = Holders(j)
  BY DEF Holders
<1>2. ASSUME NEW j \in Jobs
      PROVE  /\ job'[j].attempt <= MaxAttempts + faults'
             /\ job'[j].st = "queued" \/ (job'[j].st = "running" /\ Holders(j)' = {})
                  => job'[j].attempt < MaxAttempts + faults'
             /\ job'[j].attempt <= job[j].attempt
  BY <1>0, <1>1 DEF Attempts
<1>3. ASSUME NEW w \in Workers, wk'[w].job \in Jobs
      PROVE  job'[wk'[w].job].attempt <= wk'[w].attempt + faults'
  <2>1. PICK j \in Jobs : wk'[w].job = j /\ wk[w].job = j
    BY <1>3
  <2>2. job'[j].attempt <= job[j].attempt /\ job[j].attempt <= wk[w].attempt + faults
    BY <1>2, <2>1 DEF Attempts
  <2>3. job'[j].attempt \in Nat
    BY <1>0
  <2> QED
    BY <1>0, <2>1, <2>2, <2>3
<1> QED
  BY <1>2, <1>3 DEF Attempts

LEMMA ClaimAttempts ==
  ASSUME OInv, Attempts, NEW w \in Workers, NEW j \in Jobs, Claim(w, j)
  PROVE  Attempts'
<1>0. /\ MaxAttempts \in Nat \ {0} /\ faults \in Nat
      /\ \A i \in Jobs : job[i].attempt \in Nat
      /\ \A v \in Workers : wk[v].attempt \in Nat
  BY Numbers
<1>1. /\ job[j].st \in {"queued", "running"}
      /\ IF Holders(j) = {} THEN faults' = faults ELSE faults' = faults + 1
      /\ wk[w].pc = "idle" /\ wk[w].job = None
  BY DEF Claim, Fault, Queue!Claim, Queue!Claimable, Attempts
<1>2. \A i \in Jobs : /\ job'[i].attempt = IF i = j THEN job[j].attempt + 1
                                                     ELSE job[i].attempt
                      /\ i # j => job'[i].st = job[i].st
  BY DEF Claim, OInv, IInv, RowTypes
<1>3. /\ \A v \in Workers \ {w} : wk'[v] = wk[v]
      /\ wk'[w].pc = "claimed" /\ wk'[w].job = j
      /\ wk'[w].attempt = job[j].attempt + 1
  BY DEF Claim, OInv, IInv, RowTypes, Idle
<1>4. Holders(j)' # {} /\ \A i \in Jobs \ {j} : Holders(i)' = Holders(i)
  BY <1>1, <1>3, NoneAssumption DEF Holders
<1>5. ASSUME NEW i \in Jobs
      PROVE  /\ job'[i].attempt <= MaxAttempts + faults'
             /\ job'[i].st = "queued" \/ (job'[i].st = "running" /\ Holders(i)' = {})
                  => job'[i].attempt < MaxAttempts + faults'
  <2>1. CASE i = j
    <3>1. job'[j].st = "running"
      BY DEF Claim, OInv, IInv, RowTypes
    <3> QED
      BY <1>0, <1>1, <1>2, <1>4, <2>1, <3>1 DEF Attempts
  <2>2. CASE i # j
    BY <1>0, <1>1, <1>2, <1>4, <2>2 DEF Attempts
  <2> QED
    BY <2>1, <2>2
<1>6. ASSUME NEW v \in Workers, wk'[v].job \in Jobs
      PROVE  job'[wk'[v].job].attempt <= wk'[v].attempt + faults'
  <2>1. CASE v = w
    BY <1>0, <1>1, <1>2, <1>3, <2>1
  <2>2. CASE v # w
    <3>1. PICK i \in Jobs : wk'[v].job = i /\ wk[v].job = i
      BY <1>3, <1>6, <2>2
    <3>2. job[i].attempt <= wk[v].attempt + faults
      BY <3>1 DEF Attempts
    <3>3. i = j => faults' = faults + 1
      BY <1>1, <3>1 DEF Holders
    <3> QED
      BY <1>0, <1>1, <1>2, <1>3, <2>2, <3>1, <3>2, <3>3
  <2> QED
    BY <2>1, <2>2
<1>7. \A v \in Workers : wk'[v].pc = "idle" => wk'[v].job = None
  BY <1>3 DEF Attempts
<1> QED
  BY <1>5, <1>6, <1>7 DEF Attempts

\* A worker lets its job go, with an outcome or by dying.
LEMMA ReleaseAttempts ==
  ASSUME OInv, Attempts, NEW w \in Workers, wk[w].pc # "idle",
         wk' = [wk EXCEPT ![w] = Idle],
         \/ UNCHANGED job /\ faults' = faults + 1
         \/ job' = [job EXCEPT ![wk[w].job].st = Outcome(w)] /\ UNCHANGED faults
  PROVE  Attempts'
<1>0. /\ MaxAttempts \in Nat \ {0} /\ faults \in Nat
      /\ \A i \in Jobs : job[i].attempt \in Nat
      /\ \A v \in Workers : wk[v].attempt \in Nat
  BY Numbers
<1>1. PICK j \in Jobs : wk[w].job = j
  BY DEF OInv, IInv, Memory, MemoryOf
<1>2. /\ \A v \in Workers \ {w} : wk'[v] = wk[v]
      /\ wk'[w].pc = "idle" /\ wk'[w].job = None
  BY DEF OInv, IInv, RowTypes, Idle
<1>3. \A i \in Jobs : job'[i].attempt = job[i].attempt /\ (i # j => job'[i] = job[i])
  BY <1>1 DEF OInv, IInv, RowTypes
<1>4. \A i \in Jobs \ {j} : Holders(i)' = Holders(i)
  BY <1>1, <1>2, NoneAssumption DEF Holders
<1>5. job[j].attempt <= wk[w].attempt + faults
  BY <1>1 DEF Attempts
<1>6. CASE job' = [job EXCEPT ![wk[w].job].st = Outcome(w)] /\ UNCHANGED faults
  <2>1. job'[j].st = Outcome(w)
    BY <1>1, <1>6 DEF OInv, IInv, RowTypes
  <2>2. Outcome(w) # "running" /\ (Outcome(w) = "queued" => wk[w].attempt < MaxAttempts)
    BY DEF Outcome, OInv, IInv, RowTypes, Worker, Targets
  <2>3. ASSUME NEW i \in Jobs
        PROVE  /\ job'[i].attempt <= MaxAttempts + faults'
               /\ job'[i].st = "queued" \/ (job'[i].st = "running" /\ Holders(i)' = {})
                    => job'[i].attempt < MaxAttempts + faults'
    BY <1>0, <1>3, <1>4, <1>5, <1>6, <2>1, <2>2 DEF Attempts
  <2>4. \A v \in Workers : wk'[v].job \in Jobs
                             => job'[wk'[v].job].attempt <= wk'[v].attempt + faults'
    BY <1>2, <1>3, <1>6, NoneAssumption DEF Attempts
  <2>5. \A v \in Workers : wk'[v].pc = "idle" => wk'[v].job = None
    BY <1>2 DEF Attempts
  <2> QED
    BY <2>3, <2>4, <2>5 DEF Attempts
<1>7. CASE UNCHANGED job /\ faults' = faults + 1
  <2>1. ASSUME NEW i \in Jobs PROVE job'[i].attempt < MaxAttempts + faults'
    BY <1>0, <1>7 DEF Attempts
  <2>2. ASSUME NEW v \in Workers, wk'[v].job \in Jobs
        PROVE  job'[wk'[v].job].attempt <= wk'[v].attempt + faults'
    <3>1. PICK i \in Jobs : wk'[v].job = i /\ wk[v].job = i /\ wk'[v] = wk[v]
      BY <1>2, <2>2, NoneAssumption
    <3> QED
      BY <1>0, <1>7, <3>1 DEF Attempts
  <2>3. \A v \in Workers : wk'[v].pc = "idle" => wk'[v].job = None
    BY <1>2 DEF Attempts
  <2>4. \A i \in Jobs : job'[i].attempt <= MaxAttempts + faults'
    BY <1>0, <1>7, <2>1
  <2> QED
    BY <2>1, <2>2, <2>3, <2>4 DEF Attempts
<1> QED
  BY <1>6, <1>7

LEMMA AttemptsInv ==
  ASSUME OInv, Attempts, [Next]_vars
  PROVE  Attempts'
<1>1. ASSUME NEW w \in Workers, NEW j \in Jobs, Claim(w, j) PROVE Attempts'
  BY <1>1, ClaimAttempts
<1>2. ASSUME NEW w \in Workers, Record(w) \/ Crash(w) PROVE Attempts'
  BY <1>2, ReleaseAttempts DEF Record, Crash, Fault
<1>3. ASSUME NEW j \in Jobs, RetryDead(j) PROVE Attempts'
  <2>1. PICK n \in {0, job[j].attempt} :
          job' = [job EXCEPT ![j] = [st |-> "queued", attempt |-> n]]
    BY <1>3 DEF RetryDead
  <2>2. UNCHANGED wk /\ faults' = faults + 1
    BY <1>3 DEF RetryDead, Fault
  <2> QED
    BY <2>1, <2>2, AttemptsKept DEF OInv, IInv, RowTypes
<1>4. CASE ChangeEvidence \/ Generate \/ SendNotice \/ Evaluate \/ UNCHANGED vars
  <2>1. UNCHANGED wk /\ faults' \in {faults, faults + 1}
    BY <1>4 DEF ChangeEvidence, Generate, SendNotice, Evaluate, PassMissing,
                PassDispatch, PassValid, PassInvalid, PassRaises, Pass, Fault, vars
  <2>2. UNCHANGED job \/ \E k : job' = CreateOrGet(k)
    BY <1>4 DEF ChangeEvidence, Generate, SendNotice, Evaluate, PassMissing,
                PassDispatch, PassValid, PassInvalid, PassRaises, Pass, vars
  <2>3. \A j \in Jobs : job'[j] = job[j] \/ job'[j] = [st |-> "queued", attempt |-> 0]
    BY <2>2 DEF CreateOrGet, OInv, IInv, RowTypes
  <2> QED
    BY <2>1, <2>3, AttemptsKept
<1>5. ASSUME NEW w \in Workers,
             \/ LookUp(w) \/ StartRun(w) \/ Complete(w) \/ Fail(w) \/ Abort(w)
             \/ RefuseSnapshot(w)
      PROVE  Attempts'
  <2>1. faults' \in {faults, faults + 1}
    BY <1>5 DEF LookUp, StartRun, Complete, Fail, Abort, RefuseSnapshot, Fault
  <2>2. wk \in [Workers -> Worker]
    BY DEF OInv, IInv, RowTypes
  <2>3. UNCHANGED job /\ wk' = [wk EXCEPT ![w] = wk'[w]] /\ wk'[w].job = wk[w].job
        /\ wk'[w].attempt = wk[w].attempt /\ wk'[w].pc # "idle"
    BY <1>5, WorkerKeepsJob
  <2>4. \A v \in Workers : /\ wk'[v].job = wk[v].job /\ wk'[v].attempt = wk[v].attempt
                           /\ wk'[v].pc = "idle" => wk[v].pc = "idle"
    BY <2>2, <2>3
  <2> QED
    BY <2>1, <2>3, <2>4, AttemptsKept
<1> QED
  BY <1>1, <1>2, <1>3, <1>4, <1>5 DEF Next, WorkerStep

\* A job is claimed at most max_attempts times, but for one claim more with every
\* crash, overrun lease, refused snapshot or operator's retry, although no claim
\* compares with the limit (claim_next_runnable, retry_or_dead_letter).
THEOREM AttemptsAreBounded ==
  Spec => [](\A j \in Jobs : job[j].attempt <= MaxAttempts + faults)
<1>1. Init => Attempts
  <2> SUFFICES ASSUME Init PROVE Attempts
    OBVIOUS
  <2>1. \A w \in Workers : wk[w].pc = "idle" /\ wk[w].job = None
    BY DEF Init, Idle
  <2>2. \A j \in Jobs : job[j].attempt = 0 /\ job[j].st = "absent"
    BY DEF Init
  <2> QED
    BY <2>1, <2>2, EvaluationAssumption, NoneAssumption DEF Attempts, Init
<1>2. Attempts => \A j \in Jobs : job[j].attempt <= MaxAttempts + faults
  BY DEF Attempts
<1> QED
  BY <1>1, <1>2, AttemptsInv, OrderInvariance, PTL DEF Spec
=============================================================================
