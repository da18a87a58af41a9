--------------------------- MODULE JobQueueProofs ---------------------------
(***************************************************************************)
(* What holds of the job queue for every number of workers, requests and   *)
(* keys, every lease and every back-off.                                   *)
(***************************************************************************)
EXTENDS JobQueue, TLAPS

USE DEF Terminal

\* A job's retry is a job as long as the chain may grow.
LEMMA RetryType ==
  ASSUME NEW j \in Jobs, j[2] < MaxRetry
  PROVE  Retry(j) \in Jobs
BY ConstantAssumption DEF Jobs, Retry

\* What a transaction's SELECT sees of a row.
LEMMA SeeType ==
  ASSUME TypeOK, NEW j \in Jobs
  PROVE  See(j) \in Seen
BY DEF TypeOK, See, Seen, Rows, Locked

\* Both idle and down memories are well-typed.
LEMMA BlankType ==
  ASSUME NEW p \in WorkerStates
  PROVE  Blank(p) \in WorkerMem
BY ConstantAssumption DEF Blank, WorkerMem, NoSeen, Seen, Targets, Statuses

\* The relative times stay within the horizon.
LEMMA TimeTypes ==
  ASSUME NEW t \in 0..Horizon
  PROVE  Younger(t) \in 0..Horizon /\ Older(t) \in 0..Horizon
BY ConstantAssumption DEF Younger, Older

LEMMA RowTypes ==
  /\ NoRow \in Rows
  /\ \A d \in 0..Horizon, v \in Nat : NewRow(d, v) \in Rows
  /\ \A r \in Rows : Unlock(r) \in Rows /\ TickRow(r) \in Rows
<1>1. NoRow \in Rows /\ \A d \in 0..Horizon, v \in Nat : NewRow(d, v) \in Rows
  BY ConstantAssumption DEF NoRow, NewRow, Rows, Statuses
<1>2. ASSUME NEW r \in Rows
      PROVE  Unlock(r) \in Rows
  <2>1. 0 \in 0..Horizon
    BY ConstantAssumption
  <2>. QED
    BY <2>1 DEF Unlock, Rows
<1>3. ASSUME NEW r \in Rows
      PROVE  TickRow(r) \in Rows
  <2>1. /\ Younger(r.due) \in 0..Horizon
        /\ (IF Locked(r) THEN Older(r.lockAge) ELSE r.lockAge) \in 0..Horizon
    BY TimeTypes DEF Rows
  <2>. QED
    BY <2>1 DEF TickRow, Rows
<1>. QED
  BY <1>1, <1>2, <1>3

\* What the ORM writes back is a row.
LEMMA WriteBackType ==
  ASSUME NEW r \in Rows, NEW s \in Seen, NEW t \in Statuses,
         NEW d \in 0..Horizon
  PROVE  WriteBack(r, s, t, d) \in Rows
<1>1. Unlock(r) \in Rows
  BY RowTypes
<1>2. ASSUME NEW u \in Rows
      PROVE  [u EXCEPT !.st = IF s.st = t THEN @ ELSE t, !.due = d] \in Rows
  BY DEF Rows
<1>. QED
  BY <1>1, <1>2 DEF WriteBack

\* The time left of a back-off is within the horizon.
LEMMA BackoffLeftType ==
  ASSUME NEW m \in WorkerMem
  PROVE  BackoffLeft(m) \in 0..Horizon
<1>1. m.age \in 0..Horizon
  BY DEF WorkerMem
<1>2. Backoff[IF m.attempt \in 1..MaxAttempts THEN m.attempt ELSE MaxAttempts]
        \in 1..Horizon
  BY ConstantAssumption DEF WorkerMem
<1>. QED
  BY <1>1, <1>2, ConstantAssumption DEF BackoffLeft

-----------------------------------------------------------------------------
(* Types *)

\* A worker past its SELECT and a request in flight have a job in memory, and
\* a worker about to write its outcome has chosen one.
MemoryShape ==
  /\ \A w \in Workers :
       /\ wk[w].pc \notin {"idle", "down"} => wk[w].job \in Jobs
       /\ wk[w].pc \in {"finishing", "marking"} => wk[w].target # "none"
  /\ \A r \in Requests :
       /\ req[r].op # "none" => req[r].job \in Jobs
       /\ req[r].op = "retry" => req[r].job[2] < MaxRetry

TypeInv == TypeOK /\ MemoryShape

LEMMA InitType == Init => TypeInv
<1>. SUFFICES ASSUME Init PROVE TypeInv
  OBVIOUS
<1>1. /\ row \in [Jobs -> Rows]
      /\ wk \in [Workers -> WorkerMem]
  BY RowTypes, BlankType DEF Init, WorkerStates
<1>2. req \in [Requests -> RequestMem]
  BY DEF Init, RequestMem, NoRequest, NoSeen, Seen, Statuses
<1>3. MemoryShape
  BY DEF Init, MemoryShape, Blank, NoRequest
<1>. QED
  BY <1>1, <1>2, <1>3 DEF Init, TypeInv, TypeOK

\* A step that changes nothing but one worker's memory.
LEMMA LocalStepType ==
  ASSUME TypeInv, NEW w \in Workers, NEW m \in WorkerMem,
         wk' = [wk EXCEPT ![w] = m],
         m.pc \notin {"idle", "down"} => m.job \in Jobs,
         m.pc \in {"finishing", "marking"} => m.target # "none",
         req' = req
  PROVE  /\ wk' \in [Workers -> WorkerMem]
         /\ MemoryShape'
BY DEF TypeInv, TypeOK, MemoryShape

LEMMA NextType == TypeInv /\ [Next]_vars => TypeInv'
<1>. SUFFICES ASSUME TypeInv, [Next]_vars PROVE TypeInv'
  OBVIOUS
<1>. USE DEF TypeInv
<1>1. CASE Tick
  <2>1. row' \in [Jobs -> Rows]
    BY <1>1, RowTypes DEF Tick, TypeOK
  <2>2. ASSUME NEW m \in WorkerMem
        PROVE  /\ TickWorker(m) \in WorkerMem
               /\ TickWorker(m).pc = m.pc
               /\ TickWorker(m).job = m.job
               /\ TickWorker(m).target = m.target
    <3>1. Older(m.age) \in 0..Horizon
      BY TimeTypes DEF WorkerMem
    <3>. QED
      BY <3>1 DEF TickWorker, WorkerMem
  <2>3. wk' \in [Workers -> WorkerMem]
    BY <1>1, <2>2 DEF Tick, TypeOK
  <2>4. MemoryShape'
    BY <1>1, <2>2 DEF Tick, TypeOK, MemoryShape
  <2>. QED
    BY <1>1, <2>1, <2>3, <2>4 DEF Tick, TypeOK
<1>2. ASSUME NEW w \in Workers, WorkerStep(w) \/ Crash(w)
      PROVE  TypeInv'
  <2>. DEFINE m == wk[w]
  <2>m. /\ m \in WorkerMem
        /\ m.pc \notin {"idle", "down"} => m.job \in Jobs
        /\ m.pc \in {"finishing", "marking"} => m.target # "none"
    BY DEF TypeOK, MemoryShape
  <2>b. /\ Blank("idle") \in WorkerMem /\ Blank("idle").pc = "idle"
        /\ Blank("down") \in WorkerMem /\ Blank("down").pc = "down"
    BY BlankType DEF WorkerStates, Blank
  <2>1. CASE Select(w)
    <3>1. PICK j \in Jobs : wk' = [wk EXCEPT ![w] = [Blank("selected") EXCEPT
                              !.job = j, !.attempt = row[j].attempt]]
      BY <2>1 DEF Select
    <3>. DEFINE n == [Blank("selected") EXCEPT !.job = j, !.attempt = row[j].attempt]
    <3>2. row[j].attempt \in Nat
      BY DEF TypeOK, Rows
    <3>3. n \in WorkerMem /\ n.pc = "selected" /\ n.job = j
      BY <3>2, BlankType DEF WorkerStates, WorkerMem, Blank
    <3>. QED
      BY <2>1, <3>1, <3>3, LocalStepType DEF Select, TypeOK
  <2>2. CASE ClaimHit(w)
    <3>. DEFINE j == m.job
                n == m.attempt + 1
                p == [m EXCEPT !.pc = "claimed", !.token = n]
    <3>1. m.pc = "selected" /\ j \in Jobs /\ n \in Nat
      BY <2>2, <2>m DEF ClaimHit, WorkerMem
    <3>2. p \in WorkerMem /\ p.pc = "claimed" /\ p.job = j
      BY <2>m, <3>1 DEF WorkerMem, WorkerStates
    <3>3. wk' = [wk EXCEPT ![w] = p] /\ req' = req
      BY <2>2 DEF ClaimHit
    <3>4. wk' \in [Workers -> WorkerMem] /\ MemoryShape'
      BY <3>1, <3>2, <3>3, LocalStepType
    <3>5. [row[j] EXCEPT !.st = "running", !.attempt = n, !.by = w,
                         !.lockAge = 0] \in Rows
      <4>1. row[j] \in Rows /\ 0 \in 0..Horizon
        BY <3>1, ConstantAssumption DEF TypeOK
      <4>. QED
        BY <3>1, <4>1 DEF Rows, Statuses
    <3>6. row' \in [Jobs -> Rows]
      BY <2>2, <3>1, <3>5 DEF ClaimHit, TypeOK
    <3>7. overtaken' \subseteq Jobs
      BY <2>2, <3>1 DEF ClaimHit, TypeOK
    <3>. QED
      BY <2>2, <3>4, <3>6, <3>7 DEF ClaimHit, TypeOK
  <2>3. CASE ClaimMiss(w)
    BY <2>3, <2>b, LocalStepType DEF ClaimMiss, TypeOK
  <2>4. CASE LoadClaimed(w)
    <3>. DEFINE r == row[m.job]
                p == [m EXCEPT !.pc = "loaded", !.attempt = r.attempt, !.ver = r.ver]
    <3>1. m.job \in Jobs /\ r.attempt \in Nat /\ r.ver \in Nat
      BY <2>4, <2>m DEF LoadClaimed, TypeOK, Rows
    <3>2. p \in WorkerMem /\ p.pc = "loaded" /\ p.job = m.job
      BY <2>m, <3>1 DEF WorkerMem, WorkerStates
    <3>. QED
      BY <2>4, <3>1, <3>2, LocalStepType DEF LoadClaimed, TypeOK
  <2>5. CASE SkipIdempotent(w) \/ HandlerReturns(w)
    <3>. DEFINE p == [m EXCEPT !.pc = "finishing", !.target = "succeeded"]
    <3>1. m.job \in Jobs
      BY <2>5, <2>m DEF SkipIdempotent, HandlerReturns
    <3>2. p \in WorkerMem /\ p.pc = "finishing" /\ p.job = m.job
          /\ p.target = "succeeded"
      BY <2>m DEF WorkerMem, WorkerStates, Targets
    <3>. QED
      BY <2>5, <3>1, <3>2, LocalStepType
         DEF SkipIdempotent, HandlerReturns, TypeOK
  <2>6. CASE StartHandler(w)
    <3>. DEFINE p == [m EXCEPT !.pc = "handling"]
    <3>1. p \in WorkerMem /\ p.pc = "handling" /\ p.job = m.job /\ m.job \in Jobs
      BY <2>6, <2>m DEF StartHandler, WorkerMem, WorkerStates
    <3>2. wk' = [wk EXCEPT ![w] = p]
      BY <2>6 DEF StartHandler
    <3>. QED
      BY <2>6, <3>1, <3>2, LocalStepType DEF StartHandler, TypeOK
  <2>r. RetryOrDeadLetter(m) \in {"queued", "dead_letter"}
    BY DEF RetryOrDeadLetter
  <2>7. CASE HandlerRaises(w)
    <3>1. PICK t \in {"dead_letter", RetryOrDeadLetter(m)} :
            wk' = [wk EXCEPT ![w] = [@ EXCEPT !.pc = "finishing", !.target = t]]
      BY <2>7 DEF HandlerRaises
    <3>. DEFINE p == [m EXCEPT !.pc = "finishing", !.target = t]
    <3>2. t \in {"queued", "dead_letter"} /\ m.job \in Jobs
      BY <2>7, <2>m, <2>r DEF HandlerRaises
    <3>3. p \in WorkerMem /\ p.pc = "finishing" /\ p.job = m.job /\ p.target = t
      BY <2>m, <3>2 DEF WorkerMem, WorkerStates, Targets
    <3>. QED
      BY <2>7, <3>1, <3>2, <3>3, LocalStepType DEF HandlerRaises, TypeOK
  <2>8. CASE HandlerRequeues(w)
    <3>. DEFINE j == m.job
                p == [m EXCEPT !.pc = "requeued"]
                q == [m EXCEPT !.pc = "finishing", !.target = RetryOrDeadLetter(m)]
    <3>1. j \in Jobs /\ row[j] \in Rows
      BY <2>8, <2>m DEF HandlerRequeues, TypeOK
    <3>2. p \in WorkerMem /\ p.pc = "requeued" /\ p.job = j
      BY <2>m DEF WorkerMem, WorkerStates
    <3>3. q \in WorkerMem /\ q.pc = "finishing" /\ q.job = j
          /\ q.target \in {"queued", "dead_letter"}
      BY <2>m, <2>r DEF WorkerMem, WorkerStates, Targets
    <3>4. wk' = [wk EXCEPT ![w] = p] \/ wk' = [wk EXCEPT ![w] = q]
      BY <2>8 DEF HandlerRequeues
    <3>5. wk' \in [Workers -> WorkerMem] /\ MemoryShape'
      <4>1. req' = req
        BY <2>8 DEF HandlerRequeues
      <4>. QED
        BY <3>1, <3>2, <3>3, <3>4, <4>1, LocalStepType
    <3>6. ASSUME NEW d \in Delays
          PROVE  [Unlock(row[j]) EXCEPT !.st = "queued", !.due = d] \in Rows
      <4>1. Unlock(row[j]) \in Rows /\ d \in 0..Horizon
        BY <3>1, RowTypes, ConstantAssumption
      <4>. QED
        BY <4>1 DEF Rows, Statuses
    <3>7. row' \in [Jobs -> Rows]
      BY <2>8, <3>1, <3>6 DEF HandlerRequeues, TypeOK
    <3>8. overtaken' \subseteq Jobs
      <4>1. overtaken \subseteq Jobs
        BY DEF TypeOK
      <4>2. overtaken' = overtaken \/ overtaken' = overtaken \cup {j}
        BY <2>8, Zenon DEF HandlerRequeues
      <4>. QED
        BY <3>1, <4>1, <4>2
    <3>9. failed' = failed /\ req' = req /\ faults' = faults + 1
      BY <2>8 DEF HandlerRequeues
    <3>. QED
      BY <3>5, <3>7, <3>8, <3>9 DEF TypeOK
  <2>9. CASE VerifyRescheduled(w)
    <3>. DEFINE q == [m EXCEPT !.pc = "finishing", !.target = RetryOrDeadLetter(m)]
    <3>1. q \in WorkerMem /\ q.pc = "finishing" /\ q.job = m.job
          /\ q.target \in {"queued", "dead_letter"}
      BY <2>m, <2>r DEF WorkerMem, WorkerStates, Targets
    <3>2. m.job \in Jobs
      BY <2>9, <2>m DEF VerifyRescheduled
    <3>3. wk' = [wk EXCEPT ![w] = Blank("idle")] \/ wk' = [wk EXCEPT ![w] = q]
      BY <2>9 DEF VerifyRescheduled
    <3>. QED
      BY <2>9, <2>b, <3>1, <3>2, <3>3, LocalStepType DEF VerifyRescheduled, TypeOK
  <2>10. CASE MarkLoad(w)
    <3>. DEFINE p == [m EXCEPT !.pc = "marking", !.seen = See(m.job)]
    <3>1. m.job \in Jobs /\ m.target # "none" /\ See(m.job) \in Seen
      BY <2>10, <2>m, SeeType DEF MarkLoad
    <3>2. p \in WorkerMem /\ p.pc = "marking" /\ p.job = m.job
          /\ p.target = m.target
      BY <2>m, <3>1 DEF WorkerMem, WorkerStates
    <3>. QED
      BY <2>10, <3>1, <3>2, LocalStepType DEF MarkLoad, TypeOK
  <2>11. CASE MarkWrite(w)
    <3>. DEFINE j == m.job
                d == IF m.target = "queued" THEN BackoffLeft(m) ELSE 0
    <3>1. j \in Jobs /\ m.target \in Statuses /\ m.seen \in Seen
      BY <2>11, <2>m DEF MarkWrite, WorkerMem, Targets, Statuses
    <3>2. d \in 0..Horizon
      BY <2>m, BackoffLeftType, ConstantAssumption
    <3>3. WriteBack(row[j], m.seen, m.target, d) \in Rows
      BY <3>1, <3>2, WriteBackType DEF TypeOK
    <3>4. row' = [row EXCEPT ![j] = WriteBack(@, m.seen, m.target, d)]
      BY <2>11 DEF MarkWrite
    <3>5. row' \in [Jobs -> Rows]
      BY <3>1, <3>3, <3>4 DEF TypeOK
    <3>6. failed' \in [Jobs -> {"none", "copied", "retried"}]
      BY <2>11, <3>1 DEF MarkWrite, TypeOK
    <3>7. wk' \in [Workers -> WorkerMem] /\ MemoryShape'
      BY <2>11, <2>b, LocalStepType DEF MarkWrite
    <3>. QED
      BY <2>11, <3>5, <3>6, <3>7 DEF MarkWrite, TypeOK
  <2>12. CASE MarkRefused(w) \/ Restart(w) \/ Crash(w)
    <3>1. wk' \in [Workers -> WorkerMem] /\ MemoryShape'
      BY <2>12, <2>b, LocalStepType DEF MarkRefused, Restart, Crash
    <3>. QED
      BY <2>12, <3>1 DEF MarkRefused, Restart, Crash, TypeOK
  <2>. QED
    BY <1>2, <2>1, <2>2, <2>3, <2>4, <2>5, <2>6, <2>7, <2>8, <2>9, <2>10,
       <2>11, <2>12 DEF WorkerStep
<1>3. ASSUME NEW k \in Keys, Enqueue(k)
      PROVE  TypeInv'
  <2>1. PICK d \in Delays : row' = [row EXCEPT ![<<k, 0>>] = NewRow(d, 0)]
    BY <1>3 DEF Enqueue
  <2>2. NewRow(d, 0) \in Rows
    BY RowTypes, ConstantAssumption
  <2>3. row' \in [Jobs -> Rows]
    BY <2>1, <2>2 DEF TypeOK
  <2>. QED
    BY <1>3, <2>3 DEF Enqueue, TypeOK, MemoryShape
<1>4. ASSUME NEW r \in Requests, RequestStep(r)
      PROVE  TypeInv'
  <2>0. NoRequest \in RequestMem /\ NoRequest.op = "none"
    BY DEF NoRequest, RequestMem, NoSeen, Seen, Statuses
  <2>1. ASSUME NEW j \in Jobs,
               UpdateLoad(r, j) \/ RetryLoad(r, j) \/ CancelLoad(r, j)
        PROVE  TypeInv'
    <3>1. See(j) \in Seen /\ row[j].ver \in Nat
      BY SeeType DEF TypeOK, Rows
    <3>. DEFINE q(o, v) == [op |-> o, job |-> j, ver |-> v, seen |-> See(j)]
    <3>a. \A o \in {"update", "retry", "cancel"}, v \in Nat : q(o, v) \in RequestMem
      BY <3>1 DEF RequestMem
    <3>b. PICK o \in {"update", "retry", "cancel"}, v \in Nat :
             req' = [req EXCEPT ![r] = q(o, v)] /\ (o = "retry" => j[2] < MaxRetry)
      BY <2>1, <3>1 DEF UpdateLoad, RetryLoad, CancelLoad
    <3>c. q(o, v).job = j /\ q(o, v).op = o
      OBVIOUS
    <3>2. PICK p \in RequestMem : /\ req' = [req EXCEPT ![r] = p]
                                  /\ p.job = j
                                  /\ p.op = "retry" => j[2] < MaxRetry
      BY <3>a, <3>b, <3>c
    <3>3. req' \in [Requests -> RequestMem] /\ MemoryShape'
      BY <2>1, <3>2 DEF TypeOK, MemoryShape, UpdateLoad, RetryLoad, CancelLoad
    <3>. QED
      BY <2>1, <3>3 DEF UpdateLoad, RetryLoad, CancelLoad, TypeOK
  <2>2. ASSUME RequestWrite(r)
        PROVE  /\ req' \in [Requests -> RequestMem]
               /\ MemoryShape'
               /\ wk' \in [Workers -> WorkerMem]
    <3>1. req' = [req EXCEPT ![r] = NoRequest] /\ wk' = wk
      BY <2>2 DEF RequestWrite, UpdateWrite, RetryWrite, CancelWrite
    <3>2. req' \in [Requests -> RequestMem]
      BY <2>0, <3>1 DEF TypeOK
    <3>3. MemoryShape'
      BY <2>0, <3>1 DEF TypeOK, MemoryShape
    <3>. QED
      BY <3>1, <3>2, <3>3 DEF TypeOK
  <2>3. CASE UpdateWrite(r)
    <3>1. req[r].job \in Jobs /\ req[r].ver \in Nat
      BY <2>3 DEF UpdateWrite, TypeOK, MemoryShape, RequestMem
    <3>2. ASSUME NEW d \in Delays
          PROVE  [row[req[r].job] EXCEPT !.ver = req[r].ver, !.due = d] \in Rows
      <4>1. d \in 0..Horizon
        BY ConstantAssumption
      <4>2. row[req[r].job] \in Rows
        BY <3>1 DEF TypeOK
      <4>. QED
        BY <3>1, <4>1, <4>2 DEF Rows
    <3>3. row' \in [Jobs -> Rows]
      BY <2>3, <3>1, <3>2 DEF UpdateWrite, TypeOK
    <3>. QED
      BY <2>2, <2>3, <3>3 DEF UpdateWrite, RequestWrite, TypeOK
  <2>4. CASE RetryWrite(r)
    <3>. DEFINE j == req[r].job
    <3>1. j \in Jobs /\ j[2] < MaxRetry /\ req[r].ver \in Nat
      BY <2>4 DEF RetryWrite, TypeOK, MemoryShape, RequestMem
    <3>2. Retry(j) \in Jobs /\ NewRow(0, req[r].ver) \in Rows
      BY <3>1, RetryType, RowTypes, ConstantAssumption
    <3>3. /\ row' \in [Jobs -> Rows]
          /\ failed' \in [Jobs -> {"none", "copied", "retried"}]
      BY <2>4, <3>1, <3>2 DEF RetryWrite, TypeOK
    <3>. QED
      BY <2>2, <2>4, <3>3 DEF RetryWrite, RequestWrite, TypeOK
  <2>5. CASE CancelWrite(r)
    <3>. DEFINE j == req[r].job
    <3>1. j \in Jobs /\ req[r].seen \in Seen
      BY <2>5 DEF CancelWrite, TypeOK, MemoryShape, RequestMem
    <3>2. WriteBack(row[j], req[r].seen, "dead_letter", 0) \in Rows
      BY <3>1, WriteBackType, ConstantAssumption DEF TypeOK, Statuses
    <3>3. row' \in [Jobs -> Rows] /\ overtaken' \subseteq Jobs
      BY <2>5, <3>1, <3>2 DEF CancelWrite, TypeOK
    <3>. QED
      BY <2>2, <2>5, <3>3 DEF CancelWrite, RequestWrite, TypeOK
  <2>. QED
    BY <1>4, <2>1, <2>3, <2>4, <2>5 DEF RequestStep, RequestWrite
<1>5. ASSUME NEW j \in Jobs, NEW force \in BOOLEAN, AdminRequeue(j, force)
      PROVE  TypeInv'
  <2>1. [Unlock(row[j]) EXCEPT !.st = "queued", !.due = 0] \in Rows
    <3>1. Unlock(row[j]) \in Rows /\ 0 \in 0..Horizon
      BY RowTypes, ConstantAssumption DEF TypeOK
    <3>. QED
      BY <3>1 DEF Rows, Statuses
  <2>2. row' \in [Jobs -> Rows] /\ overtaken' \subseteq Jobs
    BY <1>5, <2>1 DEF AdminRequeue, TypeOK
  <2>. QED
    BY <1>5, <2>2 DEF AdminRequeue, TypeOK, MemoryShape
<1>6. CASE UNCHANGED vars
  BY <1>6 DEF vars, TypeOK, MemoryShape, Jobs
<1>. QED
  BY <1>1, <1>2, <1>3, <1>4, <1>5, <1>6 DEF Next

\* Every reachable state is well-typed, for any number of workers and keys.
THEOREM TypeCorrect == Spec => []TypeInv
BY InitType, NextType, PTL DEF Spec

\* The type invariant the runs check.
THEOREM TypeSafe == Spec => []TypeOK
BY TypeCorrect, PTL DEF TypeInv

-----------------------------------------------------------------------------
(* Attempts *)

\* Rows are never removed, and a row that is not there yet counts no attempt.
AbsentRows == \A j \in Jobs : row[j].st = "absent" => row[j].attempt = 0

RowGrows(j) ==
  /\ row'[j].attempt >= row[j].attempt
  /\ row[j].st # "absent" => row'[j].st # "absent"
  /\ row'[j].st = "absent" => row'[j].attempt = 0

\* Writing back columns touches neither the attempt nor the row's existence.
LEMMA WriteBackKeeps ==
  ASSUME NEW r \in Rows, NEW s, NEW t, NEW d, t # "absent"
  PROVE  /\ WriteBack(r, s, t, d).attempt = r.attempt
         /\ WriteBack(r, s, t, d).st = IF s.st = t THEN r.st ELSE t
         /\ WriteBack(r, s, t, d).by = IF s.locked THEN None ELSE r.by
BY DEF WriteBack, Unlock, Rows

LEMMA UnlockKeeps ==
  ASSUME NEW r \in Rows
  PROVE  Unlock(r).attempt = r.attempt /\ Unlock(r).st = r.st
         /\ Unlock(r).by = None
BY DEF Unlock, Rows

LEMMA NextGrows ==
  ASSUME TypeInv, AbsentRows, Next
  PROVE  \A j \in Jobs : RowGrows(j)
<1>. USE DEF TypeInv
<1>0. \A j \in Jobs : row[j] \in Rows /\ row[j].attempt \in Nat
  BY DEF TypeOK, Rows
<1>u. ASSUME row' = row PROVE \A j \in Jobs : RowGrows(j)
  BY <1>0, <1>u DEF AbsentRows, RowGrows
<1>1. CASE Tick
  <2>1. \A r \in Rows : TickRow(r).attempt = r.attempt /\ TickRow(r).st = r.st
    BY DEF TickRow, Rows
  <2>. QED
    BY <1>0, <1>1, <2>1 DEF Tick, AbsentRows, RowGrows
<1>2. ASSUME NEW w \in Workers, WorkerStep(w) \/ Crash(w)
      PROVE  \A j \in Jobs : RowGrows(j)
  <2>. DEFINE i == wk[w].job
  <2>1. CASE ClaimHit(w)
    <3>1. i \in Jobs /\ wk[w].attempt = row[i].attempt
      BY <2>1 DEF ClaimHit, ClaimMatches, TypeOK, MemoryShape
    <3>2. row' = [row EXCEPT ![i] = [row[i] EXCEPT !.st = "running",
             !.attempt = wk[w].attempt + 1, !.by = w, !.lockAge = 0]]
      BY <2>1 DEF ClaimHit
    <3>3. row'[i].st = "running" /\ row'[i].attempt = row[i].attempt + 1
      BY <1>0, <3>1, <3>2 DEF TypeOK, Rows
    <3>4. \A j \in Jobs \ {i} : row'[j] = row[j]
      BY <3>2 DEF TypeOK
    <3>. QED
      BY <1>0, <3>1, <3>3, <3>4 DEF AbsentRows, RowGrows
  <2>2. CASE HandlerRequeues(w)
    <3>1. i \in Jobs
      BY <2>2 DEF HandlerRequeues, TypeOK, MemoryShape
    <3>2. CASE row' = row
      BY <1>u, <3>2
    <3>3. CASE \E d \in Delays : row' = [row EXCEPT ![i] =
                 [Unlock(row[i]) EXCEPT !.st = "queued", !.due = d]]
      <4>1. row'[i].st = "queued" /\ row'[i].attempt = row[i].attempt
        BY <1>0, <3>1, <3>3, RowTypes, UnlockKeeps DEF TypeOK, Rows
      <4>2. \A j \in Jobs \ {i} : row'[j] = row[j]
        BY <3>3 DEF TypeOK
      <4>. QED
        BY <1>0, <3>1, <4>1, <4>2 DEF AbsentRows, RowGrows
    <3>. QED
      BY <2>2, <3>2, <3>3 DEF HandlerRequeues
  <2>3. CASE MarkWrite(w)
    <3>1. i \in Jobs /\ wk[w].target # "absent"
      BY <2>3 DEF MarkWrite, TypeOK, MemoryShape, WorkerMem, Targets
    <3>2. PICK d : row' = [row EXCEPT ![i] =
                      WriteBack(row[i], wk[w].seen, wk[w].target, d)]
      BY <2>3 DEF MarkWrite
    <3>3. \A j \in Jobs \ {i} : row'[j] = row[j]
      BY <3>2 DEF TypeOK
    <3>4. /\ row'[i].attempt = row[i].attempt
          /\ row'[i].st = row[i].st \/ row'[i].st # "absent"
      BY <1>0, <3>1, <3>2, WriteBackKeeps DEF TypeOK
    <3>. QED
      BY <1>0, <3>1, <3>3, <3>4 DEF AbsentRows, RowGrows
  <2>4. CASE row' = row
    BY <1>u, <2>4
  <2>. QED
    BY <1>2, <2>1, <2>2, <2>3, <2>4
       DEF WorkerStep, Select, ClaimMiss, LoadClaimed, SkipIdempotent,
           StartHandler, HandlerReturns, HandlerRaises, VerifyRescheduled,
           MarkLoad, MarkRefused, Restart, Crash
<1>3. ASSUME NEW i \in Jobs, NEW r \in Rows, row[i].st = "absent",
             r.attempt = 0, r.st # "absent", row' = [row EXCEPT ![i] = r]
      PROVE  \A j \in Jobs : RowGrows(j)
  BY <1>0, <1>3 DEF AbsentRows, RowGrows, TypeOK
<1>4. ASSUME NEW k \in Keys, Enqueue(k)
      PROVE  \A j \in Jobs : RowGrows(j)
  <2>1. PICK d \in Delays : row' = [row EXCEPT ![<<k, 0>>] = NewRow(d, 0)]
    BY <1>4 DEF Enqueue
  <2>2. NewRow(d, 0) \in Rows /\ NewRow(d, 0).attempt = 0
        /\ NewRow(d, 0).st = "queued"
    BY RowTypes, ConstantAssumption DEF NewRow
  <2>3. <<k, 0>> \in Jobs /\ row[<<k, 0>>].st = "absent"
    BY <1>4, ConstantAssumption DEF Enqueue, Jobs
  <2>. QED
    BY <1>3, <2>1, <2>2, <2>3
<1>5. ASSUME NEW r \in Requests, RequestStep(r)
      PROVE  \A j \in Jobs : RowGrows(j)
  <2>. DEFINE i == req[r].job
  <2>1. CASE UpdateWrite(r)
    <3>1. i \in Jobs
      BY <2>1 DEF UpdateWrite, TypeOK, MemoryShape
    <3>2. PICK d \in Delays : row' = [row EXCEPT ![i] =
                                [row[i] EXCEPT !.ver = req[r].ver, !.due = d]]
      BY <2>1 DEF UpdateWrite
    <3>3. row'[i].attempt = row[i].attempt /\ row'[i].st = row[i].st
      BY <1>0, <3>1, <3>2 DEF TypeOK, Rows
    <3>4. \A j \in Jobs \ {i} : row'[j] = row[j]
      BY <3>2 DEF TypeOK
    <3>. QED
      BY <1>0, <3>1, <3>3, <3>4 DEF AbsentRows, RowGrows
  <2>2. CASE RetryWrite(r)
    <3>1. i \in Jobs /\ i[2] < MaxRetry /\ req[r].ver \in Nat
      BY <2>2 DEF RetryWrite, TypeOK, MemoryShape, RequestMem
    <3>2. CASE row' = row
      BY <1>u, <3>2
    <3>3. CASE /\ row[Retry(i)].st = "absent"
               /\ row' = [row EXCEPT ![Retry(i)] = NewRow(0, req[r].ver)]
      <4>1. Retry(i) \in Jobs /\ NewRow(0, req[r].ver) \in Rows
        BY <3>1, RetryType, RowTypes, ConstantAssumption
      <4>2. NewRow(0, req[r].ver).attempt = 0 /\ NewRow(0, req[r].ver).st = "queued"
        BY DEF NewRow
      <4>. QED
        BY <1>3, <3>3, <4>1, <4>2
    <3>. QED
      BY <2>2, <3>2, <3>3 DEF RetryWrite, RetryAdmitted
  <2>3. CASE CancelWrite(r)
    <3>1. i \in Jobs
      BY <2>3 DEF CancelWrite, TypeOK, MemoryShape
    <3>2. row' = [row EXCEPT ![i] = WriteBack(row[i], req[r].seen, "dead_letter", 0)]
      BY <2>3 DEF CancelWrite
    <3>3. \A j \in Jobs \ {i} : row'[j] = row[j]
      BY <3>2 DEF TypeOK
    <3>4. /\ row'[i].attempt = row[i].attempt
          /\ row'[i].st = row[i].st \/ row'[i].st # "absent"
      BY <1>0, <3>1, <3>2, WriteBackKeeps DEF TypeOK
    <3>. QED
      BY <1>0, <3>1, <3>3, <3>4 DEF AbsentRows, RowGrows
  <2>4. CASE row' = row
    BY <1>u, <2>4
  <2>. QED
    BY <1>5, <2>1, <2>2, <2>3, <2>4
       DEF RequestStep, RequestWrite, UpdateLoad, RetryLoad, CancelLoad
<1>6. ASSUME NEW i \in Jobs, NEW force \in BOOLEAN, AdminRequeue(i, force)
      PROVE  \A j \in Jobs : RowGrows(j)
  <2>1. row' = [row EXCEPT ![i] = [Unlock(row[i]) EXCEPT !.st = "queued", !.due = 0]]
    BY <1>6 DEF AdminRequeue
  <2>2. row'[i].st = "queued" /\ row'[i].attempt = row[i].attempt
    BY <1>0, <2>1, RowTypes, UnlockKeeps DEF TypeOK, Rows
  <2>3. \A j \in Jobs \ {i} : row'[j] = row[j]
    BY <2>1 DEF TypeOK
  <2>. QED
    BY <1>0, <2>2, <2>3 DEF AbsentRows, RowGrows
<1>. QED
  BY <1>1, <1>2, <1>4, <1>5, <1>6 DEF Next

-----------------------------------------------------------------------------
(* Claims *)

\* A worker that holds a job holds an existing row and an attempt the row has
\* reached.
TokenBound ==
  \A w \in Workers : \A j \in Jobs :
    Holds(w, j) => wk[w].token <= row[j].attempt /\ row[j].st # "absent"

ClaimInv == TypeInv /\ AbsentRows /\ TokenBound /\ ClaimUnique

\* Only the claiming UPDATE gives a worker a job, with the attempt after the
\* one in the row.
LEMMA HoldersShrink ==
  ASSUME TypeInv, Next, NEW v \in Workers, NEW j \in Jobs, Holds(v, j)'
  PROVE  \/ Holds(v, j) /\ wk'[v].token = wk[v].token
         \/ /\ ClaimHit(v) /\ wk[v].job = j /\ ~Holds(v, j)
            /\ wk'[v].token = row[j].attempt + 1
            /\ row'[j].attempt = row[j].attempt + 1
            /\ row'[j].st = "running"
            /\ \A u \in Workers \ {v} : wk'[u] = wk[u]
<1>. USE DEF TypeInv
<1>0. \A w \in Workers : wk[w] \in WorkerMem
  BY DEF TypeOK
<1>u. ASSUME wk'[v] = wk[v] PROVE Holds(v, j) /\ wk'[v].token = wk[v].token
  BY <1>u DEF Holds
<1>1. CASE Tick
  <2>1. \A m \in WorkerMem : /\ TickWorker(m).pc = m.pc
                             /\ TickWorker(m).job = m.job
                             /\ TickWorker(m).token = m.token
    BY DEF TickWorker, WorkerMem
  <2>2. wk'[v] = TickWorker(wk[v])
    BY <1>1 DEF Tick
  <2>. QED
    BY <1>0, <2>1, <2>2 DEF Holds
<1>2. ASSUME NEW w \in Workers, WorkerStep(w) \/ Crash(w)
      PROVE  \/ Holds(v, j) /\ wk'[v].token = wk[v].token
             \/ /\ ClaimHit(v) /\ wk[v].job = j /\ ~Holds(v, j)
                /\ wk'[v].token = row[j].attempt + 1
                /\ row'[j].attempt = row[j].attempt + 1
                /\ row'[j].st = "running"
                /\ \A u \in Workers \ {v} : wk'[u] = wk[u]
  <2>0. wk' = [wk EXCEPT ![w] = wk'[w]]
    BY <1>2 DEF WorkerStep, Select, ClaimHit, ClaimMiss, LoadClaimed,
       SkipIdempotent, StartHandler, HandlerReturns, HandlerRaises,
       HandlerRequeues, VerifyRescheduled, MarkLoad, MarkWrite, MarkRefused,
       Restart, Crash, TypeOK
  <2>1. CASE v # w
    <3>1. wk'[v] = wk[v]
      BY <2>0, <2>1 DEF TypeOK
    <3>. QED
      BY <1>u, <3>1
  <2>2. CASE v = w /\ ClaimHit(v)
    <3>. DEFINE i == wk[v].job
    <3>1. /\ i \in Jobs /\ wk[v].attempt = row[i].attempt
          /\ wk[v].pc = "selected"
      BY <2>2 DEF ClaimHit, ClaimMatches, TypeOK, MemoryShape
    <3>2. /\ wk'[v] = [wk[v] EXCEPT !.pc = "claimed", !.token = wk[v].attempt + 1]
          /\ row'[i] = [row[i] EXCEPT !.st = "running",
               !.attempt = wk[v].attempt + 1, !.by = v, !.lockAge = 0]
      BY <2>2, <3>1 DEF ClaimHit, TypeOK
    <3>3. wk'[v].job = i /\ wk'[v].token = row[i].attempt + 1
      BY <1>0, <3>1, <3>2 DEF WorkerMem
    <3>4. row'[i].st = "running" /\ row'[i].attempt = row[i].attempt + 1
      BY <3>1, <3>2 DEF TypeOK, Rows
    <3>5. i = j /\ ~Holds(v, j)
      BY <3>1, <3>3 DEF Holds, HoldingStates
    <3>6. \A u \in Workers \ {v} : wk'[u] = wk[u]
      BY <2>0, <2>2 DEF TypeOK
    <3>. QED
      BY <2>2, <3>3, <3>4, <3>5, <3>6
  <2>3. CASE v = w /\ ~ClaimHit(v)
    <3>1. \/ wk'[v].pc \in {"idle", "down", "selected"}
          \/ /\ wk[v].pc \in HoldingStates
             /\ wk'[v].job = wk[v].job /\ wk'[v].token = wk[v].token
      <4>1. CASE Select(v)
        <5>1. wk'[v].pc = "selected"
          BY <4>1 DEF Select, TypeOK, Blank
        <5>. QED
          BY <5>1
      <4>2. CASE ClaimMiss(v) \/ MarkWrite(v) \/ MarkRefused(v) \/ Restart(v)
                 \/ Crash(v)
        <5>1. wk'[v].pc = "idle" \/ wk'[v].pc = "down"
          BY <4>2 DEF ClaimMiss, MarkWrite, MarkRefused, Restart, Crash,
                      TypeOK, Blank
        <5>. QED
          BY <5>1
      <4>3. CASE LoadClaimed(v)
        <5>1. wk[v] \in WorkerMem /\ wk[v].pc \in HoldingStates
          BY <1>0, <4>3 DEF LoadClaimed, HoldingStates
        <5>2. wk'[v].job = wk[v].job /\ wk'[v].token = wk[v].token
          BY <4>3, <5>1 DEF LoadClaimed, TypeOK, WorkerMem
        <5>. QED
          BY <5>1, <5>2
      <4>4. CASE SkipIdempotent(v) \/ StartHandler(v) \/ HandlerReturns(v)
        <5>0. wk[v].pc \in {"loaded", "handling"}
          BY <4>4 DEF SkipIdempotent, StartHandler, HandlerReturns
        <5>1. wk[v] \in WorkerMem /\ wk[v].pc \in HoldingStates
          BY <1>0, <5>0 DEF HoldingStates
        <5>2. \/ wk'[v] = [wk[v] EXCEPT !.pc = "finishing",
                                        !.target = "succeeded"]
              \/ wk'[v] = [wk[v] EXCEPT !.pc = "handling"]
          BY <4>4 DEF SkipIdempotent, StartHandler, HandlerReturns, TypeOK
        <5>3. wk'[v].job = wk[v].job /\ wk'[v].token = wk[v].token
          BY <5>1, <5>2 DEF WorkerMem
        <5>. QED
          BY <5>1, <5>3
      <4>f. ASSUME NEW t, wk'[v] = [wk[v] EXCEPT !.pc = "finishing", !.target = t]
            PROVE  wk'[v].job = wk[v].job /\ wk'[v].token = wk[v].token
        BY <1>0, <4>f DEF WorkerMem
      <4>5. CASE HandlerRaises(v)
        <5>1. PICK t : wk'[v] = [wk[v] EXCEPT !.pc = "finishing", !.target = t]
          BY <4>5 DEF HandlerRaises, TypeOK
        <5>. QED
          BY <4>5, <4>f, <5>1 DEF HandlerRaises, HoldingStates
      <4>8. CASE HandlerRequeues(v)
        <5>1. \/ wk'[v] = [wk[v] EXCEPT !.pc = "requeued"]
              \/ wk'[v] = [wk[v] EXCEPT !.pc = "finishing",
                                        !.target = RetryOrDeadLetter(wk[v])]
          BY <4>8 DEF HandlerRequeues, TypeOK
        <5>2. wk'[v].job = wk[v].job /\ wk'[v].token = wk[v].token
          BY <1>0, <4>f, <5>1 DEF WorkerMem
        <5>. QED
          BY <4>8, <5>2 DEF HandlerRequeues, HoldingStates
      <4>6. CASE VerifyRescheduled(v)
        <5>1. \/ wk'[v] = Blank("idle")
              \/ wk'[v] = [wk[v] EXCEPT !.pc = "finishing",
                                        !.target = RetryOrDeadLetter(wk[v])]
          BY <4>6 DEF VerifyRescheduled, TypeOK
        <5>2. wk[v].pc = "requeued"
          BY <4>6 DEF VerifyRescheduled
        <5>3. Blank("idle").pc = "idle"
          BY DEF Blank
        <5>. QED
          BY <4>f, <5>1, <5>2, <5>3 DEF HoldingStates
      <4>7. CASE MarkLoad(v)
        BY <1>0, <4>7 DEF MarkLoad, TypeOK, WorkerMem, HoldingStates
      <4>. QED
        BY <1>2, <2>3, <4>1, <4>2, <4>3, <4>4, <4>5, <4>6, <4>7, <4>8
           DEF WorkerStep
    <3>. QED
      BY <3>1 DEF Holds, HoldingStates
  <2>. QED
    BY <1>2, <2>1, <2>2, <2>3
<1>3. CASE wk' = wk
  BY <1>u, <1>3
<1>. QED
  BY <1>1, <1>2, <1>3
     DEF Next, Enqueue, RequestStep, RequestWrite, UpdateLoad, UpdateWrite,
         RetryLoad, RetryWrite, CancelLoad, CancelWrite, AdminRequeue

LEMMA InitClaim == Init => ClaimInv
<1>. SUFFICES ASSUME Init PROVE ClaimInv
  OBVIOUS
<1>1. TypeInv /\ AbsentRows
  BY InitType DEF Init, AbsentRows, NoRow
<1>2. \A w \in Workers : \A j \in Jobs : ~Holds(w, j)
  BY DEF Init, Holds, HoldingStates, Blank
<1>. QED
  BY <1>1, <1>2 DEF ClaimInv, TokenBound, ClaimUnique

LEMMA NextClaim == ClaimInv /\ [Next]_vars => ClaimInv'
<1>. SUFFICES ASSUME ClaimInv, [Next]_vars PROVE ClaimInv'
  OBVIOUS
<1>. USE DEF ClaimInv
<1>1. TypeInv'
  BY NextType
<1>2. CASE Next
  <2>1. \A j \in Jobs : RowGrows(j)
    BY <1>2, NextGrows
  <2>2. \A j \in Jobs : row[j].attempt \in Nat /\ row'[j].attempt \in Nat
    BY <1>1 DEF TypeInv, TypeOK, Rows
  <2>3. \A w \in Workers : wk[w].token \in Nat /\ wk'[w].token \in Nat
    BY <1>1 DEF TypeInv, TypeOK, WorkerMem
  <2>4. AbsentRows'
    BY <2>1 DEF RowGrows, AbsentRows, Jobs
  <2>5. ASSUME NEW v \in Workers, NEW j \in Jobs, Holds(v, j)'
        PROVE  wk'[v].token <= row'[j].attempt /\ row'[j].st # "absent"
    <3>1. CASE Holds(v, j) /\ wk'[v].token = wk[v].token
      BY <2>1, <2>2, <2>3, <2>5, <3>1 DEF TokenBound, RowGrows
    <3>2. CASE /\ wk'[v].token = row[j].attempt + 1
               /\ row'[j].attempt = row[j].attempt + 1
               /\ row'[j].st = "running"
      BY <2>2, <2>5, <3>2
    <3>. QED
      BY <1>2, <2>5, <3>1, <3>2, HoldersShrink
  <2>6. ASSUME NEW v \in Workers, NEW w \in Workers, NEW j \in Jobs,
               v # w, Holds(v, j)', Holds(w, j)'
        PROVE  wk'[v].token # wk'[w].token
    <3>1. ASSUME NEW a \in Workers, NEW b \in Workers, a # b,
                 Holds(a, j)', Holds(b, j)', ClaimHit(a),
                 wk'[a].token = row[j].attempt + 1,
                 \A u \in Workers \ {a} : wk'[u] = wk[u]
          PROVE  wk'[a].token # wk'[b].token
      <4>1. wk'[b] = wk[b] /\ Holds(b, j)
        BY <3>1 DEF Holds
      <4>2. wk[b].token <= row[j].attempt
        BY <3>1, <4>1 DEF TokenBound
      <4>. QED
        BY <2>2, <2>3, <3>1, <4>1, <4>2
    <3>2. CASE Holds(v, j) /\ Holds(w, j) /\ wk'[v].token = wk[v].token
               /\ wk'[w].token = wk[w].token
      BY <2>6, <3>2 DEF ClaimUnique
    <3>. QED
      BY <1>2, <2>6, <3>1, <3>2, HoldersShrink
  <2>. QED
    BY <1>1, <2>4, <2>5, <2>6 DEF TokenBound, ClaimUnique, Jobs
<1>3. CASE UNCHANGED vars
  BY <1>1, <1>3 DEF vars, AbsentRows, TokenBound, ClaimUnique, Holds, Jobs
<1>. QED
  BY <1>2, <1>3

\* No attempt of a job is ever held by two workers, however late unfenced
\* writes arrive and whoever requeues the job.
THEOREM ClaimsAreUnique == Spec => []ClaimUnique
<1>1. Spec => []ClaimInv
  BY InitClaim, NextClaim, PTL DEF Spec
<1>2. ClaimInv => ClaimUnique
  BY DEF ClaimInv
<1>. QED
  BY <1>1, <1>2, PTL

\* The attempt of a job never goes back.
THEOREM AttemptsAreMonotone == Spec => AttemptsGrow
<1>1. ClaimInv /\ [Next]_vars
        => [\A j \in Jobs : row'[j].attempt >= row[j].attempt]_vars
  <2>. SUFFICES ASSUME ClaimInv, Next
                PROVE  \A j \in Jobs : row'[j].attempt >= row[j].attempt
    OBVIOUS
  <2>. QED
    BY NextGrows DEF ClaimInv, RowGrows
<1>2. Spec => []ClaimInv
  BY InitClaim, NextClaim, PTL DEF Spec
<1>. QED
  BY <1>1, <1>2, PTL DEF Spec, AttemptsGrow

-----------------------------------------------------------------------------
(* Exclusive work *)

\* The worker that holds a job nobody took from it is the only one, the row is
\* as its claim or its own requeue left it, and so is what its write has read.
OwnRow(w, j) ==
  /\ \A v \in Workers : Holds(v, j) => v = w
  /\ row[j].attempt = wk[w].token
  /\ IF wk[w].pc = "requeued"
       THEN row[j].st = "queued" /\ ~Locked(row[j])
       ELSE row[j].st = "running" /\ row[j].by = w
  /\ wk[w].pc = "marking" => wk[w].seen.st = "running" /\ wk[w].seen.locked

OwnInv ==
  /\ ClaimInv
  /\ \A w \in Workers : \A j \in Jobs \ overtaken : Holds(w, j) => OwnRow(w, j)

LEMMA OwnExclusive == OwnInv => Exclusive
<1>. SUFFICES ASSUME OwnInv, NEW w \in Workers, NEW j \in Jobs \ overtaken,
                     Holds(w, j)
              PROVE  Holders(j) = {w} /\ OwnRow(w, j)
  BY DEF Exclusive, OwnRow
<1>1. OwnRow(w, j)
  BY DEF OwnInv
<1>. QED
  BY <1>1 DEF OwnRow, Holders

LEMMA InitOwn == Init => OwnInv
<1>. SUFFICES ASSUME Init PROVE OwnInv
  OBVIOUS
<1>1. \A w \in Workers : \A j \in Jobs : ~Holds(w, j)
  BY DEF Init, Holds, HoldingStates, Blank
<1>. QED
  BY <1>1, InitClaim DEF OwnInv

\* A job is never forgotten to have been overtaken.
LEMMA OvertakenGrows == ASSUME Next PROVE overtaken \subseteq overtaken'
BY DEF Next, WorkerStep, RequestStep, RequestWrite, Tick, Select, ClaimHit,
       ClaimMiss, LoadClaimed, SkipIdempotent, StartHandler, HandlerReturns,
       HandlerRaises, HandlerRequeues, VerifyRescheduled, MarkLoad, MarkWrite,
       MarkRefused, Restart, Crash, Enqueue, UpdateLoad, UpdateWrite,
       RetryLoad, RetryWrite, CancelLoad, CancelWrite, AdminRequeue

\* The row of j and the worker's share in OwnRow stay as they are.
SameFor(w, j) ==
  /\ row'[j].st = row[j].st /\ row'[j].by = row[j].by
  /\ row'[j].attempt = row[j].attempt
  /\ wk'[w].pc = wk[w].pc /\ wk'[w].token = wk[w].token
  /\ wk'[w].job = wk[w].job /\ wk'[w].seen = wk[w].seen

LEMMA NextOwn == OwnInv /\ [Next]_vars => OwnInv'
<1>. SUFFICES ASSUME OwnInv, [Next]_vars PROVE OwnInv'
  OBVIOUS
<1>0. ClaimInv /\ ClaimInv' /\ TypeOK /\ TypeOK' /\ MemoryShape
  BY NextClaim DEF OwnInv, ClaimInv, TypeInv
<1>1. CASE UNCHANGED vars
  <2>1. ASSUME NEW w \in Workers, NEW j \in Jobs \ overtaken', Holds(w, j)'
        PROVE  OwnRow(w, j)'
    BY <1>1, <2>1 DEF OwnInv, vars, Holds, OwnRow, Locked
  <2>. QED
    BY <1>0, <2>1 DEF OwnInv, Jobs
<1>2. CASE Next
  <2>. SUFFICES ASSUME NEW w \in Workers, NEW j \in Jobs, j \notin overtaken',
                       Holds(w, j)'
                PROVE  OwnRow(w, j)'
    BY <1>0 DEF OwnInv, Jobs
  <2>1. j \notin overtaken
    BY <1>2, OvertakenGrows
  <2>2. ASSUME NEW v \in Workers, Holds(v, j)
        PROVE  Holders(j) # {}
    BY <2>2 DEF Holders
  <2>3. ASSUME NEW v \in Workers, ClaimHit(v), wk[v].job = j
        PROVE  \A u \in Workers : ~Holds(u, j)
    BY <2>2, <2>3 DEF ClaimHit
  <2>4. ASSUME NEW v \in Workers, Holds(v, j)', Holds(w, j), v # w
        PROVE  FALSE
    <3>1. ~Holds(v, j)
      BY <2>1, <2>4 DEF OwnInv, OwnRow
    <3>2. ClaimHit(v) /\ wk[v].job = j
      BY <1>0, <1>2, <2>4, <3>1, HoldersShrink DEF ClaimInv
    <3>. QED
      BY <2>3, <2>4, <3>2
  <2>5. ASSUME SameFor(w, j)
        PROVE  OwnRow(w, j)'
    <3>1. Holds(w, j)
      BY <2>5 DEF SameFor, Holds
    <3>2. \A v \in Workers : Holds(v, j)' => v = w
      BY <2>4, <3>1
    <3>3. OwnRow(w, j)
      BY <2>1, <3>1 DEF OwnInv
    <3>. QED
      BY <2>5, <3>2, <3>3 DEF OwnRow, SameFor, Locked
  <2>6. CASE Tick
    <3>1. \A r \in Rows : TickRow(r).attempt = r.attempt /\ TickRow(r).st = r.st
                          /\ TickRow(r).by = r.by
      BY DEF TickRow, Rows
    <3>2. \A m \in WorkerMem : /\ TickWorker(m).pc = m.pc
                               /\ TickWorker(m).job = m.job
                               /\ TickWorker(m).token = m.token
                               /\ TickWorker(m).seen = m.seen
      BY DEF TickWorker, WorkerMem
    <3>3. SameFor(w, j)
      BY <1>0, <2>6, <3>1, <3>2 DEF Tick, TypeOK, SameFor
    <3>. QED
      BY <2>5, <3>3
  <2>7. ASSUME NEW u \in Workers, u # w, WorkerStep(u) \/ Crash(u)
        PROVE  OwnRow(w, j)'
    <3>. DEFINE i == wk[u].job
    <3>0. wk' = [wk EXCEPT ![u] = wk'[u]]
      BY <1>0, <2>7 DEF WorkerStep, Select, ClaimHit, ClaimMiss, LoadClaimed,
         SkipIdempotent, StartHandler, HandlerReturns, HandlerRaises,
         HandlerRequeues, VerifyRescheduled, MarkLoad, MarkWrite, MarkRefused,
         Restart, Crash, TypeOK
    <3>1. wk'[w] = wk[w] /\ Holds(w, j)
      BY <1>0, <2>7, <3>0 DEF TypeOK, Holds
    <3>2. ~Holds(u, j)
      BY <2>1, <2>7, <3>1 DEF OwnInv, OwnRow
    <3>3. row'[j] = row[j]
      <4>1. CASE ClaimHit(u)
        BY <1>0, <2>3, <3>1, <4>1 DEF ClaimHit, TypeOK
      <4>2. CASE HandlerRequeues(u)
        BY <1>0, <3>2, <4>2 DEF HandlerRequeues, Holds, HoldingStates, TypeOK
      <4>3. CASE MarkWrite(u)
        BY <1>0, <3>2, <4>3 DEF MarkWrite, Holds, HoldingStates, TypeOK
      <4>4. CASE row' = row
        BY <4>4
      <4>. QED
        BY <2>7, <4>1, <4>2, <4>3, <4>4
           DEF WorkerStep, Select, ClaimMiss, LoadClaimed, SkipIdempotent,
               StartHandler, HandlerReturns, HandlerRaises, VerifyRescheduled,
               MarkLoad, MarkRefused, Restart, Crash
    <3>. QED
      BY <2>5, <3>1, <3>3 DEF SameFor
  <2>8. CASE WorkerStep(w) \/ Crash(w)
    <3>. DEFINE m == wk[w]
    <3>m. m \in WorkerMem
      BY <1>0 DEF TypeOK
    <3>h. ASSUME m.pc \in HoldingStates, m.job = j
          PROVE  /\ OwnRow(w, j)
                 /\ \A v \in Workers : Holds(v, j)' => v = w
      BY <2>1, <2>4, <3>h DEF OwnInv, Holds
    <3>l. ASSUME row' = row, m.pc \in HoldingStates \ {"requeued"},
                 wk'[w].pc \notin {"requeued", "marking"},
                 wk'[w].job = m.job, wk'[w].token = m.token
          PROVE  OwnRow(w, j)'
      <4>1. m.job = j
        BY <3>l DEF Holds
      <4>. QED
        BY <3>h, <3>l, <4>1 DEF OwnRow, Locked
    <3>1. CASE Select(w)
      <4>1. wk'[w].pc = "selected"
        BY <1>0, <3>1 DEF Select, TypeOK, Blank
      <4>. QED
        BY <4>1 DEF Holds, HoldingStates
    <3>2. CASE ClaimMiss(w) \/ MarkWrite(w) \/ MarkRefused(w) \/ Restart(w)
               \/ Crash(w)
      <4>1. wk'[w].pc = "idle" \/ wk'[w].pc = "down"
        BY <1>0, <3>2 DEF ClaimMiss, MarkWrite, MarkRefused, Restart, Crash,
                          TypeOK, Blank
      <4>. QED
        BY <4>1 DEF Holds, HoldingStates
    <3>3. CASE ClaimHit(w)
      <4>. DEFINE p == [m EXCEPT !.pc = "claimed", !.token = m.attempt + 1]
      <4>1. wk'[w] = p /\ p.pc = "claimed" /\ p.job = m.job
            /\ p.token = m.attempt + 1
        BY <1>0, <3>m, <3>3 DEF ClaimHit, TypeOK, WorkerMem
      <4>2. m.job = j
        BY <4>1 DEF Holds
      <4>3. row'[j] = [row[j] EXCEPT !.st = "running", !.attempt = m.attempt + 1,
                                     !.by = w, !.lockAge = 0]
        BY <1>0, <3>3, <4>2 DEF ClaimHit, TypeOK
      <4>4. row'[j].st = "running" /\ row'[j].attempt = m.attempt + 1
            /\ row'[j].by = w
        BY <1>0, <4>3 DEF TypeOK, Rows
      <4>5. ASSUME NEW v \in Workers, Holds(v, j)', v # w
            PROVE  FALSE
        <5>1. wk'[v] = wk[v]
          BY <1>0, <3>3, <4>5 DEF ClaimHit, TypeOK
        <5>2. Holds(v, j)
          BY <4>5, <5>1 DEF Holds
        <5>. QED
          BY <2>3, <3>3, <4>2, <5>2
      <4>. QED
        BY <4>1, <4>4, <4>5 DEF OwnRow
    <3>4. CASE LoadClaimed(w)
      <4>1. /\ wk'[w].pc = "loaded" /\ wk'[w].job = m.job
            /\ wk'[w].token = m.token
        BY <1>0, <3>m, <3>4 DEF LoadClaimed, TypeOK, WorkerMem
      <4>. QED
        BY <3>4, <3>l, <4>1 DEF LoadClaimed, HoldingStates
    <3>5. CASE SkipIdempotent(w) \/ HandlerReturns(w) \/ HandlerRaises(w)
      <4>1. PICK t : wk'[w] = [m EXCEPT !.pc = "finishing", !.target = t]
        BY <1>0, <3>5 DEF SkipIdempotent, HandlerReturns, HandlerRaises, TypeOK
      <4>2. /\ wk'[w].pc = "finishing" /\ wk'[w].job = m.job
            /\ wk'[w].token = m.token
        BY <3>m, <4>1 DEF WorkerMem
      <4>. QED
        BY <3>5, <3>l, <4>2
           DEF SkipIdempotent, HandlerReturns, HandlerRaises, HoldingStates
    <3>6. CASE StartHandler(w)
      <4>1. /\ wk'[w].pc = "handling" /\ wk'[w].job = m.job
            /\ wk'[w].token = m.token
        BY <1>0, <3>m, <3>6 DEF StartHandler, TypeOK, WorkerMem
      <4>. QED
        BY <3>6, <3>l, <4>1 DEF StartHandler, HoldingStates
    <3>7. CASE HandlerRequeues(w)
      <4>1. m.pc = "handling" /\ wk'[w].job = m.job /\ wk'[w].token = m.token
        <5>1. \/ wk'[w] = [m EXCEPT !.pc = "requeued"]
              \/ wk'[w] = [m EXCEPT !.pc = "finishing",
                                    !.target = RetryOrDeadLetter(m)]
          BY <1>0, <3>7 DEF HandlerRequeues, TypeOK
        <5>. QED
          BY <3>m, <3>7, <5>1 DEF HandlerRequeues, WorkerMem
      <4>2. m.job = j
        BY <4>1 DEF Holds
      <4>3. OwnRow(w, j) /\ \A v \in Workers : Holds(v, j)' => v = w
        BY <3>h, <4>1, <4>2 DEF HoldingStates
      <4>4. row[j].st = "running"
        BY <4>1, <4>3 DEF OwnRow
      <4>5. PICK d \in Delays : row' = [row EXCEPT ![j] =
                   [Unlock(row[j]) EXCEPT !.st = "queued", !.due = d]]
        BY <3>7, <4>2, <4>4 DEF HandlerRequeues
      <4>6. wk'[w].pc = "requeued"
        <5>1. wk' = [wk EXCEPT ![w] = [m EXCEPT !.pc = "requeued"]]
          BY <3>7, <4>2, <4>4 DEF HandlerRequeues
        <5>2. wk'[w] = [m EXCEPT !.pc = "requeued"]
          BY <1>0, <5>1 DEF TypeOK
        <5>. QED
          BY <3>m, <5>2 DEF WorkerMem
      <4>7. row'[j].st = "queued" /\ row'[j].by = None
            /\ row'[j].attempt = row[j].attempt
        <5>1. row'[j] = [Unlock(row[j]) EXCEPT !.st = "queued", !.due = d]
          BY <1>0, <4>5 DEF TypeOK
        <5>2. row[j] \in Rows /\ Unlock(row[j]) \in Rows
          BY <1>0, RowTypes DEF TypeOK
        <5>. QED
          BY <5>1, <5>2, UnlockKeeps DEF Rows
      <4>. QED
        BY <4>1, <4>3, <4>6, <4>7 DEF OwnRow, Locked
    <3>8. CASE VerifyRescheduled(w)
      <4>1. CASE m.job = j
        <5>1. OwnRow(w, j)
          BY <3>8, <3>h, <4>1 DEF VerifyRescheduled, HoldingStates
        <5>2. row[j].st = "queued" /\ ~Locked(row[j])
          BY <3>8, <5>1 DEF VerifyRescheduled, OwnRow
        <5>3. wk'[w] = Blank("idle")
          BY <1>0, <3>8, <4>1, <5>2 DEF VerifyRescheduled, TypeOK
        <5>. QED
          BY <5>3 DEF Blank, Holds, HoldingStates
      <4>2. CASE m.job # j
        <5>1. \/ wk'[w] = Blank("idle")
              \/ wk'[w] = [m EXCEPT !.pc = "finishing",
                                    !.target = RetryOrDeadLetter(m)]
          BY <1>0, <3>8 DEF VerifyRescheduled, TypeOK
        <5>2. Blank("idle").pc = "idle"
          BY DEF Blank
        <5>3. wk'[w].pc = "idle" \/ wk'[w].job = m.job
          BY <3>m, <5>1, <5>2 DEF WorkerMem
        <5>. QED
          BY <4>2, <5>3 DEF Holds, HoldingStates
      <4>. QED
        BY <4>1, <4>2
    <3>9. CASE MarkLoad(w)
      <4>1. /\ wk'[w].pc = "marking" /\ wk'[w].job = m.job
            /\ wk'[w].token = m.token /\ wk'[w].seen = See(m.job)
            /\ m.pc = "finishing" /\ row' = row
        BY <1>0, <3>m, <3>9 DEF MarkLoad, TypeOK, WorkerMem
      <4>2. m.job = j
        BY <4>1 DEF Holds
      <4>3. OwnRow(w, j) /\ \A v \in Workers : Holds(v, j)' => v = w
        BY <3>h, <4>1, <4>2 DEF HoldingStates
      <4>4. See(j).st = "running" /\ See(j).locked
        BY <4>1, <4>3, ConstantAssumption DEF OwnRow, See, Locked
      <4>. QED
        BY <4>1, <4>2, <4>3, <4>4 DEF OwnRow, Locked
    <3>. QED
      BY <2>8, <3>1, <3>2, <3>3, <3>4, <3>5, <3>6, <3>7, <3>8, <3>9
         DEF WorkerStep
  <2>9. ASSUME wk' = wk
        PROVE  /\ Holds(w, j) /\ row[j].st # "absent"
               /\ row'[j] = row[j] => OwnRow(w, j)'
    <3>1. Holds(w, j)
      BY <2>9 DEF Holds
    <3>2. row[j].st # "absent"
      BY <1>0, <3>1 DEF ClaimInv, TokenBound
    <3>. QED
      BY <2>5, <2>9, <3>1, <3>2 DEF SameFor
  <2>10. ASSUME NEW k \in Keys, Enqueue(k)
         PROVE  OwnRow(w, j)'
    <3>1. row'[j] = row[j]
      BY <1>0, <2>9, <2>10 DEF Enqueue, TypeOK
    <3>. QED
      BY <2>9, <2>10, <3>1 DEF Enqueue
  <2>11. ASSUME NEW r \in Requests, RequestStep(r)
         PROVE  OwnRow(w, j)'
    <3>0. wk' = wk
      BY <2>11 DEF RequestStep, RequestWrite, UpdateLoad, UpdateWrite,
                   RetryLoad, RetryWrite, CancelLoad, CancelWrite
    <3>1. CASE UpdateWrite(r)
      <4>1. PICK d \in Delays : row' = [row EXCEPT ![req[r].job] =
              [row[req[r].job] EXCEPT !.ver = req[r].ver, !.due = d]]
        BY <3>1 DEF UpdateWrite
      <4>2. row'[j].st = row[j].st /\ row'[j].by = row[j].by
            /\ row'[j].attempt = row[j].attempt
        <5>1. row[j] \in Rows
          BY <1>0 DEF TypeOK
        <5>2. row'[j] = row[j] \/ row'[j] =
                [row[j] EXCEPT !.ver = req[r].ver, !.due = d]
          BY <1>0, <4>1 DEF TypeOK
        <5>. QED
          BY <5>1, <5>2 DEF Rows
      <4>. QED
        BY <2>5, <3>0, <4>2 DEF SameFor
    <3>2. CASE RetryWrite(r)
      <4>1. row'[j] = row[j]
        BY <1>0, <2>9, <3>0, <3>2 DEF RetryWrite, RetryAdmitted, TypeOK
      <4>. QED
        BY <2>9, <3>0, <4>1
    <3>3. CASE CancelWrite(r)
      <4>1. row'[j] = row[j]
        BY <1>0, <3>3 DEF CancelWrite, TypeOK
      <4>. QED
        BY <2>9, <3>0, <4>1
    <3>4. CASE row' = row
      BY <2>9, <3>0, <3>4
    <3>. QED
      BY <2>11, <3>1, <3>2, <3>3, <3>4
         DEF RequestStep, RequestWrite, UpdateLoad, RetryLoad, CancelLoad
  <2>12. ASSUME NEW i \in Jobs, NEW force \in BOOLEAN, AdminRequeue(i, force)
         PROVE  OwnRow(w, j)'
    <3>0. wk' = wk
      BY <2>12 DEF AdminRequeue
    <3>1. i # j
      BY <2>2, <2>9, <2>12, <3>0 DEF AdminRequeue
    <3>2. row'[j] = row[j]
      BY <1>0, <2>12, <3>1 DEF AdminRequeue, TypeOK
    <3>. QED
      BY <2>9, <3>0, <3>2
  <2>. QED
    BY <1>2, <2>6, <2>7, <2>8, <2>10, <2>11, <2>12 DEF Next
<1>. QED
  BY <1>1, <1>2

\* A worker nobody took its job from is alone with it, and the row says so.
THEOREM WorkIsExclusive == Spec => []Exclusive
<1>1. Spec => []OwnInv
  BY InitOwn, NextOwn, PTL DEF Spec
<1>. QED
  BY <1>1, OwnExclusive, PTL

\* A finished job changes only by an operator's requeue, unless it was taken
\* from a worker at some time.
THEOREM FinishedJobsStay == Spec => FinishedStays
<1>1. OwnInv /\ [Next]_vars
        => [\A j \in Jobs \ overtaken' :
              row[j].st \in Terminal /\ row'[j].st # row[j].st
                => \E force \in BOOLEAN : AdminRequeue(j, force)]_vars
  <2>. SUFFICES ASSUME OwnInv, Next, NEW j \in Jobs, j \notin overtaken',
                       row[j].st \in Terminal, row'[j].st # row[j].st
                PROVE  \E force \in BOOLEAN : AdminRequeue(j, force)
    OBVIOUS
  <2>0. TypeOK /\ MemoryShape /\ j \notin overtaken
    BY OvertakenGrows DEF OwnInv, ClaimInv, TypeInv
  <2>1. row[j] \in Rows
    BY <2>0 DEF TypeOK
  <2>2. ASSUME Tick PROVE FALSE
    <3>1. row'[j] = TickRow(row[j])
      BY <2>2 DEF Tick
    <3>2. TickRow(row[j]).st = row[j].st
      BY <2>1 DEF TickRow, Rows
    <3>. QED
      BY <3>1, <3>2
  <2>3. ASSUME NEW w \in Workers, WorkerStep(w) \/ Crash(w)
        PROVE  FALSE
    <3>1. ASSUME ClaimHit(w) PROVE FALSE
      BY <2>0, <3>1 DEF ClaimHit, ClaimMatches, Runnable, TypeOK
    <3>2. ASSUME HandlerRequeues(w) PROVE FALSE
      BY <2>0, <3>2 DEF HandlerRequeues, TypeOK
    <3>3. ASSUME MarkWrite(w) PROVE FALSE
      <4>1. wk[w].job = j
        BY <2>0, <3>3 DEF MarkWrite, TypeOK
      <4>2. Holds(w, j)
        BY <3>3, <4>1 DEF MarkWrite, Holds, HoldingStates
      <4>3. row[j].st = "running"
        BY <2>0, <3>3, <4>2 DEF OwnInv, OwnRow, MarkWrite
      <4>. QED
        BY <4>3
    <3>. QED
      BY <2>3, <3>1, <3>2, <3>3
         DEF WorkerStep, Select, ClaimMiss, LoadClaimed, SkipIdempotent,
             StartHandler, HandlerReturns, HandlerRaises, VerifyRescheduled,
             MarkLoad, MarkRefused, Restart, Crash
  <2>4. ASSUME NEW k \in Keys, Enqueue(k) PROVE FALSE
    BY <2>0, <2>4 DEF Enqueue, TypeOK
  <2>5. ASSUME NEW r \in Requests, RequestStep(r) PROVE FALSE
    <3>1. ASSUME UpdateWrite(r) PROVE FALSE
      <4>1. PICK d \in Delays :
               row' = [row EXCEPT ![req[r].job] =
                         [@ EXCEPT !.ver = req[r].ver, !.due = d]]
        BY <3>1 DEF UpdateWrite
      <4>2. \/ row'[j] = row[j]
            \/ row'[j] = [row[j] EXCEPT !.ver = req[r].ver, !.due = d]
        BY <2>0, <4>1 DEF TypeOK
      <4>3. [row[j] EXCEPT !.ver = req[r].ver, !.due = d].st = row[j].st
        BY <2>1 DEF Rows
      <4>. QED
        BY <4>2, <4>3
    <3>2. ASSUME RetryWrite(r) PROVE FALSE
      BY <2>0, <3>2 DEF RetryWrite, RetryAdmitted, TypeOK
    <3>3. ASSUME CancelWrite(r) PROVE FALSE
      BY <2>0, <3>3 DEF CancelWrite, TypeOK
    <3>. QED
      BY <2>5, <3>1, <3>2, <3>3
         DEF RequestStep, RequestWrite, UpdateLoad, RetryLoad, CancelLoad
  <2>6. ASSUME NEW i \in Jobs, NEW force \in BOOLEAN, AdminRequeue(i, force)
        PROVE  AdminRequeue(j, force)
    <3>1. i = j
      BY <2>0, <2>6 DEF AdminRequeue, TypeOK
    <3>. QED
      BY <2>6, <3>1
  <2>. QED
    BY <2>2, <2>3, <2>4, <2>5, <2>6 DEF Next
<1>2. Spec => []OwnInv
  BY InitOwn, NextOwn, PTL DEF Spec
<1>. QED
  BY <1>1, <1>2, PTL DEF Spec, FinishedStays

-----------------------------------------------------------------------------
(* Dead letters *)

\* A worker that found a copy of its job when it looked still has one.
CopySeen ==
  \A w \in Workers :
    wk[w].pc = "marking" /\ wk[w].seen.copied => failed[wk[w].job] # "none"

CopyInv == OwnInv /\ CopySeen /\ DeadLetterCopied

\* No copy is ever removed.
LEMMA CopiesStay ==
  ASSUME TypeInv, Next, NEW j \in Jobs, failed[j] # "none"
  PROVE  failed'[j] # "none"
<1>. USE DEF TypeInv
<1>1. ASSUME NEW w \in Workers, MarkWrite(w) PROVE failed'[j] # "none"
  BY <1>1 DEF MarkWrite, TypeOK
<1>2. ASSUME NEW r \in Requests, RetryWrite(r) PROVE failed'[j] # "none"
  BY <1>2 DEF RetryWrite, TypeOK
<1>3. CASE failed' = failed
  BY <1>3
<1>. QED
  BY <1>1, <1>2, <1>3
     DEF Next, WorkerStep, RequestStep, RequestWrite, Tick, Select, ClaimHit,
         ClaimMiss, LoadClaimed, SkipIdempotent, StartHandler, HandlerReturns,
         HandlerRaises, HandlerRequeues, VerifyRescheduled, MarkLoad,
         MarkRefused, Restart, Crash, Enqueue, UpdateLoad, UpdateWrite,
         RetryLoad, CancelLoad, CancelWrite, AdminRequeue

\* What a SELECT that found a copy tells.
LEMMA SeeCopy ==
  ASSUME NEW j, See(j).copied
  PROVE  failed[j] # "none"
<1>1. See(j).copied = (failed[j] # "none")
  BY DEF See
<1>. QED
  BY <1>1

\* A worker that is about to write was so before, or has just looked.
LEMMA MarkingFrom ==
  ASSUME TypeInv, Next, NEW v \in Workers, wk'[v].pc = "marking"
  PROVE  \/ MarkLoad(v)
         \/ /\ wk[v].pc = "marking" /\ wk'[v].job = wk[v].job
            /\ wk'[v].seen = wk[v].seen
<1>. USE DEF TypeInv
<1>0. \A w \in Workers : wk[w] \in WorkerMem
  BY DEF TypeOK
<1>1. CASE Tick
  <2>1. \A m \in WorkerMem : /\ TickWorker(m).pc = m.pc
                             /\ TickWorker(m).job = m.job
                             /\ TickWorker(m).seen = m.seen
    BY DEF TickWorker, WorkerMem
  <2>2. wk'[v] = TickWorker(wk[v])
    BY <1>1 DEF Tick
  <2>. QED
    BY <1>0, <2>1, <2>2
<1>2. ASSUME NEW w \in Workers, WorkerStep(w) \/ Crash(w), ~MarkLoad(v)
      PROVE  wk'[v] = wk[v]
  <2>1. CASE v # w
    <3>1. wk' = [wk EXCEPT ![w] = wk'[w]]
      BY <1>2 DEF WorkerStep, Select, ClaimHit, ClaimMiss, LoadClaimed,
         SkipIdempotent, StartHandler, HandlerReturns, HandlerRaises,
         HandlerRequeues, VerifyRescheduled, MarkLoad, MarkWrite, MarkRefused,
         Restart, Crash, TypeOK
    <3>. QED
      BY <2>1, <3>1 DEF TypeOK
  <2>2. CASE v = w
    <3>. DEFINE m == wk[v]
    <3>0. \A p : Blank(p).pc = p
      BY DEF Blank
    <3>1. CASE Select(v)
      BY <3>1 DEF Select, TypeOK, Blank
    <3>2. CASE ClaimMiss(v) \/ MarkWrite(v) \/ MarkRefused(v) \/ Restart(v)
               \/ Crash(v)
      <4>1. wk'[v] = Blank("idle") \/ wk'[v] = Blank("down")
        BY <3>2 DEF ClaimMiss, MarkWrite, MarkRefused, Restart, Crash, TypeOK
      <4>. QED
        BY <3>0, <4>1
    <3>3. CASE ClaimHit(v)
      <4>1. wk'[v] = [m EXCEPT !.pc = "claimed", !.token = m.attempt + 1]
        BY <3>3 DEF ClaimHit, TypeOK
      <4>2. wk'[v].pc = "claimed"
        BY <1>0, <4>1 DEF WorkerMem
      <4>. QED
        BY <4>2
    <3>8. CASE LoadClaimed(v) \/ StartHandler(v)
      <4>1. wk'[v].pc \in {"loaded", "handling"}
        BY <1>0, <3>8 DEF LoadClaimed, StartHandler, TypeOK, WorkerMem
      <4>. QED
        BY <4>1
    <3>4. ASSUME NEW t, wk'[v] = [m EXCEPT !.pc = "finishing", !.target = t]
          PROVE  FALSE
      BY <1>0, <3>4 DEF WorkerMem
    <3>5. CASE SkipIdempotent(v) \/ HandlerReturns(v) \/ HandlerRaises(v)
      BY <3>4, <3>5 DEF SkipIdempotent, HandlerReturns, HandlerRaises, TypeOK
    <3>6. CASE HandlerRequeues(v)
      <4>1. \/ wk'[v] = [m EXCEPT !.pc = "requeued"]
            \/ wk'[v] = [m EXCEPT !.pc = "finishing",
                                  !.target = RetryOrDeadLetter(m)]
        BY <3>6 DEF HandlerRequeues, TypeOK
      <4>. QED
        BY <1>0, <3>4, <4>1 DEF WorkerMem
    <3>7. CASE VerifyRescheduled(v)
      <4>1. \/ wk'[v] = Blank("idle")
            \/ wk'[v] = [m EXCEPT !.pc = "finishing",
                                  !.target = RetryOrDeadLetter(m)]
        BY <3>7 DEF VerifyRescheduled, TypeOK
      <4>. QED
        BY <3>0, <3>4, <4>1
    <3>. QED
      BY <1>2, <2>2, <3>1, <3>2, <3>3, <3>5, <3>6, <3>7, <3>8 DEF WorkerStep
  <2>. QED
    BY <2>1, <2>2
<1>3. CASE wk' = wk
  BY <1>3
<1>. QED
  BY <1>1, <1>2, <1>3
     DEF Next, Enqueue, RequestStep, RequestWrite, UpdateLoad, UpdateWrite,
         RetryLoad, RetryWrite, CancelLoad, CancelWrite, AdminRequeue

\* Only the worker that holds a job gives it up, termination apart.
LEMMA DeadLetterFrom ==
  ASSUME TypeInv, Next, NEW j \in Jobs, j \notin overtaken',
         row[j].st # "dead_letter", row'[j].st = "dead_letter"
  PROVE  \E w \in Workers : MarkWrite(w) /\ wk[w].job = j
<1>. USE DEF TypeInv
<1>0. row[j] \in Rows
  BY DEF TypeOK
<1>1. ASSUME Tick PROVE FALSE
  <2>1. row'[j] = TickRow(row[j])
    BY <1>1 DEF Tick
  <2>. QED
    BY <1>0, <2>1 DEF TickRow, Rows
<1>2. ASSUME NEW w \in Workers, ClaimHit(w) PROVE FALSE
  <2>1. \/ row'[j] = row[j]
        \/ row'[j] = [row[j] EXCEPT !.st = "running",
             !.attempt = wk[w].attempt + 1, !.by = w, !.lockAge = 0]
    BY <1>2 DEF ClaimHit, TypeOK
  <2>. QED
    BY <1>0, <2>1 DEF Rows
<1>3. ASSUME NEW r \in Rows, NEW d, row'[j] = [r EXCEPT !.st = "queued", !.due = d]
      PROVE  FALSE
  BY <1>3 DEF Rows
<1>4. ASSUME NEW w \in Workers, HandlerRequeues(w) PROVE FALSE
  <2>1. \/ row'[j] = row[j]
        \/ \E d \in Delays : row'[j] = [Unlock(row[j]) EXCEPT !.st = "queued", !.due = d]
    BY <1>4 DEF HandlerRequeues, TypeOK
  <2>. QED
    BY <1>0, <1>3, <2>1, RowTypes
<1>5. ASSUME NEW w \in Workers, MarkWrite(w) PROVE wk[w].job = j
  BY <1>5 DEF MarkWrite, TypeOK
<1>6. ASSUME NEW k \in Keys, Enqueue(k) PROVE FALSE
  <2>1. PICK d \in Delays : row' = [row EXCEPT ![<<k, 0>>] = NewRow(d, 0)]
    BY <1>6 DEF Enqueue
  <2>. QED
    BY <2>1 DEF NewRow, TypeOK
<1>7. ASSUME NEW r \in Requests, UpdateWrite(r) PROVE FALSE
  <2>1. PICK d \in Delays : row' = [row EXCEPT ![req[r].job] =
                              [@ EXCEPT !.ver = req[r].ver, !.due = d]]
    BY <1>7 DEF UpdateWrite
  <2>2. \/ row'[j] = row[j]
        \/ row'[j] = [row[j] EXCEPT !.ver = req[r].ver, !.due = d]
    BY <2>1 DEF TypeOK
  <2>. QED
    BY <1>0, <2>2 DEF Rows
<1>8. ASSUME NEW r \in Requests, RetryWrite(r) PROVE FALSE
  <2>1. row'[j] = row[j] \/ row'[j] = NewRow(0, req[r].ver)
    BY <1>8 DEF RetryWrite, TypeOK
  <2>. QED
    BY <2>1 DEF NewRow
<1>9. ASSUME NEW r \in Requests, CancelWrite(r) PROVE FALSE
  BY <1>9 DEF CancelWrite, TypeOK
<1>10. ASSUME NEW i \in Jobs, NEW force \in BOOLEAN, AdminRequeue(i, force)
       PROVE  FALSE
  <2>1. row'[j] = row[j] \/ row'[j] = [Unlock(row[j]) EXCEPT !.st = "queued", !.due = 0]
    BY <1>10 DEF AdminRequeue, TypeOK
  <2>. QED
    BY <1>0, <1>3, <2>1, RowTypes
<1>11. row' # row
  OBVIOUS
<1>. QED
  BY <1>1, <1>2, <1>4, <1>5, <1>6, <1>7, <1>8, <1>9, <1>10, <1>11
     DEF Next, WorkerStep, RequestStep, RequestWrite, Select, ClaimMiss,
         LoadClaimed, SkipIdempotent, StartHandler, HandlerReturns,
         HandlerRaises, VerifyRescheduled, MarkLoad, MarkRefused, Restart,
         Crash, UpdateLoad, RetryLoad, CancelLoad

LEMMA NextCopy == CopyInv /\ [Next]_vars => CopyInv'
<1>. SUFFICES ASSUME CopyInv, [Next]_vars PROVE CopyInv'
  OBVIOUS
<1>0. TypeInv /\ OwnInv /\ OwnInv'
  BY NextOwn DEF CopyInv, OwnInv, ClaimInv
<1>1. CASE UNCHANGED vars
  BY <1>0, <1>1 DEF CopyInv, CopySeen, DeadLetterCopied, vars, Jobs
<1>2. CASE Next
  <2>1. ASSUME NEW w \in Workers, wk'[w].pc = "marking", wk'[w].seen.copied
        PROVE  failed'[wk'[w].job] # "none"
    <3>1. CASE MarkLoad(w)
      <4>1. wk'[w].job = wk[w].job /\ wk'[w].seen = See(wk[w].job) /\ failed' = failed
        BY <1>0, <3>1 DEF MarkLoad, TypeInv, TypeOK, WorkerMem
      <4>. QED
        BY <2>1, <4>1, SeeCopy
    <3>2. CASE /\ wk[w].pc = "marking" /\ wk'[w].job = wk[w].job
               /\ wk'[w].seen = wk[w].seen
      <4>1. failed[wk[w].job] # "none" /\ wk[w].job \in Jobs
        BY <1>0, <2>1, <3>2 DEF CopyInv, CopySeen, TypeInv, MemoryShape
      <4>. QED
        BY <1>0, <1>2, <3>2, <4>1, CopiesStay
    <3>. QED
      BY <1>0, <1>2, <2>1, <3>1, <3>2, MarkingFrom
  <2>2. ASSUME NEW j \in Jobs, j \notin overtaken', row'[j].st = "dead_letter"
        PROVE  failed'[j] # "none"
    <3>1. CASE row[j].st = "dead_letter"
      <4>1. failed[j] # "none"
        BY <1>2, <2>2, <3>1, OvertakenGrows DEF CopyInv, DeadLetterCopied
      <4>. QED
        BY <1>0, <1>2, <4>1, CopiesStay
    <3>2. CASE row[j].st # "dead_letter"
      <4>1. PICK w \in Workers : MarkWrite(w) /\ wk[w].job = j
        BY <1>0, <1>2, <2>2, <3>2, DeadLetterFrom
      <4>2. Holds(w, j) /\ j \notin overtaken
        BY <1>2, <2>2, <4>1, OvertakenGrows DEF MarkWrite, Holds, HoldingStates
      <4>3. row[j].st = "running" /\ wk[w].seen.st = "running"
        BY <1>0, <4>1, <4>2 DEF OwnInv, OwnRow, MarkWrite
      <4>4. row[j] \in Rows /\ wk[w].target \in Targets /\ wk[w].pc = "marking"
        BY <1>0, <4>1 DEF TypeInv, TypeOK, WorkerMem, MarkWrite
      <4>5. PICK d : row'[j] = WriteBack(row[j], wk[w].seen, wk[w].target, d)
        BY <1>0, <4>1 DEF MarkWrite, TypeInv, TypeOK
      <4>6. wk[w].target = "dead_letter"
        <5>1. row'[j].st = IF wk[w].seen.st = wk[w].target
                             THEN row[j].st ELSE wk[w].target
          BY <4>4, <4>5, WriteBackKeeps DEF Targets
        <5>. QED
          BY <2>2, <4>3, <5>1
      <4>7. CASE wk[w].seen.copied
        <5>1. failed[j] # "none"
          BY <4>1, <4>4, <4>7 DEF CopyInv, CopySeen
        <5>. QED
          BY <1>0, <1>2, <5>1, CopiesStay
      <4>8. CASE ~wk[w].seen.copied
        <5>1. failed' = [failed EXCEPT ![j] = "copied"]
          BY <4>1, <4>6, <4>8 DEF MarkWrite
        <5>. QED
          BY <1>0, <5>1 DEF TypeInv, TypeOK
      <4>. QED
        BY <4>7, <4>8
    <3>. QED
      BY <3>1, <3>2
  <2>. QED
    BY <1>0, <2>1, <2>2 DEF CopyInv, CopySeen, DeadLetterCopied, Jobs
<1>. QED
  BY <1>1, <1>2

LEMMA InitCopy == Init => CopyInv
<1>. SUFFICES ASSUME Init PROVE CopyInv
  OBVIOUS
<1>1. CopySeen
  BY DEF Init, CopySeen, Blank
<1>2. DeadLetterCopied
  BY DEF Init, DeadLetterCopied, NoRow
<1>. QED
  BY <1>1, <1>2, InitOwn DEF CopyInv

\* Every dead letter of a job nobody took from its worker can be retried from
\* its copy in failed_jobs.
THEOREM DeadLettersAreCopied == Spec => []DeadLetterCopied
<1>1. CopyInv => DeadLetterCopied
  BY DEF CopyInv
<1>. QED
  BY <1>1, InitCopy, NextCopy, PTL DEF Spec

-----------------------------------------------------------------------------
(* The budget of attempts *)

\* The claims a job may have had: each beyond the maximum is owed to a fault.
Limit == MaxAttempts + faults

\* What a worker that holds a job may still do to it: it decides from the
\* attempt it claimed, only an attempt below the maximum asks for another, and
\* nobody makes the copy that it is about to make.
Memory(w, j) ==
  Holds(w, j) =>
    /\ wk[w].pc # "claimed" => wk[w].attempt = wk[w].token
    /\ wk[w].pc \in {"finishing", "marking"} /\ wk[w].target = "queued"
         => wk[w].token < MaxAttempts
    /\ wk[w].pc = "marking" /\ wk[w].target = "dead_letter" /\ ~wk[w].seen.copied
         => failed[j] = "none"

\* A queued job has a claim left, and so has a running one without a worker,
\* which an expired lease will make runnable; only a job that was a dead letter
\* before, and so has its copy, is ever retried.
Budget(j) ==
  /\ row[j].attempt <= Limit
  /\ row[j].st = "queued" => row[j].attempt < Limit
  /\ row[j].st = "running" /\ Holders(j) = {} => row[j].attempt < Limit
  /\ \A r \in Requests :
       req[r].op = "retry" /\ req[r].job = j => failed[j] # "none"
  /\ \A w \in Workers : Memory(w, j)

BudgetInv ==
  /\ CopyInv
  /\ \A j \in Jobs \ overtaken : Budget(j)

\* Crashes and interventions are counted and never forgotten.
LEMMA FaultsGrow == ASSUME Next PROVE faults' = faults \/ faults' = faults + 1
BY DEF Next, WorkerStep, RequestStep, RequestWrite, Tick, Select, ClaimHit,
       ClaimMiss, LoadClaimed, SkipIdempotent, StartHandler, HandlerReturns,
       HandlerRaises, HandlerRequeues, VerifyRescheduled, MarkLoad, MarkWrite,
       MarkRefused, Restart, Crash, Enqueue, UpdateLoad, UpdateWrite,
       RetryLoad, RetryWrite, CancelLoad, CancelWrite, AdminRequeue

LEMMA LimitGrows ==
  ASSUME TypeInv, Next
  PROVE  /\ Limit \in Nat /\ Limit' \in Nat /\ Limit <= Limit'
         /\ MaxAttempts <= Limit
         /\ faults' = faults + 1 => Limit < Limit'
<1>1. faults \in Nat /\ MaxAttempts \in Nat
  BY ConstantAssumption DEF TypeInv, TypeOK
<1>2. CASE faults' = faults
  BY <1>1, <1>2 DEF Limit
<1>3. CASE faults' = faults + 1
  BY <1>1, <1>3 DEF Limit
<1>. QED
  BY <1>2, <1>3, FaultsGrow

\* A worker's step keeps the budget of a job nobody takes from its worker.
LEMMA WorkerBudget ==
  ASSUME CopyInv, Next, NEW u \in Workers, WorkerStep(u),
         NEW j \in Jobs, j \notin overtaken', Budget(j)
  PROVE  Budget(j)'
<1>0. /\ TypeInv /\ TypeOK /\ MemoryShape /\ TypeOK' /\ j \notin overtaken
      /\ \A v \in Workers : wk[v] \in WorkerMem
      /\ row[j] \in Rows /\ row[j].attempt \in Nat
  BY NextType, OvertakenGrows DEF CopyInv, OwnInv, ClaimInv, TypeInv, TypeOK, Rows
<1>1. /\ Limit \in Nat /\ Limit' \in Nat /\ Limit <= Limit'
      /\ MaxAttempts <= Limit /\ MaxAttempts \in Nat
      /\ faults' = faults + 1 => Limit < Limit'
  BY <1>0, LimitGrows, ConstantAssumption
<1>. DEFINE m == wk[u]
<1>2. wk' = [wk EXCEPT ![u] = wk'[u]] /\ req' = req
  BY <1>0 DEF WorkerStep, Select, ClaimHit, ClaimMiss, LoadClaimed,
     SkipIdempotent, StartHandler, HandlerReturns, HandlerRaises,
     HandlerRequeues, VerifyRescheduled, MarkLoad, MarkWrite, MarkRefused,
     Restart, TypeOK
<1>3. \A v \in Workers \ {u} : wk'[v] = wk[v]
  BY <1>0, <1>2 DEF TypeOK
<1>4. ASSUME failed'[j] = failed[j]
      PROVE  \A v \in Workers \ {u} : (Holds(v, j)' <=> Holds(v, j)) /\ Memory(v, j)'
  BY <1>3, <1>4 DEF Holds, Memory, Budget
<1>5. ASSUME row'[j] = row[j], failed'[j] = failed[j],
             Holds(u, j) => Holds(u, j)', Memory(u, j)'
      PROVE  Budget(j)'
  <2>1. Holders(j)' = {} => Holders(j) = {}
    BY <1>4, <1>5 DEF Holders
  <2>2. \A v \in Workers : Memory(v, j)'
    BY <1>4, <1>5
  <2>3. row[j].attempt < Limit => row[j].attempt < Limit'
    BY <1>0, <1>1
  <2>4. row[j].attempt <= Limit => row[j].attempt <= Limit'
    BY <1>0, <1>1
  <2>. QED
    BY <1>2, <1>5, <2>1, <2>2, <2>3, <2>4 DEF Budget
<1>6. CASE ~Holds(u, j) /\ ~Holds(u, j)'
  <2>1. ASSUME ClaimHit(u) PROVE m.job # j
    <3>1. wk'[u].pc = "claimed" /\ wk'[u].job = m.job
      BY <1>0, <2>1 DEF ClaimHit, TypeOK, WorkerMem
    <3>. QED
      BY <1>6, <3>1 DEF Holds, HoldingStates
  <2>2. ASSUME MarkWrite(u) \/ HandlerRequeues(u) PROVE m.job # j
    BY <1>6, <2>2 DEF MarkWrite, HandlerRequeues, Holds, HoldingStates
  <2>3. row'[j] = row[j] /\ failed'[j] = failed[j]
    <3>1. CASE ClaimHit(u)
      BY <1>0, <2>1, <3>1 DEF ClaimHit, TypeOK
    <3>2. CASE MarkWrite(u)
      BY <1>0, <2>2, <3>2 DEF MarkWrite, TypeOK
    <3>3. CASE HandlerRequeues(u)
      BY <1>0, <2>2, <3>3 DEF HandlerRequeues, TypeOK
    <3>4. CASE row' = row /\ failed' = failed
      BY <3>4
    <3>. QED
      BY <3>1, <3>2, <3>3, <3>4
         DEF WorkerStep, Select, ClaimMiss, LoadClaimed, SkipIdempotent,
             StartHandler, HandlerReturns, HandlerRaises, VerifyRescheduled,
             MarkLoad, MarkRefused, Restart
  <2>4. Memory(u, j)'
    BY <1>6 DEF Memory
  <2>. QED
    BY <1>5, <1>6, <2>3, <2>4
<1>7. CASE ~Holds(u, j) /\ Holds(u, j)'
  <2>1. /\ ClaimHit(u) /\ m.job = j /\ wk'[u].token = row[j].attempt + 1
        /\ row'[j].attempt = row[j].attempt + 1 /\ row'[j].st = "running"
    BY <1>0, <1>7, HoldersShrink
  <2>2. Holders(j) = {} /\ Runnable(row[j]) /\ failed' = failed
    BY <1>0, <2>1 DEF ClaimHit, ClaimMatches
  <2>3. row[j].attempt < Limit
    BY <2>2 DEF Runnable, Budget
  <2>4. row'[j].attempt <= Limit'
    BY <1>0, <1>1, <2>1, <2>3
  <2>5. wk'[u].pc = "claimed"
    BY <1>0, <2>1 DEF ClaimHit, TypeOK, WorkerMem
  <2>6. Memory(u, j)'
    BY <2>5 DEF Memory
  <2>7. Holders(j)' # {}
    BY <1>7 DEF Holders
  <2>8. \A v \in Workers : Memory(v, j)'
    BY <1>4, <2>2, <2>6
  <2>. QED
    BY <1>2, <2>1, <2>2, <2>4, <2>7, <2>8 DEF Budget
<1>8. CASE Holds(u, j)
  <2>1. /\ m.job = j /\ m.pc \in HoldingStates
        /\ OwnRow(u, j) /\ Memory(u, j)
    BY <1>0, <1>8 DEF Holds, Budget, CopyInv, OwnInv
  <2>2. /\ row[j].attempt = m.token /\ m.token \in Nat /\ m.attempt \in Nat
        /\ m.pc # "requeued" => row[j].st = "running"
        /\ m.pc = "requeued" => row[j].st = "queued" /\ ~Locked(row[j])
        /\ Holders(j) = {u}
    <3>1. m \in WorkerMem
      BY <1>0
    <3>2. m.token \in Nat /\ m.attempt \in Nat
      BY <3>1 DEF WorkerMem
    <3>3. Holders(j) = {u} /\ row[j].attempt = m.token
      BY <1>8, <2>1 DEF OwnRow, Holders
    <3>4. IF m.pc = "requeued" THEN row[j].st = "queued" /\ ~Locked(row[j])
                              ELSE row[j].st = "running"
      BY <2>1 DEF OwnRow
    <3>. QED
      BY <3>2, <3>3, <3>4
  <2>3. ~Select(u) /\ ~ClaimHit(u) /\ ~ClaimMiss(u) /\ ~Restart(u)
        /\ ~MarkRefused(u)
    <3>1. MarkRefused(u) => failed[j] = "none" /\ failed[j] # "none"
      BY <1>8, <2>1 DEF MarkRefused, Memory
    <3>. QED
      BY <2>1, <3>1 DEF Select, ClaimHit, ClaimMiss, Restart, HoldingStates
  <2>4. CASE MarkWrite(u)
    <3>1. m.target \in {"succeeded", "queued", "dead_letter"} /\ m.pc = "marking"
          /\ m.seen.st = "running"
      BY <1>0, <2>1, <2>4 DEF MarkWrite, MemoryShape, WorkerMem, Targets, OwnRow
    <3>2. PICK d : row'[j] = WriteBack(row[j], m.seen, m.target, d)
      BY <1>0, <2>1, <2>4 DEF MarkWrite, TypeOK
    <3>3. row'[j].st = m.target /\ row'[j].attempt = row[j].attempt
      <4>1. WriteBack(row[j], m.seen, m.target, d).st
              = IF m.seen.st = m.target THEN row[j].st ELSE m.target
        BY <1>0, <3>1, WriteBackKeeps
      <4>2. WriteBack(row[j], m.seen, m.target, d).attempt = row[j].attempt
        BY <1>0, <3>1, WriteBackKeeps
      <4>. QED
        BY <3>1, <3>2, <4>1, <4>2
    <3>4. m.target = "queued" => row[j].attempt < Limit'
      BY <1>0, <1>8, <1>1, <2>1, <2>2, <3>1 DEF Memory
    <3>5. ~Holds(u, j)'
      <4>1. wk'[u].pc = "idle"
        BY <1>0, <2>4 DEF MarkWrite, TypeOK, Blank
      <4>. QED
        BY <4>1 DEF Holds, HoldingStates
    <3>6. \A v \in Workers : Memory(v, j)'
      <4>1. ASSUME NEW v \in Workers, v # u PROVE ~Holds(v, j)'
        BY <1>3, <2>2, <4>1 DEF Holders, Holds
      <4>. QED
        BY <3>5, <4>1 DEF Memory
    <3>7. failed[j] # "none" => failed'[j] # "none"
      BY <1>0, <1>8, CopiesStay
    <3>8. row'[j].attempt <= Limit'
      BY <1>0, <1>1, <3>3 DEF Budget
    <3>. QED
      BY <1>2, <3>1, <3>3, <3>4, <3>6, <3>7, <3>8 DEF Budget
  <2>9. CASE HandlerRequeues(u)
    <3>1. m.pc = "handling" /\ row[j].st = "running" /\ faults' = faults + 1
          /\ failed' = failed
      BY <2>2, <2>9 DEF HandlerRequeues
    <3>2. /\ \E d \in Delays \ {0} :
               row' = [row EXCEPT ![j] = [Unlock(@) EXCEPT !.st = "queued", !.due = d]]
          /\ wk' = [wk EXCEPT ![u].pc = "requeued"]
      BY <2>1, <2>9, <3>1 DEF HandlerRequeues
    <3>3. row'[j].attempt = row[j].attempt
      BY <1>0, <3>2, UnlockKeeps DEF TypeOK, Rows
    <3>4. /\ wk'[u].pc = "requeued" /\ wk'[u].job = j
          /\ wk'[u].token = m.token /\ wk'[u].attempt = m.attempt
      BY <1>0, <2>1, <3>2 DEF TypeOK, WorkerMem
    <3>5. Holders(j)' # {} /\ Memory(u, j)'
      BY <1>8, <2>1, <3>1, <3>4 DEF Holders, Holds, HoldingStates, Memory
    <3>6. \A v \in Workers : Memory(v, j)'
      BY <1>4, <3>1, <3>5
    <3>7. row'[j].attempt < Limit' /\ row'[j].attempt <= Limit'
      BY <1>0, <1>1, <3>1, <3>3 DEF Budget
    <3>. QED
      BY <1>2, <3>1, <3>6, <3>7 DEF Budget
  <2>10. CASE VerifyRescheduled(u)
    <3>1. m.pc = "requeued" /\ UNCHANGED <<row, failed>> /\ row[j].st = "queued"
      BY <2>2, <2>10 DEF VerifyRescheduled
    <3>2. wk'[u] = Blank("idle")
      BY <1>0, <2>1, <2>2, <2>10, <3>1 DEF VerifyRescheduled, TypeOK
    <3>3. \A v \in Workers : Memory(v, j)'
      BY <1>4, <3>1, <3>2 DEF Memory, Holds, HoldingStates, Blank
    <3>4. row'[j].attempt < Limit' /\ row'[j].attempt <= Limit'
      BY <1>0, <1>1, <3>1 DEF Budget
    <3>. QED
      BY <1>2, <3>1, <3>3, <3>4 DEF Budget
  <2>5. CASE LoadClaimed(u)
    <3>1. row' = row /\ failed' = failed
      BY <2>5 DEF LoadClaimed
    <3>2. /\ wk'[u].pc = "loaded" /\ wk'[u].job = j /\ wk'[u].token = m.token
          /\ wk'[u].attempt = row[j].attempt
      BY <1>0, <2>1, <2>5 DEF LoadClaimed, TypeOK, WorkerMem
    <3>3. Holds(u, j)' /\ Memory(u, j)'
      BY <2>2, <3>2 DEF Holds, HoldingStates, Memory
    <3>. QED
      BY <1>5, <3>1, <3>3
  <2>6. CASE StartHandler(u)
    <3>1. row' = row /\ failed' = failed /\ m.pc = "loaded"
      BY <2>6 DEF StartHandler
    <3>2. /\ wk'[u].pc = "handling" /\ wk'[u].job = j /\ wk'[u].token = m.token
          /\ wk'[u].attempt = m.attempt
      BY <1>0, <2>1, <2>6 DEF StartHandler, TypeOK, WorkerMem
    <3>3. Holds(u, j)' /\ Memory(u, j)'
      BY <1>8, <2>1, <3>1, <3>2 DEF Holds, HoldingStates, Memory
    <3>. QED
      BY <1>5, <3>1, <3>3
  <2>7. CASE SkipIdempotent(u) \/ HandlerReturns(u) \/ HandlerRaises(u)
    <3>1. row' = row /\ failed' = failed /\ m.pc \in {"loaded", "handling"}
      BY <2>7 DEF SkipIdempotent, HandlerReturns, HandlerRaises
    <3>2. PICK t \in {"succeeded", "dead_letter", RetryOrDeadLetter(m)} :
             wk'[u] = [m EXCEPT !.pc = "finishing", !.target = t]
      BY <1>0, <2>7 DEF SkipIdempotent, HandlerReturns, HandlerRaises, TypeOK
    <3>3. /\ wk'[u].pc = "finishing" /\ wk'[u].job = j /\ wk'[u].token = m.token
          /\ wk'[u].attempt = m.attempt /\ wk'[u].target = t
      BY <1>0, <2>1, <3>2 DEF WorkerMem
    <3>4. m.attempt = m.token
      BY <1>8, <2>1, <3>1 DEF Memory
    <3>5. t = "queued" => m.token < MaxAttempts
      BY <3>2, <3>4 DEF RetryOrDeadLetter
    <3>6. Holds(u, j)' /\ Memory(u, j)'
      BY <3>3, <3>4, <3>5 DEF Holds, HoldingStates, Memory
    <3>. QED
      BY <1>5, <3>1, <3>6
  <2>8. CASE MarkLoad(u)
    <3>1. row' = row /\ failed' = failed /\ m.pc = "finishing"
      BY <2>8 DEF MarkLoad
    <3>2. /\ wk'[u].pc = "marking" /\ wk'[u].job = j /\ wk'[u].token = m.token
          /\ wk'[u].attempt = m.attempt /\ wk'[u].target = m.target
      BY <1>0, <2>1, <2>8 DEF MarkLoad, TypeOK, WorkerMem
    <3>3. wk'[u].seen.copied = (failed[j] # "none")
      BY <1>0, <2>1, <2>8 DEF MarkLoad, See, TypeOK, WorkerMem
    <3>4. Holds(u, j)' /\ Memory(u, j)'
      BY <1>8, <2>1, <3>1, <3>2, <3>3 DEF Holds, HoldingStates, Memory
    <3>. QED
      BY <1>5, <3>1, <3>4
  <2>. QED
    BY <2>3, <2>4, <2>9, <2>10, <2>5, <2>6, <2>7, <2>8 DEF WorkerStep
<1>. QED
  BY <1>6, <1>7, <1>8

\* So does every other step.
LEMMA NextBudget == BudgetInv /\ [Next]_vars => BudgetInv'
<1>. SUFFICES ASSUME BudgetInv, [Next]_vars PROVE BudgetInv'
  OBVIOUS
<1>0. CopyInv /\ CopyInv'
  BY NextCopy DEF BudgetInv
<1>1. CASE UNCHANGED vars
  BY <1>0, <1>1 DEF BudgetInv, Budget, Limit, Memory, Holds, Holders, vars, Jobs
<1>2. CASE Next
  <2>. SUFFICES ASSUME NEW j \in Jobs, j \notin overtaken'
                PROVE  Budget(j)'
    BY <1>0 DEF BudgetInv, Jobs
  <2>0. /\ TypeInv /\ TypeOK /\ MemoryShape /\ row[j] \in Rows
        /\ row[j].attempt \in Nat
        /\ \A v \in Workers : wk[v] \in WorkerMem
    BY <1>0 DEF CopyInv, OwnInv, ClaimInv, TypeInv, TypeOK, Rows
  <2>1. /\ Limit \in Nat /\ Limit' \in Nat /\ Limit <= Limit' /\ MaxAttempts <= Limit
        /\ faults' = faults + 1 => Limit < Limit'
    BY <1>2, <2>0, LimitGrows
  <2>2. Budget(j) /\ j \notin overtaken
    BY <1>2, OvertakenGrows DEF BudgetInv
  <2>13. /\ row[j].attempt <= Limit => row[j].attempt <= Limit'
         /\ row[j].attempt < Limit => row[j].attempt < Limit'
         /\ row[j].attempt <= Limit /\ faults' = faults + 1 => row[j].attempt < Limit'
    BY <2>0, <2>1
  <2>3. ASSUME \A v \in Workers :
                 /\ wk'[v].pc = wk[v].pc /\ wk'[v].job = wk[v].job
                 /\ wk'[v].token = wk[v].token /\ wk'[v].target = wk[v].target
                 /\ wk'[v].attempt = wk[v].attempt /\ wk'[v].seen = wk[v].seen,
               failed'[j] = failed[j]
        PROVE  (Holders(j)' = Holders(j)) /\ \A v \in Workers : Memory(v, j)'
    BY <2>2, <2>3 DEF Budget, Memory, Holders, Holds
  <2>4. ASSUME row'[j].st = row[j].st, row'[j].attempt = row[j].attempt,
               failed'[j] = failed[j], Holders(j)' = Holders(j),
               \A v \in Workers : Memory(v, j)',
               \A r \in Requests : req'[r].op = "retry" /\ req'[r].job = j
                                     => failed[j] # "none"
        PROVE  Budget(j)'
    BY <2>2, <2>4, <2>13 DEF Budget
  <2>5. CASE Tick
    <3>1. \A m \in WorkerMem : /\ TickWorker(m).pc = m.pc
                               /\ TickWorker(m).job = m.job
                               /\ TickWorker(m).token = m.token
                               /\ TickWorker(m).target = m.target
                               /\ TickWorker(m).attempt = m.attempt
                               /\ TickWorker(m).seen = m.seen
      BY DEF TickWorker, WorkerMem
    <3>2. \A v \in Workers : wk'[v] = TickWorker(wk[v])
      BY <2>5 DEF Tick
    <3>3. row'[j].st = row[j].st /\ row'[j].attempt = row[j].attempt
      BY <2>0, <2>5 DEF Tick, TickRow, Rows
    <3>4. failed' = failed /\ req' = req
      BY <2>5 DEF Tick
    <3>5. (Holders(j)' = Holders(j)) /\ \A v \in Workers : Memory(v, j)'
      BY <2>0, <2>3, <3>1, <3>2, <3>4
    <3>. QED
      BY <2>2, <2>4, <3>3, <3>4, <3>5 DEF Budget
  <2>6. ASSUME NEW w \in Workers, WorkerStep(w) PROVE Budget(j)'
    BY <1>0, <1>2, <2>2, <2>6, WorkerBudget
  <2>7. ASSUME NEW w \in Workers, Crash(w) PROVE Budget(j)'
    <3>1. faults' = faults + 1 /\ UNCHANGED <<row, failed, req>>
          /\ wk' = [wk EXCEPT ![w] = Blank("down")]
      BY <2>7 DEF Crash
    <3>2. \A v \in Workers : Memory(v, j)'
      <4>1. ~Holds(w, j)'
        BY <2>0, <3>1 DEF TypeOK, Holds, HoldingStates, Blank
      <4>2. \A v \in Workers \ {w} : wk'[v] = wk[v]
        BY <2>0, <3>1 DEF TypeOK
      <4>. QED
        BY <2>2, <3>1, <4>1, <4>2 DEF Budget, Memory, Holds
    <3>. QED
      BY <2>2, <2>13, <3>1, <3>2 DEF Budget
  <2>8. ASSUME wk' = wk, failed'[j] = failed[j]
        PROVE  (Holders(j)' = Holders(j)) /\ \A v \in Workers : Memory(v, j)'
    BY <2>3, <2>8
  \* A job that is created has no attempt.
  <2>9. ASSUME NEW v \in Nat, NEW d \in 0..Horizon, row[j].st = "absent",
               row'[j] = NewRow(d, v), failed'[j] = failed[j], wk' = wk,
               \A r \in Requests : req'[r] = req[r] \/ req'[r] = NoRequest
        PROVE  Budget(j)'
    <3>1. row'[j].st = "queued" /\ row'[j].attempt = 0
      BY <2>9 DEF NewRow
    <3>2. \A r \in Requests : req'[r].op = "retry" /\ req'[r].job = j
                                => failed[j] # "none"
      BY <2>2, <2>9 DEF Budget, NoRequest
    <3>3. 0 < Limit' /\ 0 <= Limit'
      BY <2>1, ConstantAssumption
    <3>. QED
      BY <2>8, <2>9, <3>1, <3>2, <3>3 DEF Budget
  <2>10. ASSUME NEW k \in Keys, Enqueue(k) PROVE Budget(j)'
    <3>1. PICK d \in Delays : row' = [row EXCEPT ![<<k, 0>>] = NewRow(d, 0)]
      BY <2>10 DEF Enqueue
    <3>2. wk' = wk /\ req' = req /\ failed' = failed /\ d \in 0..Horizon
      BY <2>10, ConstantAssumption DEF Enqueue
    <3>3. CASE j = <<k, 0>>
      <4>1. row[j].st = "absent" /\ row'[j] = NewRow(d, 0)
        BY <2>0, <2>10, <3>1, <3>3 DEF Enqueue, TypeOK
      <4>. QED
        BY <2>9, <3>2, <4>1
    <3>4. CASE j # <<k, 0>>
      <4>1. row'[j] = row[j]
        BY <2>0, <3>1, <3>4 DEF TypeOK
      <4>. QED
        BY <2>2, <2>4, <2>8, <3>2, <4>1 DEF Budget
    <3>. QED
      BY <3>3, <3>4
  <2>11. ASSUME NEW r \in Requests, RequestStep(r) PROVE Budget(j)'
    <3>0. wk' = wk
      BY <2>11 DEF RequestStep, RequestWrite, UpdateLoad, UpdateWrite,
                   RetryLoad, RetryWrite, CancelLoad, CancelWrite
    <3>1. failed'[j] = failed[j] =>
            ((Holders(j)' = Holders(j)) /\ \A v \in Workers : Memory(v, j)')
      BY <2>8, <3>0
    <3>2. ASSUME req' = [req EXCEPT ![r] = NoRequest]
          PROVE  /\ \A s \in Requests : req'[s] = req[s] \/ req'[s] = NoRequest
                 /\ \A s \in Requests : req'[s].op = "retry" /\ req'[s].job = j
                                          => failed[j] # "none"
      <4>1. \A s \in Requests : req'[s] = req[s] \/ req'[s] = NoRequest
        BY <2>0, <3>2 DEF TypeOK
      <4>. QED
        BY <2>2, <4>1 DEF Budget, NoRequest
    <3>3. ASSUME NEW i \in Jobs, UpdateLoad(r, i) \/ RetryLoad(r, i)
                                  \/ CancelLoad(r, i)
          PROVE  Budget(j)'
      <4>1. row' = row /\ failed' = failed
        BY <3>3 DEF UpdateLoad, RetryLoad, CancelLoad
      <4>2. ASSUME NEW s \in Requests, req'[s].op = "retry", req'[s].job = j
            PROVE  failed[j] # "none"
        <5>1. CASE s # r
          <6>1. req'[s] = req[s]
            BY <2>0, <3>3, <5>1 DEF UpdateLoad, RetryLoad, CancelLoad, TypeOK
          <6>. QED
            BY <2>2, <4>2, <6>1 DEF Budget
        <5>2. CASE s = r
          <6>1. row[j].st = "dead_letter"
            BY <2>0, <3>3, <4>2, <5>2 DEF UpdateLoad, RetryLoad, CancelLoad, TypeOK
          <6>. QED
            BY <1>0, <2>2, <6>1 DEF CopyInv, DeadLetterCopied
        <5>. QED
          BY <5>1, <5>2
      <4>. QED
        BY <2>4, <3>1, <4>1, <4>2
    <3>5. CASE UpdateWrite(r)
      <4>1. PICK d \in Delays : row' = [row EXCEPT ![req[r].job] =
              [row[req[r].job] EXCEPT !.ver = req[r].ver, !.due = d]]
        BY <3>5 DEF UpdateWrite
      <4>2. \/ row'[j] = row[j]
            \/ row'[j] = [row[j] EXCEPT !.ver = req[r].ver, !.due = d]
        BY <2>0, <4>1 DEF TypeOK
      <4>3. row'[j].st = row[j].st /\ row'[j].attempt = row[j].attempt
        BY <2>0, <4>2 DEF Rows
      <4>. QED
        BY <2>4, <3>1, <3>2, <3>5, <4>3 DEF UpdateWrite
    <3>6. CASE RetryWrite(r)
      <4>. DEFINE i == req[r].job
      <4>0. /\ i \in Jobs /\ i[2] < MaxRetry /\ req[r].ver \in Nat
            /\ req' = [req EXCEPT ![r] = NoRequest]
        BY <2>0, <3>6 DEF RetryWrite, MemoryShape, TypeOK, RequestMem
      <4>1. CASE ~RetryAdmitted(r)
        <5>1. row' = row /\ failed' = failed
          BY <3>6, <4>1 DEF RetryWrite
        <5>. QED
          BY <2>4, <3>1, <3>2, <4>0, <5>1
      <4>2. CASE RetryAdmitted(r)
        <5>1. /\ failed' = [failed EXCEPT ![i] = "retried"]
              /\ row' = [row EXCEPT ![Retry(i)] = NewRow(0, req[r].ver)]
              /\ row[Retry(i)].st = "absent"
          BY <3>6, <4>2 DEF RetryWrite, RetryAdmitted
        <5>2. i # Retry(i)
          BY <4>0 DEF Jobs, Retry
        <5>3. CASE j = Retry(i)
          <6>1. i # j /\ row[j].st = "absent"
            BY <5>1, <5>2, <5>3
          <6>2. failed'[j] = failed[j] /\ row'[j] = NewRow(0, req[r].ver)
            BY <2>0, <5>1, <5>3, <6>1 DEF TypeOK
          <6>. QED
            BY <2>9, <3>0, <3>2, <4>0, <6>1, <6>2, ConstantAssumption
        <5>4. CASE j # Retry(i)
          <6>1. row'[j] = row[j]
            BY <2>0, <5>1, <5>4 DEF TypeOK
          <6>2. CASE i = j
            <7>1. failed[j] # "none" /\ failed'[j] = "retried"
              BY <2>0, <2>2, <3>6, <5>1, <6>2 DEF Budget, RetryWrite, TypeOK
            <7>2. Holders(j)' = Holders(j)
              BY <3>0 DEF Holders, Holds
            <7>3. \A v \in Workers : Memory(v, j)'
              BY <2>2, <3>0, <7>1 DEF Budget, Memory, Holds
            <7>. QED
              BY <2>2, <2>13, <6>1, <7>1, <7>2, <7>3 DEF Budget
          <6>3. CASE i # j
            <7>1. failed'[j] = failed[j]
              BY <2>0, <5>1, <6>3 DEF TypeOK
            <7>. QED
              BY <2>4, <3>1, <3>2, <4>0, <6>1, <7>1
          <6>. QED
            BY <6>2, <6>3
        <5>. QED
          BY <5>3, <5>4
      <4>. QED
        BY <4>1, <4>2
    <3>7. CASE CancelWrite(r)
      <4>1. row'[j] = row[j] /\ failed' = failed
        BY <2>0, <3>7 DEF CancelWrite, TypeOK
      <4>. QED
        BY <2>4, <3>1, <3>2, <3>7, <4>1 DEF CancelWrite
    <3>. QED
      BY <2>11, <3>3, <3>5, <3>6, <3>7 DEF RequestStep, RequestWrite
  <2>12. ASSUME NEW i \in Jobs, NEW force \in BOOLEAN, AdminRequeue(i, force)
         PROVE  Budget(j)'
    <3>1. UNCHANGED <<failed, wk, req>> /\ faults' = faults + 1
          /\ row' = [row EXCEPT ![i] = [Unlock(@) EXCEPT !.st = "queued", !.due = 0]]
      BY <2>12 DEF AdminRequeue
    <3>2. row'[j].attempt = row[j].attempt
      <4>1. CASE i = j
        BY <2>0, <3>1, <4>1, UnlockKeeps DEF TypeOK, Rows
      <4>2. CASE i # j
        BY <2>0, <3>1, <4>2 DEF TypeOK
      <4>. QED
        BY <4>1, <4>2
    <3>3. (Holders(j)' = Holders(j)) /\ \A v \in Workers : Memory(v, j)'
      BY <2>8, <3>1
    <3>. QED
      BY <2>2, <2>13, <3>1, <3>2, <3>3 DEF Budget
  <2>. QED
    BY <1>2, <2>5, <2>6, <2>7, <2>10, <2>11, <2>12 DEF Next
<1>. QED
  BY <1>1, <1>2

\* max_attempts bounds how often a job is claimed from which no worker overran
\* its lease, although no claim looks: what goes beyond it is owed to crashes,
\* requeues and cancellations, one claim each.
THEOREM AttemptsAreBounded == Spec => []AttemptsBounded
<1>1. Init => BudgetInv
  <2>. SUFFICES ASSUME Init PROVE BudgetInv
    OBVIOUS
  <2>1. CopyInv
    BY InitCopy
  <2>2. ASSUME NEW j \in Jobs PROVE Budget(j)
    <3>1. row[j].st = "absent" /\ row[j].attempt = 0 /\ faults = 0
      BY DEF Init, NoRow
    <3>2. \A w \in Workers : ~Holds(w, j)
      BY DEF Init, Holds, HoldingStates, Blank
    <3>3. \A r \in Requests : req[r].op = "none"
      BY DEF Init, NoRequest
    <3>. QED
      BY <3>1, <3>2, <3>3, ConstantAssumption DEF Budget, Limit, Memory
  <2>. QED
    BY <2>1, <2>2 DEF BudgetInv
<1>2. BudgetInv => AttemptsBounded
  BY DEF BudgetInv, AttemptsBounded, Budget, Limit
<1>. QED
  BY <1>1, <1>2, NextBudget, PTL DEF Spec

-----------------------------------------------------------------------------
(* The lease *)

\* While nobody took a job from its worker, the lock in the row is no older
\* than the worker's claim.
LeaseInv ==
  /\ OwnInv
  /\ \A w \in Workers : \A j \in Jobs \ overtaken :
       Holds(w, j) /\ wk[w].pc # "requeued" => row[j].lockAge <= wk[w].age

\* Time makes nothing older overtake what is older still.
LEMMA OlderMonotone ==
  ASSUME NEW a \in 0..Horizon, NEW b \in 0..Horizon, a <= b
  PROVE  Older(a) <= Older(b)
BY ConstantAssumption DEF Older

\* Nothing but time makes a worker's claim older.
LEMMA AgeKept ==
  ASSUME TypeInv, Next, ~Tick, NEW v \in Workers, NEW j \in Jobs, Holds(v, j)'
  PROVE  wk'[v].age = wk[v].age
<1>. USE DEF TypeInv
<1>0. \A w \in Workers : wk[w] \in WorkerMem
  BY DEF TypeOK
<1>1. ASSUME NEW w \in Workers, WorkerStep(w) \/ Crash(w), v # w
      PROVE  wk'[v] = wk[v]
  <2>1. wk' = [wk EXCEPT ![w] = wk'[w]]
    BY <1>1 DEF WorkerStep, Select, ClaimHit, ClaimMiss, LoadClaimed,
       SkipIdempotent, StartHandler, HandlerReturns, HandlerRaises,
       HandlerRequeues, VerifyRescheduled, MarkLoad, MarkWrite, MarkRefused,
       Restart, Crash, TypeOK
  <2>. QED
    BY <1>1, <2>1 DEF TypeOK
<1>2. ASSUME WorkerStep(v) \/ Crash(v)
      PROVE  wk'[v].age = wk[v].age
  <2>. DEFINE m == wk[v]
  <2>0. m \in WorkerMem /\ wk'[v].pc \in HoldingStates
    BY <1>0 DEF Holds
  <2>1. ~Select(v)
    <3>1. Select(v) => wk'[v].pc = "selected"
      BY DEF Select, TypeOK, Blank
    <3>. QED
      BY <2>0, <3>1 DEF HoldingStates
  <2>2. wk'[v] # Blank("idle") /\ wk'[v] # Blank("down")
    BY <2>0 DEF Blank, HoldingStates
  <2>3. ~(ClaimMiss(v) \/ MarkWrite(v) \/ MarkRefused(v) \/ Restart(v) \/ Crash(v))
    BY <2>2 DEF ClaimMiss, MarkWrite, MarkRefused, Restart, Crash, TypeOK
  <2>4. CASE ClaimHit(v) \/ LoadClaimed(v) \/ StartHandler(v) \/ MarkLoad(v)
    <3>1. CASE ClaimHit(v)
      <4>1. wk'[v] = [m EXCEPT !.pc = "claimed", !.token = m.attempt + 1]
        BY <3>1 DEF ClaimHit, TypeOK
      <4>. QED
        BY <2>0, <4>1 DEF WorkerMem
    <3>2. CASE LoadClaimed(v) \/ StartHandler(v)
      BY <2>0, <3>2 DEF LoadClaimed, StartHandler, TypeOK, WorkerMem
    <3>3. CASE MarkLoad(v)
      <4>1. wk'[v] = [m EXCEPT !.pc = "marking", !.seen = See(m.job)]
        BY <3>3 DEF MarkLoad, TypeOK
      <4>. QED
        BY <2>0, <4>1 DEF WorkerMem
    <3>. QED
      BY <2>4, <3>1, <3>2, <3>3
  <2>5. ASSUME NEW t, wk'[v] = [m EXCEPT !.pc = "finishing", !.target = t]
        PROVE  wk'[v].age = m.age
    BY <2>0, <2>5 DEF WorkerMem
  <2>6. CASE SkipIdempotent(v) \/ HandlerReturns(v) \/ HandlerRaises(v)
    BY <2>5, <2>6 DEF SkipIdempotent, HandlerReturns, HandlerRaises, TypeOK
  <2>7. CASE HandlerRequeues(v)
    <3>1. \/ wk'[v] = [m EXCEPT !.pc = "requeued"]
          \/ wk'[v] = [m EXCEPT !.pc = "finishing",
                                !.target = RetryOrDeadLetter(m)]
      BY <2>7 DEF HandlerRequeues, TypeOK
    <3>. QED
      BY <2>0, <2>5, <3>1 DEF WorkerMem
  <2>8. CASE VerifyRescheduled(v)
    <3>1. \/ wk'[v] = Blank("idle")
          \/ wk'[v] = [m EXCEPT !.pc = "finishing",
                                !.target = RetryOrDeadLetter(m)]
      BY <2>8 DEF VerifyRescheduled, TypeOK
    <3>. QED
      BY <2>2, <2>5, <3>1
  <2>. QED
    BY <1>2, <2>1, <2>3, <2>4, <2>6, <2>7, <2>8 DEF WorkerStep
<1>3. CASE wk' = wk
  BY <1>3
<1>. QED
  BY <1>1, <1>2, <1>3
     DEF Next, Enqueue, RequestStep, RequestWrite, UpdateLoad, UpdateWrite,
         RetryLoad, RetryWrite, CancelLoad, CancelWrite, AdminRequeue

\* The lock of a job that stays with its worker changes only when that worker
\* puts the job back.
LEMMA LockKept ==
  ASSUME OwnInv, Next, ~Tick, NEW w \in Workers, NEW j \in Jobs,
         j \notin overtaken', Holds(w, j), Holds(w, j)'
  PROVE  row'[j].lockAge = row[j].lockAge \/ wk'[w].pc = "requeued"
<1>0. /\ TypeOK /\ MemoryShape /\ j \notin overtaken /\ OwnRow(w, j)
      /\ row[j] \in Rows /\ wk[w] \in WorkerMem /\ row[j].st # "absent"
  BY OvertakenGrows DEF OwnInv, ClaimInv, TypeInv, TypeOK, TokenBound
<1>1. Holders(j) # {}
  BY DEF Holders
<1>2. ASSUME NEW u \in Workers, ClaimHit(u) PROVE row'[j] = row[j]
  BY <1>0, <1>1, <1>2 DEF ClaimHit, TypeOK
<1>3. ASSUME NEW u \in Workers, MarkWrite(u) PROVE row'[j] = row[j]
  <2>1. CASE wk[u].job = j
    <3>1. u = w
      BY <1>0, <1>3, <2>1 DEF MarkWrite, OwnRow, Holds, HoldingStates
    <3>2. wk'[w] = Blank("idle")
      BY <1>0, <1>3, <3>1 DEF MarkWrite, TypeOK
    <3>. QED
      BY <3>2 DEF Holds, HoldingStates, Blank
  <2>2. CASE wk[u].job # j
    BY <1>0, <1>3, <2>2 DEF MarkWrite, TypeOK
  <2>. QED
    BY <2>1, <2>2
<1>4. ASSUME NEW u \in Workers, HandlerRequeues(u)
      PROVE  row'[j] = row[j] \/ wk'[w].pc = "requeued"
  <2>1. CASE wk[u].job = j
    <3>1. u = w /\ row[j].st = "running"
      BY <1>0, <1>4, <2>1 DEF HandlerRequeues, OwnRow, Holds, HoldingStates
    <3>2. HandlerRequeues(w) /\ wk[w].job = j
      BY <1>4, <2>1, <3>1
    <3>3. wk'[w] = [wk[w] EXCEPT !.pc = "requeued"]
      <4>1. \/ wk' = [wk EXCEPT ![w].pc = "requeued"]
            \/ row[wk[w].job].st \in Terminal
        BY <3>2, Zenon DEF HandlerRequeues
      <4>2. wk' = [wk EXCEPT ![w].pc = "requeued"]
        BY <3>1, <3>2, <4>1
      <4>. QED
        BY <1>0, <4>2 DEF TypeOK
    <3>. QED
      BY <1>0, <3>3 DEF WorkerMem
  <2>2. CASE wk[u].job # j
    BY <1>0, <1>4, <2>2 DEF HandlerRequeues, TypeOK
  <2>. QED
    BY <2>1, <2>2
<1>5. ASSUME NEW k \in Keys, Enqueue(k) PROVE row'[j] = row[j]
  BY <1>0, <1>5 DEF Enqueue, TypeOK
<1>6. ASSUME NEW r \in Requests, UpdateWrite(r)
      PROVE  row'[j].lockAge = row[j].lockAge
  <2>1. PICK d \in Delays : row' = [row EXCEPT ![req[r].job] =
                              [@ EXCEPT !.ver = req[r].ver, !.due = d]]
    BY <1>6 DEF UpdateWrite
  <2>2. \/ row'[j] = row[j]
        \/ row'[j] = [row[j] EXCEPT !.ver = req[r].ver, !.due = d]
    BY <1>0, <2>1 DEF TypeOK
  <2>. QED
    BY <1>0, <2>2 DEF Rows
<1>7. ASSUME NEW r \in Requests, RetryWrite(r) PROVE row'[j] = row[j]
  BY <1>0, <1>7 DEF RetryWrite, RetryAdmitted, TypeOK
<1>8. ASSUME NEW r \in Requests, CancelWrite(r) PROVE row'[j] = row[j]
  BY <1>0, <1>8 DEF CancelWrite, TypeOK
<1>9. ASSUME NEW i \in Jobs, NEW force \in BOOLEAN, AdminRequeue(i, force)
      PROVE  row'[j] = row[j]
  BY <1>0, <1>1, <1>9 DEF AdminRequeue, TypeOK
<1>10. CASE row' = row
  BY <1>10
<1>. QED
  BY <1>2, <1>3, <1>4, <1>5, <1>6, <1>7, <1>8, <1>9, <1>10
     DEF Next, WorkerStep, RequestStep, RequestWrite, Select, ClaimMiss,
         LoadClaimed, SkipIdempotent, StartHandler, HandlerReturns,
         HandlerRaises, VerifyRescheduled, MarkLoad, MarkRefused, Restart,
         Crash, UpdateLoad, RetryLoad, CancelLoad

\* A worker that put its job back goes on only when the row shows it.
LEMMA RequeuedStays ==
  ASSUME OwnInv, Next, NEW w \in Workers, NEW j \in Jobs, j \notin overtaken',
         Holds(w, j), wk[w].pc = "requeued", Holds(w, j)'
  PROVE  wk'[w].pc = "requeued"
<1>0. TypeOK /\ j \notin overtaken /\ OwnRow(w, j) /\ wk[w] \in WorkerMem
      /\ wk[w].job = j
  BY OvertakenGrows DEF OwnInv, ClaimInv, TypeInv, TypeOK, Holds
<1>1. ASSUME Tick PROVE wk'[w].pc = wk[w].pc
  <2>1. wk'[w] = TickWorker(wk[w])
    BY <1>1 DEF Tick
  <2>. QED
    BY <1>0, <2>1 DEF TickWorker, WorkerMem
<1>2. ASSUME NEW u \in Workers, u # w, WorkerStep(u) \/ Crash(u)
      PROVE  wk'[w] = wk[w]
  <2>1. wk' = [wk EXCEPT ![u] = wk'[u]]
    BY <1>0, <1>2 DEF WorkerStep, Select, ClaimHit, ClaimMiss, LoadClaimed,
       SkipIdempotent, StartHandler, HandlerReturns, HandlerRaises,
       HandlerRequeues, VerifyRescheduled, MarkLoad, MarkWrite, MarkRefused,
       Restart, Crash, TypeOK
  <2>. QED
    BY <1>0, <1>2, <2>1 DEF TypeOK
<1>3. ASSUME WorkerStep(w) \/ Crash(w) PROVE FALSE
  <2>1. VerifyRescheduled(w) \/ Crash(w)
    BY <1>3 DEF WorkerStep, Select, ClaimHit, ClaimMiss, LoadClaimed,
       SkipIdempotent, StartHandler, HandlerReturns, HandlerRaises,
       HandlerRequeues, MarkLoad, MarkWrite, MarkRefused, Restart
  <2>2. row[j].st = "queued" /\ ~Locked(row[j])
    BY <1>0 DEF OwnRow
  <2>3. wk'[w] = Blank("idle") \/ wk'[w] = Blank("down")
    BY <1>0, <2>1, <2>2 DEF VerifyRescheduled, Crash, TypeOK
  <2>. QED
    BY <2>3 DEF Holds, HoldingStates, Blank
<1>4. CASE wk' = wk
  BY <1>4
<1>. QED
  BY <1>1, <1>2, <1>3, <1>4
     DEF Next, Enqueue, RequestStep, RequestWrite, UpdateLoad, UpdateWrite,
         RetryLoad, RetryWrite, CancelLoad, CancelWrite, AdminRequeue

LEMMA NextLease == LeaseInv /\ [Next]_vars => LeaseInv'
<1>. SUFFICES ASSUME LeaseInv, [Next]_vars PROVE LeaseInv'
  OBVIOUS
<1>0. OwnInv /\ OwnInv' /\ TypeInv /\ TypeOK /\ TypeOK'
  BY NextOwn DEF LeaseInv, OwnInv, ClaimInv, TypeInv
<1>1. CASE UNCHANGED vars
  BY <1>0, <1>1 DEF LeaseInv, Holds, vars, Jobs
<1>2. CASE Next
  <2>. SUFFICES ASSUME NEW w \in Workers, NEW j \in Jobs, j \notin overtaken',
                       Holds(w, j)', wk'[w].pc # "requeued"
                PROVE  row'[j].lockAge <= wk'[w].age
    BY <1>0 DEF LeaseInv, Jobs
  <2>1. wk[w] \in WorkerMem /\ row[j] \in Rows /\ wk'[w].age \in 0..Horizon
        /\ j \notin overtaken
    BY <1>0, <1>2, OvertakenGrows DEF TypeOK, WorkerMem
  <2>2. CASE ~Holds(w, j)
    <3>1. ClaimHit(w) /\ wk[w].job = j
      BY <1>0, <1>2, <2>2, HoldersShrink
    <3>2. row'[j].lockAge = 0
      BY <1>0, <2>1, <3>1 DEF ClaimHit, TypeOK, Rows
    <3>. QED
      BY <2>1, <3>2
  <2>3. CASE Holds(w, j)
    <3>1. OwnRow(w, j) /\ wk[w].pc # "requeued"
      BY <1>0, <1>2, <2>1, <2>3, RequeuedStays DEF OwnInv
    <3>2. row[j].lockAge <= wk[w].age
      BY <2>1, <2>3, <3>1 DEF LeaseInv
    <3>3. CASE Tick
      <4>1. row[j].by = w /\ Locked(row[j])
        BY <3>1, ConstantAssumption DEF OwnRow, Locked
      <4>2. row'[j] = TickRow(row[j]) /\ wk'[w] = TickWorker(wk[w])
        BY <3>3 DEF Tick
      <4>3. row'[j].lockAge = Older(row[j].lockAge)
        BY <2>1, <4>1, <4>2 DEF TickRow, Rows
      <4>4. wk'[w].age = Older(wk[w].age)
        BY <2>1, <2>3, <4>2 DEF TickWorker, WorkerMem, Holds
      <4>5. row[j].lockAge \in 0..Horizon /\ wk[w].age \in 0..Horizon
        BY <2>1 DEF Rows, WorkerMem
      <4>. QED
        BY <3>2, <4>3, <4>4, <4>5, OlderMonotone
    <3>4. CASE ~Tick
      <4>1. wk'[w].age = wk[w].age
        BY <1>0, <1>2, <3>4, AgeKept
      <4>2. row'[j].lockAge = row[j].lockAge
        BY <1>0, <1>2, <2>3, <3>4, LockKept
      <4>. QED
        BY <3>2, <4>1, <4>2
    <3>. QED
      BY <3>3, <3>4
  <2>. QED
    BY <2>2, <2>3
<1>. QED
  BY <1>1, <1>2

\* A job is taken from its worker only after that worker overran its lease or
\* put the job back, by an operator or by the termination of the trial.
THEOREM LeasesProtect == Spec => LeaseProtects
<1>. DEFINE Taken == \A j \in overtaken' \ overtaken :
                       \/ \E h \in Holders(j) : wk[h].age >= Lease
                                                \/ wk[h].pc = "requeued"
                       \/ \E r \in Requests : CancelWrite(r)
                       \/ \E force \in BOOLEAN : AdminRequeue(j, force)
<1>1. LeaseInv /\ [Next]_vars => [Taken]_vars
  <2>. SUFFICES ASSUME LeaseInv, Next, NEW j \in overtaken' \ overtaken,
                       \A r \in Requests : ~CancelWrite(r)
                PROVE  \/ \E h \in Holders(j) : wk[h].age >= Lease
                                                \/ wk[h].pc = "requeued"
                       \/ \E force \in BOOLEAN : AdminRequeue(j, force)
    OBVIOUS
  <2>0. OwnInv /\ TypeOK /\ TypeOK' /\ MemoryShape /\ j \in Jobs
    BY NextOwn DEF LeaseInv, OwnInv, ClaimInv, TypeInv, TypeOK
  <2>1. ASSUME NEW w \in Workers, ClaimHit(w)
        PROVE  \E h \in Holders(j) : wk[h].age >= Lease \/ wk[h].pc = "requeued"
    <3>1. j = wk[w].job /\ Holders(j) # {} /\ Runnable(row[j])
      BY <2>1 DEF ClaimHit, ClaimMatches
    <3>2. PICK h \in Workers : Holds(h, j)
      BY <3>1 DEF Holders
    <3>3. CASE wk[h].pc = "requeued"
      BY <3>2, <3>3 DEF Holders
    <3>4. CASE wk[h].pc # "requeued"
      <4>1. row[j].st = "running" /\ row[j].by = h /\ row[j].lockAge <= wk[h].age
        BY <2>0, <3>2, <3>4 DEF LeaseInv, OwnInv, OwnRow
      <4>2. row[j].lockAge >= Lease
        BY <3>1, <4>1, ConstantAssumption DEF Runnable, Locked
      <4>3. row[j].lockAge \in Nat /\ wk[h].age \in Nat /\ Lease \in Nat
        <5>1. row[j] \in Rows /\ wk[h] \in WorkerMem
          BY <2>0 DEF TypeOK
        <5>. QED
          BY <5>1, ConstantAssumption DEF Rows, WorkerMem
      <4>4. wk[h].age >= Lease
        BY <4>1, <4>2, <4>3
      <4>. QED
        BY <3>2, <4>4 DEF Holders
    <3>. QED
      BY <3>3, <3>4
  <2>2. ASSUME NEW w \in Workers, HandlerRequeues(w)
        PROVE  FALSE
    <3>1. j = wk[w].job /\ Holders(j) # {w}
      BY <2>2 DEF HandlerRequeues
    <3>2. Holds(w, j)
      BY <2>2, <3>1 DEF HandlerRequeues, Holds, HoldingStates
    <3>3. OwnRow(w, j)
      BY <2>0, <3>2 DEF OwnInv
    <3>. QED
      BY <3>1, <3>2, <3>3 DEF OwnRow, Holders
  <2>3. ASSUME NEW i \in Jobs, NEW force \in BOOLEAN, AdminRequeue(i, force)
        PROVE  AdminRequeue(j, force)
    <3>1. i = j
      BY <2>3 DEF AdminRequeue
    <3>. QED
      BY <2>3, <3>1
  <2>. QED
    BY <2>1, <2>2, <2>3
       DEF Next, WorkerStep, RequestStep, RequestWrite, Tick, Select,
           ClaimMiss, LoadClaimed, SkipIdempotent, StartHandler,
           HandlerReturns, HandlerRaises, VerifyRescheduled, MarkLoad,
           MarkWrite, MarkRefused, Restart, Crash, Enqueue, UpdateLoad,
           UpdateWrite, RetryLoad, RetryWrite, CancelLoad
<1>2. Init => LeaseInv
  <2>. SUFFICES ASSUME Init PROVE LeaseInv
    OBVIOUS
  <2>1. \A w \in Workers : \A j \in Jobs : ~Holds(w, j)
    BY DEF Init, Holds, HoldingStates, Blank
  <2>. QED
    BY <2>1, InitOwn DEF LeaseInv
<1>. QED
  BY <1>1, <1>2, NextLease, PTL DEF Spec, LeaseProtects
=============================================================================
