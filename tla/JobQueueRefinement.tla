------------------------- MODULE JobQueueRefinement -------------------------
(***************************************************************************)
(* The job queue implements its contract, for every number of workers,     *)
(* requests and keys, every lease and every back-off.                      *)
(***************************************************************************)
EXTENDS JobQueueProofs

\* The two variables of the contract, as JobQueue shows them.
Status == [j \in Jobs |-> row[j].st]
Held == {p \in Workers \X Jobs : Holds(p[1], p[2])}

\* A cancellation in flight is about a job that exists.
CancelInv ==
  \A r \in Requests : req[r].op = "cancel" => row[req[r].job].st # "absent"

RefInv == TypeInv /\ AbsentRows /\ CancelInv

LEMMA InitRef == Init => RefInv
BY InitType DEF Init, RefInv, AbsentRows, CancelInv, NoRow, NoRequest

LEMMA NextRef == RefInv /\ [Next]_vars => RefInv'
<1>. SUFFICES ASSUME RefInv, [Next]_vars PROVE RefInv'
  OBVIOUS
<1>1. TypeInv /\ TypeInv'
  BY NextType DEF RefInv
<1>2. CASE UNCHANGED vars
  BY <1>1, <1>2 DEF RefInv, AbsentRows, CancelInv, vars
<1>3. CASE Next
  <2>1. \A j \in Jobs : RowGrows(j)
    BY <1>3, NextGrows DEF RefInv
  <2>2. AbsentRows'
    BY <2>1 DEF AbsentRows, RowGrows, Jobs
  <2>3. ASSUME NEW r \in Requests, req'[r].op = "cancel"
        PROVE  row'[req'[r].job].st # "absent"
    <3>1. CASE req'[r] = req[r]
      <4>1. req[r].job \in Jobs /\ row[req[r].job].st # "absent"
        BY <1>1, <2>3, <3>1 DEF RefInv, CancelInv, TypeInv, MemoryShape
      <4>. QED
        BY <2>1, <3>1, <4>1 DEF RowGrows
    <3>2. ASSUME NEW q \in Requests, RequestStep(q), q = r
          PROVE  row'[req'[r].job].st # "absent"
      <4>1. CASE RequestWrite(r)
        <5>1. req'[r] = NoRequest
          BY <1>1, <4>1 DEF RequestWrite, UpdateWrite, RetryWrite, CancelWrite,
                            TypeInv, TypeOK
        <5>. QED
          BY <2>3, <5>1 DEF NoRequest
      <4>2. ASSUME NEW j \in Jobs, UpdateLoad(r, j) \/ RetryLoad(r, j)
            PROVE  FALSE
        <5>1. \/ req'[r] = [op |-> "update", job |-> j, ver |-> row[j].ver + 1,
                            seen |-> See(j)]
              \/ req'[r] = [op |-> "retry", job |-> j, ver |-> row[j].ver,
                            seen |-> See(j)]
          BY <1>1, <4>2 DEF UpdateLoad, RetryLoad, TypeInv, TypeOK
        <5>. QED
          BY <2>3, <5>1
      <4>3. ASSUME NEW j \in Jobs, CancelLoad(r, j)
            PROVE  row'[req'[r].job].st # "absent"
        <5>1. req'[r] = [op |-> "cancel", job |-> j, ver |-> 0, seen |-> See(j)]
              /\ row' = row /\ row[j].st \in {"queued", "running"}
          BY <1>1, <4>3 DEF CancelLoad, TypeInv, TypeOK
        <5>. QED
          BY <5>1
      <4>. QED
        BY <3>2, <4>1, <4>2, <4>3 DEF RequestStep
    <3>3. ASSUME NEW q \in Requests, RequestStep(q), q # r
          PROVE  req'[r] = req[r]
      BY <1>1, <3>3 DEF RequestStep, RequestWrite, UpdateLoad, RetryLoad,
                        CancelLoad, UpdateWrite, RetryWrite, CancelWrite,
                        TypeInv, TypeOK
    <3>4. CASE req' = req
      BY <3>1, <3>4
    <3>. QED
      BY <1>3, <3>1, <3>2, <3>3, <3>4
         DEF Next, Tick, WorkerStep, Select, ClaimHit, ClaimMiss, LoadClaimed,
             SkipIdempotent, StartHandler, HandlerReturns, HandlerRaises,
             HandlerRequeues, VerifyRescheduled, MarkLoad, MarkWrite,
             MarkRefused, Restart, Crash, Enqueue, AdminRequeue
  <2>. QED
    BY <1>1, <2>2, <2>3 DEF RefInv, CancelInv
<1>. QED
  BY <1>2, <1>3

-----------------------------------------------------------------------------
(* How the contract's variables move *)

LEMMA StatusKept ==
  ASSUME \A j \in Jobs : row'[j].st = row[j].st
  PROVE  Status' = Status
BY DEF Status, Jobs

LEMMA StatusSet ==
  ASSUME NEW j \in Jobs, NEW s, row'[j].st = s,
         \A i \in Jobs \ {j} : row'[i].st = row[i].st
  PROVE  Status' = [Status EXCEPT ![j] = s]
BY DEF Status, Jobs

LEMMA HeldKept ==
  ASSUME \A w \in Workers : wk'[w].job = wk[w].job
           /\ (wk'[w].pc \in HoldingStates <=> wk[w].pc \in HoldingStates)
  PROVE  Held' = Held
BY DEF Held, Holds, Jobs

\* A worker that holds nothing before and after its step.
LEMMA HeldIdle ==
  ASSUME NEW w \in Workers, TypeInv, wk' = [wk EXCEPT ![w] = wk'[w]],
         wk[w].pc \notin HoldingStates, wk'[w].pc \notin HoldingStates
  PROVE  Held' = Held
<1>1. \A v \in Workers : \A j : Holds(v, j)' <=> Holds(v, j)
  BY DEF Holds, TypeInv, TypeOK
<1>. QED
  BY <1>1 DEF Held, Jobs

LEMMA HeldTaken ==
  ASSUME NEW w \in Workers, TypeInv, wk' = [wk EXCEPT ![w] = wk'[w]],
         wk[w].pc \notin HoldingStates,
         wk'[w].pc \in HoldingStates, wk'[w].job \in Jobs
  PROVE  Held' = Held \cup {<<w, wk'[w].job>>}
<1>1. \A v \in Workers : \A j :
        Holds(v, j)' <=> Holds(v, j) \/ (v = w /\ j = wk'[w].job)
  BY DEF Holds, TypeInv, TypeOK
<1>. QED
  BY <1>1 DEF Held, Jobs

LEMMA HeldFreed ==
  ASSUME NEW w \in Workers, TypeInv, wk' = [wk EXCEPT ![w] = wk'[w]],
         wk[w].pc \in HoldingStates, wk'[w].pc \notin HoldingStates
  PROVE  /\ <<w, wk[w].job>> \in Held
         /\ Held' = Held \ {<<w, wk[w].job>>}
<1>0. wk[w].job \in Jobs
  BY DEF HoldingStates, TypeInv, MemoryShape
<1>1. \A v \in Workers : \A j :
        Holds(v, j)' <=> Holds(v, j) /\ ~(v = w /\ j = wk[w].job)
  BY DEF Holds, TypeInv, TypeOK
<1>2. Holds(w, wk[w].job)
  BY DEF Holds
<1>. QED
  BY <1>0, <1>1, <1>2 DEF Held, Jobs

-----------------------------------------------------------------------------
(* Every step of the queue is a step of its contract or leaves it unchanged *)

Stutter == Status' = Status /\ Held' = Held

ContractStep == Contract!Next \/ Stutter

LEMMA ClaimRefines ==
  ASSUME RefInv, NEW w \in Workers, ClaimHit(w), NEW j \in Jobs, j = wk[w].job
  PROVE  ContractStep
<1>0. /\ wk[w].pc = "selected" /\ wk[w] \in WorkerMem
      /\ row[j] \in Rows
  BY DEF ClaimHit, RefInv, TypeInv, TypeOK, MemoryShape
<1>1. /\ wk' = [wk EXCEPT ![w] = wk'[w]]
      /\ wk'[w].pc = "claimed" /\ wk'[w].job = j
  BY <1>0 DEF ClaimHit, RefInv, TypeInv, TypeOK, WorkerMem
<1>2. Held' = Held \cup {<<w, j>>}
  BY <1>0, <1>1, HeldTaken DEF RefInv, HoldingStates
<1>3. /\ row'[j].st = "running"
      /\ \A i \in Jobs \ {j} : row'[i].st = row[i].st
  BY <1>0 DEF ClaimHit, RefInv, TypeInv, TypeOK, Rows
<1>4. Status' = [Status EXCEPT ![j] = "running"]
  BY <1>0, <1>3, StatusSet
<1>5. Status[j] \in {"queued", "running"}
  BY <1>0 DEF ClaimHit, ClaimMatches, Runnable, Status
<1>6. \A i \in Jobs : <<w, i>> \notin Held
  BY <1>0 DEF Held, Holds, HoldingStates
<1>7. Contract!Claim(w, j)
  BY <1>2, <1>4, <1>5, <1>6
     DEF Contract!Claim, Contract!Idle, Contract!Claimable, Status, Held
<1>. QED
  BY <1>0, <1>7 DEF ContractStep, Contract!Next, Contract!WorkerStep

\* A step that takes a worker from its job without touching the table.
LEMMA AbandonRefines ==
  ASSUME RefInv, NEW w \in Workers, wk' = [wk EXCEPT ![w] = wk'[w]],
         wk'[w].pc \notin HoldingStates,
         \A i \in Jobs : row'[i].st = row[i].st
  PROVE  ContractStep
<1>1. Status' = Status
  BY StatusKept
<1>2. CASE wk[w].pc \in HoldingStates
  <2>1. wk[w].job \in Jobs
    BY <1>2 DEF HoldingStates, RefInv, TypeInv, MemoryShape
  <2>2. Contract!Abandon(w, wk[w].job)
    BY <1>1, <1>2, HeldFreed DEF RefInv, Contract!Abandon, Status, Held
  <2>. QED
    BY <2>1, <2>2 DEF ContractStep, Contract!Next, Contract!WorkerStep
<1>3. CASE wk[w].pc \notin HoldingStates
  BY <1>1, <1>3, HeldIdle DEF RefInv, ContractStep, Stutter
<1>. QED
  BY <1>2, <1>3

LEMMA MarkRefines ==
  ASSUME RefInv, NEW w \in Workers, MarkWrite(w), NEW j \in Jobs, j = wk[w].job
  PROVE  ContractStep
<1>. DEFINE m == wk[w]
            d == IF m.target = "queued" THEN BackoffLeft(m) ELSE 0
<1>0. /\ m.pc = "marking" /\ m \in WorkerMem
      /\ row[j] \in Rows /\ m.target \in {"succeeded", "queued", "dead_letter"}
  BY DEF MarkWrite, RefInv, TypeInv, TypeOK, MemoryShape, WorkerMem, Targets
<1>1. wk' = [wk EXCEPT ![w] = wk'[w]] /\ wk'[w].pc = "idle"
  BY DEF MarkWrite, RefInv, TypeInv, TypeOK, Blank
<1>2. row' = [row EXCEPT ![j] = WriteBack(row[j], m.seen, m.target, d)]
  BY DEF MarkWrite
<1>3. WriteBack(row[j], m.seen, m.target, d).st
        = IF m.seen.st = m.target THEN row[j].st ELSE m.target
  BY <1>0, WriteBackKeeps
<1>4. \A i \in Jobs \ {j} : row'[i].st = row[i].st
  BY <1>2 DEF RefInv, TypeInv, TypeOK
<1>5. row'[j].st = IF m.seen.st = m.target THEN row[j].st ELSE m.target
  BY <1>0, <1>2, <1>3 DEF RefInv, TypeInv, TypeOK
<1>6. CASE m.seen.st = m.target
  BY <1>1, <1>4, <1>5, <1>6, AbandonRefines DEF HoldingStates
<1>7. CASE m.seen.st # m.target
  <2>0. PICK t \in {"succeeded", "queued", "dead_letter"} : t = m.target
    BY <1>0
  <2>1. Status' = [Status EXCEPT ![j] = t]
    BY <1>0, <1>4, <1>5, <1>7, <2>0, StatusSet
  <2>2. <<w, j>> \in Held /\ Held' = Held \ {<<w, j>>}
    BY <1>0, <1>1, HeldFreed DEF RefInv, HoldingStates
  <2>3. Contract!Report(w, j, t)
    BY <2>1, <2>2 DEF Contract!Report, Status, Held
  <2>. QED
    BY <2>3 DEF ContractStep, Contract!Next, Contract!WorkerStep,
                Contract!Outcomes
<1>. QED
  BY <1>6, <1>7

LEMMA RequeueRefines ==
  ASSUME RefInv, NEW w \in Workers, HandlerRequeues(w), NEW j \in Jobs,
         j = wk[w].job
  PROVE  ContractStep
<1>0. /\ wk[w].pc = "handling" /\ wk[w] \in WorkerMem
      /\ row[j] \in Rows
  BY DEF HandlerRequeues, RefInv, TypeInv, TypeOK, MemoryShape
<1>1. \A v \in Workers \ {w} : wk'[v] = wk[v]
  BY DEF HandlerRequeues, RefInv, TypeInv, TypeOK
<1>2. wk'[w].job = j /\ wk'[w].pc \in {"requeued", "finishing"}
  <2>1. \/ wk'[w] = [wk[w] EXCEPT !.pc = "requeued"]
        \/ wk'[w] = [wk[w] EXCEPT !.pc = "finishing",
                                  !.target = RetryOrDeadLetter(wk[w])]
    BY DEF HandlerRequeues, RefInv, TypeInv, TypeOK
  <2>2. ASSUME NEW t
        PROVE  LET m == [wk[w] EXCEPT !.pc = "finishing", !.target = t]
               IN m.job = j /\ m.pc = "finishing"
    BY <1>0 DEF WorkerMem
  <2>. QED
    BY <1>0, <2>1, <2>2 DEF WorkerMem
<1>3. Held' = Held
  BY <1>0, <1>1, <1>2, HeldKept DEF HoldingStates
<1>4. CASE row' = row
  BY <1>3, <1>4, StatusKept DEF ContractStep, Stutter
<1>5. ASSUME NEW d \in Delays, row[j].st \in {"queued", "running"},
             row' = [row EXCEPT ![j] = [Unlock(@) EXCEPT !.st = "queued", !.due = d]]
      PROVE  ContractStep
  <2>0. Unlock(row[j]) \in Rows
    BY <1>0, RowTypes
  <2>1. /\ row'[j].st = "queued"
        /\ \A i \in Jobs \ {j} : row'[i].st = row[i].st
    BY <1>0, <1>5, <2>0 DEF RefInv, TypeInv, TypeOK, Rows
  <2>2. Status' = [Status EXCEPT ![j] = "queued"]
    BY <1>0, <2>1, StatusSet
  <2>3. <<w, j>> \in Held /\ Status[j] \in {"queued", "running"}
    BY <1>0, <1>5 DEF Held, Holds, HoldingStates, Status
  <2>4. Contract!PutBack(w, j)
    BY <1>3, <2>2, <2>3 DEF Contract!PutBack, Contract!Claimable, Status, Held
  <2>. QED
    BY <1>0, <2>4 DEF ContractStep, Contract!Next, Contract!WorkerStep
<1>. QED
  BY <1>4, <1>5 DEF HandlerRequeues

LEMMA WorkerRefines ==
  ASSUME RefInv, NEW w \in Workers, WorkerStep(w) \/ Crash(w)
  PROVE  ContractStep
<1>0. wk[w] \in WorkerMem /\ wk \in [Workers -> WorkerMem]
  BY DEF RefInv, TypeInv, TypeOK
<1>j. wk[w].pc \notin {"idle", "down"} => \E j \in Jobs : j = wk[w].job
  BY DEF RefInv, TypeInv, MemoryShape
<1>1. wk' = [wk EXCEPT ![w] = wk'[w]]
  BY <1>0 DEF WorkerStep, Select, ClaimHit, ClaimMiss, LoadClaimed,
     SkipIdempotent, StartHandler, HandlerReturns, HandlerRaises,
     HandlerRequeues, VerifyRescheduled, MarkLoad, MarkWrite, MarkRefused,
     Restart, Crash
<1>2. ASSUME row' = row, wk'[w].pc \in HoldingStates, wk[w].pc \in HoldingStates,
             wk'[w].job = wk[w].job
      PROVE  ContractStep
  <2>1. Held' = Held
    BY <1>0, <1>1, <1>2, HeldKept
  <2>. QED
    BY <1>2, <2>1, StatusKept DEF ContractStep, Stutter
<1>3. CASE Select(w)
  <2>1. wk'[w].pc = "selected" /\ row' = row
    BY <1>0, <1>3 DEF Select, Blank
  <2>. QED
    BY <1>1, <2>1, AbandonRefines DEF HoldingStates
<1>4. CASE ClaimMiss(w) \/ MarkRefused(w) \/ Restart(w) \/ Crash(w)
  <2>1. wk'[w].pc \in {"idle", "down"} /\ row' = row
    BY <1>0, <1>4 DEF ClaimMiss, MarkRefused, Restart, Crash, Blank
  <2>. QED
    BY <1>1, <2>1, AbandonRefines DEF HoldingStates
<1>5. CASE LoadClaimed(w)
  <2>1. /\ row' = row /\ wk[w].pc = "claimed"
        /\ wk'[w].pc = "loaded" /\ wk'[w].job = wk[w].job
    BY <1>0, <1>5 DEF LoadClaimed, WorkerMem
  <2>. QED
    BY <1>2, <2>1 DEF HoldingStates
<1>6. CASE SkipIdempotent(w) \/ StartHandler(w) \/ HandlerReturns(w)
  <2>1. /\ row' = row /\ wk[w].pc \in {"loaded", "handling"}
        /\ wk'[w].pc \in {"handling", "finishing"} /\ wk'[w].job = wk[w].job
    BY <1>0, <1>6 DEF SkipIdempotent, StartHandler, HandlerReturns, WorkerMem
  <2>. QED
    BY <1>2, <2>1 DEF HoldingStates
<1>7. CASE HandlerRaises(w)
  <2>1. PICK t : wk' = [wk EXCEPT ![w] = [@ EXCEPT !.pc = "finishing", !.target = t]]
    BY <1>7 DEF HandlerRaises
  <2>2. /\ row' = row /\ wk[w].pc = "handling"
        /\ wk'[w].pc = "finishing" /\ wk'[w].job = wk[w].job
    BY <1>0, <1>7, <2>1 DEF HandlerRaises, WorkerMem
  <2>. QED
    BY <1>2, <2>2 DEF HoldingStates
<1>8. CASE VerifyRescheduled(w)
  <2>1. row' = row /\ wk[w].pc = "requeued"
    BY <1>8 DEF VerifyRescheduled
  <2>2. CASE wk'[w] = Blank("idle")
    <3>1. wk'[w].pc = "idle"
      BY <2>2 DEF Blank
    <3>. QED
      BY <1>1, <2>1, <3>1, AbandonRefines DEF HoldingStates
  <2>3. CASE wk'[w] = [wk[w] EXCEPT !.pc = "finishing",
                                    !.target = RetryOrDeadLetter(wk[w])]
    <3>1. wk'[w].pc = "finishing" /\ wk'[w].job = wk[w].job
      BY <1>0, <2>3 DEF WorkerMem
    <3>. QED
      BY <1>2, <2>1, <3>1 DEF HoldingStates
  <2>. QED
    BY <1>0, <1>8, <2>2, <2>3 DEF VerifyRescheduled
<1>9. CASE MarkLoad(w)
  <2>1. /\ row' = row /\ wk[w].pc = "finishing"
        /\ wk'[w].pc = "marking" /\ wk'[w].job = wk[w].job
    BY <1>0, <1>9 DEF MarkLoad, WorkerMem
  <2>. QED
    BY <1>2, <2>1 DEF HoldingStates
<1>10. CASE ClaimHit(w)
  BY <1>j, <1>10, ClaimRefines DEF ClaimHit
<1>11. CASE MarkWrite(w)
  BY <1>j, <1>11, MarkRefines DEF MarkWrite
<1>12. CASE HandlerRequeues(w)
  BY <1>j, <1>12, RequeueRefines DEF HandlerRequeues
<1>. QED
  BY <1>3, <1>4, <1>5, <1>6, <1>7, <1>8, <1>9, <1>10, <1>11, <1>12
     DEF WorkerStep

\* Steps that change one row from outside: the workers keep what they hold.
LEMMA OperatorRefines ==
  ASSUME RefInv, NEW j \in Jobs, NEW s, wk' = wk,
         row'[j].st = s, \A i \in Jobs \ {j} : row'[i].st = row[i].st,
         \/ row[j].st = "absent" /\ s = "queued"
         \/ row[j].st # "absent" /\ s \in {"queued", "dead_letter"}
         \/ s = row[j].st
  PROVE  ContractStep
<1>1. Held' = Held
  BY HeldKept
<1>2. Status' = [Status EXCEPT ![j] = s] /\ Status[j] = row[j].st
  BY StatusSet DEF Status
<1>3. CASE row[j].st = "absent" /\ s = "queued"
  <2>1. Contract!Enqueue({j})
    BY <1>1, <1>2, <1>3 DEF Contract!Enqueue, Status, Held
  <2>. QED
    BY <2>1 DEF ContractStep, Contract!Next
<1>4. CASE row[j].st # "absent" /\ s \in {"queued", "dead_letter"}
  <2>1. Contract!Intervene(j, s)
    BY <1>1, <1>2, <1>4 DEF Contract!Intervene, Status, Held
  <2>. QED
    BY <1>4, <2>1 DEF ContractStep, Contract!Next, Contract!Operator
<1>5. CASE s = row[j].st
  BY <1>1, <1>5, StatusKept DEF ContractStep, Stutter
<1>. QED
  BY <1>3, <1>4, <1>5

LEMMA RequestRefines ==
  ASSUME RefInv, NEW r \in Requests, RequestStep(r)
  PROVE  ContractStep
<1>0. /\ \A i \in Jobs : row[i] \in Rows
      /\ row \in [Jobs -> Rows]
  BY DEF RefInv, TypeInv, TypeOK
<1>1. ASSUME row' = row, wk' = wk
      PROVE  ContractStep
  BY <1>1, StatusKept, HeldKept DEF ContractStep, Stutter
<1>2. CASE UpdateWrite(r)
  <2>. DEFINE j == req[r].job
  <2>1. j \in Jobs /\ wk' = wk
    BY <1>2 DEF UpdateWrite, RefInv, TypeInv, MemoryShape
  <2>2. PICK d \in Delays :
          row' = [row EXCEPT ![j] = [@ EXCEPT !.ver = req[r].ver, !.due = d]]
    BY <1>2 DEF UpdateWrite
  <2>3. row'[j].st = row[j].st /\ \A i \in Jobs \ {j} : row'[i].st = row[i].st
    BY <1>0, <2>1, <2>2 DEF Rows
  <2>. QED
    BY <2>1, <2>3, OperatorRefines
<1>3. CASE RetryWrite(r)
  <2>. DEFINE j == Retry(req[r].job)
  <2>1. j \in Jobs /\ wk' = wk
    BY <1>3, RetryType DEF RetryWrite, RefInv, TypeInv, MemoryShape
  <2>2. CASE RetryAdmitted(r)
    <3>1. row' = [row EXCEPT ![j] = NewRow(0, req[r].ver)] /\ row[j].st = "absent"
      BY <1>3, <2>2 DEF RetryWrite, RetryAdmitted
    <3>2. row'[j].st = "queued" /\ \A i \in Jobs \ {j} : row'[i].st = row[i].st
      BY <1>0, <2>1, <3>1 DEF NewRow
    <3>. QED
      BY <2>1, <3>1, <3>2, OperatorRefines
  <2>3. CASE ~RetryAdmitted(r)
    BY <1>1, <1>3, <2>3 DEF RetryWrite
  <2>. QED
    BY <2>2, <2>3
<1>4. CASE CancelWrite(r)
  <2>. DEFINE j == req[r].job
  <2>1. j \in Jobs /\ wk' = wk /\ row[j].st # "absent"
    BY <1>4 DEF CancelWrite, RefInv, TypeInv, MemoryShape, CancelInv
  <2>2. row' = [row EXCEPT ![j] = WriteBack(row[j], req[r].seen, "dead_letter", 0)]
    BY <1>4 DEF CancelWrite
  <2>3. WriteBack(row[j], req[r].seen, "dead_letter", 0).st
          = IF req[r].seen.st = "dead_letter" THEN row[j].st ELSE "dead_letter"
    BY <1>0, <2>1, WriteBackKeeps
  <2>4. /\ row'[j].st \in {row[j].st, "dead_letter"}
        /\ \A i \in Jobs \ {j} : row'[i].st = row[i].st
    BY <1>0, <2>1, <2>2, <2>3
  <2>. QED
    BY <2>1, <2>4, OperatorRefines
<1>. QED
  BY <1>1, <1>2, <1>3, <1>4
     DEF RequestStep, RequestWrite, UpdateLoad, RetryLoad, CancelLoad

LEMMA NextRefines == RefInv /\ [Next]_vars => [Contract!Next]_(Contract!vars)
<1>. SUFFICES ASSUME RefInv, [Next]_vars PROVE ContractStep
  BY DEF ContractStep, Stutter, Contract!vars, Status, Held
<1>0. /\ row \in [Jobs -> Rows]
      /\ wk \in [Workers -> WorkerMem]
  BY DEF RefInv, TypeInv, TypeOK
<1>1. CASE UNCHANGED vars
  BY <1>1, StatusKept, HeldKept DEF vars, ContractStep, Stutter
<1>2. CASE Tick
  <2>1. \A j \in Jobs : row'[j].st = row[j].st
    BY <1>0, <1>2 DEF Tick, TickRow, Rows
  <2>2. \A w \in Workers : wk'[w].job = wk[w].job /\ wk'[w].pc = wk[w].pc
    BY <1>0, <1>2 DEF Tick, TickWorker, WorkerMem
  <2>. QED
    BY <2>1, <2>2, StatusKept, HeldKept DEF ContractStep, Stutter
<1>3. ASSUME NEW k \in Keys, Enqueue(k)
      PROVE  ContractStep
  <2>1. <<k, 0>> \in Jobs
    BY ConstantAssumption DEF Jobs
  <2>2. PICK d \in Delays : row' = [row EXCEPT ![<<k, 0>>] = NewRow(d, 0)]
    BY <1>3 DEF Enqueue
  <2>3. /\ wk' = wk /\ row[<<k, 0>>].st = "absent"
        /\ row'[<<k, 0>>].st = "queued"
        /\ \A i \in Jobs \ {<<k, 0>>} : row'[i].st = row[i].st
    BY <1>0, <1>3, <2>1, <2>2 DEF Enqueue, NewRow
  <2>. QED
    BY <2>1, <2>3, OperatorRefines
<1>4. ASSUME NEW j \in Jobs, NEW force \in BOOLEAN, AdminRequeue(j, force)
      PROVE  ContractStep
  <2>1. Unlock(row[j]) \in Rows
    BY <1>0, RowTypes
  <2>2. row' = [row EXCEPT ![j] = [Unlock(row[j]) EXCEPT !.st = "queued", !.due = 0]]
        /\ wk' = wk /\ row[j].st # "absent"
    BY <1>4 DEF AdminRequeue
  <2>3. row'[j].st = "queued" /\ \A i \in Jobs \ {j} : row'[i].st = row[i].st
    BY <1>0, <2>1, <2>2 DEF Rows
  <2>. QED
    BY <2>2, <2>3, OperatorRefines
<1>. QED
  BY <1>1, <1>2, <1>3, <1>4, WorkerRefines, RequestRefines DEF Next

\* The queue implements the at-least-once contract that its users are built
\* on: every behaviour of JobQueue, seen as statuses and who holds which job,
\* is one of JobContract (claim_next_runnable, mark_*, requeue_*, run_once).
THEOREM QueueImplementsContract == Spec => ImplementsContract
<1>1. Init => Contract!Init
  BY DEF Init, Contract!Init, NoRow, Blank, Holds, HoldingStates
<1>2. Spec => []RefInv
  BY InitRef, NextRef, PTL DEF Spec
<1>. QED
  BY <1>1, <1>2, NextRefines, PTL DEF Spec, ImplementsContract, Contract!Spec
=============================================================================
