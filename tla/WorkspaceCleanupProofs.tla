------------------------ MODULE WorkspaceCleanupProofs ------------------------
(***************************************************************************)
(* What WorkspaceCleanup keeps for any number of sessions, runs, workers,  *)
(* attempts and faults: types, records that do not claim a repository that *)
(* nobody closed, repositories that are not closed before their time, and  *)
(* a cleanup of the trial that accounts for each of them.                  *)
(***************************************************************************)
EXTENDS WorkspaceCleanup, TLAPS

USE DEF world, history

\* cleaned_at is written by a run that closed the repository or found it gone.
Told == \A s \in Sessions : row[s].cleaned => repo[s] # "live"

\* Without an operator's reset the session's columns agree.
EndOK(s) == sess[s].done # None <=> sess[s].st = "completed"

Ends == \A s \in Sessions : s \in reset \/ EndOK(s)

\* What was true of a target at its listing is still true, and what a run is
\* about to commit is true already.
TargetOK(t, s) ==
  /\ t.row.cleaned => repo[s] # "live"
  /\ t.due => RunOut(s) \/ s \in reset \/ t.over

MemoryOK(m) ==
  /\ \A s \in DOMAIN m.todo : TargetOK(m.todo[s], s)
  /\ m.pc = "writing" => m.at \in Sessions /\ (m.new.cleaned => repo[m.at] # "live")

Memories == \A w \in Workers : MemoryOK(wk[w])

IInv == TypeOK /\ Told /\ Ends /\ Memories

-----------------------------------------------------------------------------
(* Types of what the workers hold *)

LEMMA Constants ==
  Untouched \in Record /\ Invited \in Session /\ Idle \in Worker /\ DOMAIN Idle.todo = {}
<1>1. Untouched \in Record
  BY DEF Untouched, Record
<1>2. Invited \in Session
  BY DEF Invited, Session
<1>3. NoTargets \in [{} -> Target] /\ {} \in SUBSET Sessions
  BY DEF NoTargets
<1>4. Idle \in Worker
  BY <1>1, <1>3 DEF Idle, Worker
<1> QED
  BY <1>1, <1>2, <1>4 DEF Idle, NoTargets

LEMMA TodoFacts ==
  ASSUME NEW m \in Worker
  PROVE  /\ DOMAIN m.todo \subseteq Sessions
         /\ \A s \in DOMAIN m.todo : m.todo[s] \in Target
  BY DEF Worker

\* A run that has ended remembers no target; one that goes on, fewer.
LEMMA EndedType ==
  ASSUME NEW m \in Worker, NEW target \in {"none", "succeeded", "retry"}
  PROVE  /\ Ended(m, target) \in Worker
         /\ DOMAIN Ended(m, target).todo = {}
         /\ Ended(m, target).pc = "done"
<1>1. NoTargets \in [{} -> Target] /\ {} \in SUBSET Sessions /\ Untouched \in Record
  BY Constants DEF NoTargets
<1> QED
  BY <1>1 DEF Ended, Left, Worker, NoTargets

LEMMA ProceedType ==
  ASSUME NEW m \in Worker, NEW S \in SUBSET Sessions, NEW f \in [S -> Target]
  PROVE  /\ Proceed(m, f) \in Worker
         /\ Proceed(m, f).pc \in {"done", "target"}
         /\ \A s \in DOMAIN Proceed(m, f).todo : s \in S /\ Proceed(m, f).todo[s] = f[s]
<1>1. CASE S = {}
  BY <1>1, EndedType DEF Proceed
<1>2. CASE S # {}
  <2>1. Proceed(m, f) = [m EXCEPT !.pc = "target", !.todo = f, !.at = None,
                                  !.listed = Untouched, !.new = Untouched]
    BY <1>2 DEF Proceed, Left
  <2>2. f \in UNION {[T -> Target] : T \in SUBSET Sessions}
    OBVIOUS
  <2>3. Proceed(m, f) \in Worker
    BY <2>1, <2>2, Constants DEF Worker
  <2>4. Proceed(m, f).pc = "target" /\ Proceed(m, f).todo = f
    BY <2>1 DEF Worker
  <2> QED
    BY <2>3, <2>4
<1> QED
  BY <1>1, <1>2

\* A listing is a list of targets.
LEMMA ListedType ==
  ASSUME TypeOK, NEW j
  PROVE  Listed(j) \in [Sessions -> Target]
<1> SUFFICES ASSUME NEW s \in Sessions
             PROVE  [row |-> row[s], audited |-> sess[s].audited,
                     due |-> Eligible(s) /\ Expired(s, j),
                     over |-> trial = "terminated"] \in Target
  BY DEF Listed
<1>1. row[s] \in Record /\ sess[s].audited \in BOOLEAN
  BY DEF TypeOK, Session
<1>2. (Eligible(s) /\ Expired(s, j)) \in BOOLEAN /\ (trial = "terminated") \in BOOLEAN
  OBVIOUS
<1> QED
  BY <1>1, <1>2 DEF Target

LEMMA MarkedType ==
  ASSUME NEW r \in Record, NEW st \in {"pending", "failed"}
  PROVE  Marked(r, st) \in Record /\ Marked(r, st).cleaned = r.cleaned
  BY DEF Marked, Record

\* A revocation leaves the repository's columns alone, but for a failure.
LEMMA RevocationType ==
  ASSUME NEW t \in Target, NEW x \in Revocations(t)
  PROVE  /\ x.row \in Record /\ x.row.cleaned = t.row.cleaned
         /\ x.then \in {"close", "none", "retry"}
<1>1. t.row \in Record
  BY DEF Target
<1> DEFINE removed == [t.row EXCEPT !.revoked = TRUE, !.error = FALSE]
           refused == [t.row EXCEPT !.error = TRUE]
<1>2. removed \in Record /\ removed.cleaned = t.row.cleaned
  BY <1>1 DEF Record
<1>3. refused \in Record /\ refused.cleaned = t.row.cleaned
  BY <1>1 DEF Record
<1> DEFINE lost == [refused EXCEPT !.st = "failed"]
           marked == Marked(refused, "failed")
<1>4. lost \in Record /\ lost.cleaned = t.row.cleaned
  BY <1>3 DEF Record
<1>5. marked \in Record /\ marked.cleaned = t.row.cleaned
  BY <1>3, MarkedType
<1>6. x \in {After(t.row, "close"), After(removed, "close"), After(marked, "none"),
             After(lost, "retry")}
  BY DEF Revocations
<1> HIDE DEF removed, refused, lost, marked
<1>7. \A r, then : After(r, then).row = r /\ After(r, then).then = then
  BY DEF After
<1>8. CASE x = After(t.row, "close")
  BY <1>1, <1>7, <1>8
<1>9. CASE x = After(removed, "close")
  BY <1>2, <1>7, <1>9
<1>10. CASE x = After(marked, "none")
  BY <1>5, <1>7, <1>10
<1>11. CASE x = After(lost, "retry")
  BY <1>4, <1>7, <1>11
<1> QED
  BY <1>6, <1>8, <1>9, <1>10, <1>11

\* GitHub's answers: a repository leaves the states it was in only to be closed,
\* and a run writes success only then.
LEMMA OutcomeType ==
  ASSUME NEW from \in RepoStates, NEW o \in Outcomes(from)
  PROVE  /\ o.to \in {from, Closed} /\ o.to \in RepoStates
         /\ o.st \in {"failed", "archived", "deleted"}
         /\ o.then \in {"none", "retry"}
         /\ o.st # "failed" => o.to # "live"
  BY CleanupAssumption DEF Outcomes, Answer, RepoStates

\* A commit mixes the columns of two records.
LEMMA ChangedType ==
  ASSUME NEW old \in Record, NEW new \in Record, NEW current \in Record
  PROVE  /\ Changed(old, new, current) \in Record
         /\ Changed(old, new, current).cleaned => new.cleaned \/ current.cleaned
<1> DEFINE c == Changed(old, new, current)
<1>1. DOMAIN new = {"st", "cleaned", "revoked", "error"}
  BY DEF Record
<1>2. c = [f \in {"st", "cleaned", "revoked", "error"} |->
             IF new[f] = old[f] THEN current[f] ELSE new[f]]
  BY <1>1 DEF Changed
<1>3. /\ c["st"] \in {new["st"], current["st"]}
      /\ c["cleaned"] \in {new["cleaned"], current["cleaned"]}
      /\ c["revoked"] \in {new["revoked"], current["revoked"]}
      /\ c["error"] \in {new["error"], current["error"]}
  BY <1>2
<1>4. c = [st |-> c["st"], cleaned |-> c["cleaned"], revoked |-> c["revoked"],
           error |-> c["error"]]
  BY <1>2
<1> HIDE DEF c
<1>5. c \in Record
  BY <1>3, <1>4 DEF Record
<1> QED
  BY <1>3, <1>5 DEF c

-----------------------------------------------------------------------------
(* Steps *)

LEMMA InitInv == Init => IInv
<1> SUFFICES ASSUME Init PROVE IInv
  OBVIOUS
<1>1. TypeOK
  <2>1. job \in [Jobs -> [st : Queue!Claimable \cup Queue!Outcomes \cup {"absent"},
                          attempt : Nat]]
    BY DEF Init
  <2>2. /\ sess \in [Sessions -> Session] /\ row \in [Sessions -> Record]
        /\ wk \in [Workers -> Worker]
    BY Constants DEF Init
  <2>3. /\ now \in 0..Horizon /\ trial \in {"live", "terminated"} /\ faults \in Nat
        /\ repo \in [Sessions -> RepoStates] /\ request \in [Sessions -> BOOLEAN]
        /\ reset \subseteq Sessions /\ tried \subseteq Sessions /\ pended \subseteq Sessions
    BY CleanupAssumption DEF Init, RepoStates
  <2>4. revived \in BOOLEAN
    BY Zenon DEF Init
  <2> QED
    BY <2>1, <2>2, <2>3, <2>4 DEF TypeOK
<1>2. Told /\ Ends
  BY NoneAssumption DEF Init, Told, Ends, EndOK, Untouched, Invited
<1>3. Memories
  BY Constants DEF Init, Memories, MemoryOK, Idle
<1> QED
  BY <1>1, <1>2, <1>3 DEF IInv

\* What a worker remembers survives every step that closes or reopens
\* repositories and ends retentions, but opens none that was never closed.
LEMMA OthersInv ==
  ASSUME IInv, UNCHANGED <<wk, row>>,
         \A s \in Sessions : repo[s] # "live" => repo'[s] # "live",
         \A s \in Sessions : RunOut(s) \/ s \in reset => (RunOut(s) \/ s \in reset)'
  PROVE  Told' /\ Memories'
<1>1. Told'
  BY DEF IInv, Told
<1>2. ASSUME NEW w \in Workers PROVE MemoryOK(wk[w])'
  <2>1. wk[w] \in Worker /\ wk' = wk /\ MemoryOK(wk[w])
    BY DEF IInv, TypeOK, Memories
  <2>2. DOMAIN wk[w].todo \subseteq Sessions
    BY <2>1, TodoFacts
  <2>3. \A s \in DOMAIN wk[w].todo : TargetOK(wk[w].todo[s], s)'
    BY <2>1, <2>2 DEF MemoryOK, TargetOK
  <2> QED
    BY <2>1, <2>2, <2>3 DEF MemoryOK
<1> QED
  BY <1>1, <1>2 DEF Memories

\* A worker's step that touches its memory, jobs and faults only.
LEMMA WorkerInv ==
  ASSUME IInv, NEW w \in Workers, NEW m \in Worker, MemoryOK(m),
         wk' = [wk EXCEPT ![w] = m], job' \in [Jobs -> [st : Queue!Claimable
           \cup Queue!Outcomes \cup {"absent"}, attempt : Nat]], faults' \in Nat,
         UNCHANGED <<world, request, history>>
  PROVE  IInv'
<1>1. wk \in [Workers -> Worker]
  BY DEF IInv, TypeOK
<1>2. wk' \in [Workers -> Worker] /\ \A v \in Workers : wk'[v] = IF v = w THEN m ELSE wk[v]
  BY <1>1
<1>3. TypeOK'
  BY <1>2 DEF IInv, TypeOK
<1>4. Told' /\ Ends'
  BY DEF IInv, Told, Ends, EndOK
<1>5. \A v \in Workers : MemoryOK(wk'[v])
  BY <1>2 DEF IInv, Memories
<1>6. Memories'
  BY <1>5 DEF Memories, MemoryOK, TargetOK, RunOut
<1> QED
  BY <1>3, <1>4, <1>6 DEF IInv

LEMMA TickInv ==
  ASSUME IInv, Tick
  PROVE  IInv'
<1>1. TypeOK'
  BY CleanupAssumption DEF IInv, TypeOK, Tick
<1>2. \A s \in Sessions : RunOut(s) => RunOut(s)'
  <2> SUFFICES ASSUME NEW s \in Sessions, RunOut(s) PROVE RunOut(s)'
    OBVIOUS
  <2>1. now \in Nat /\ now' = now + 1 /\ UNCHANGED sess
    BY CleanupAssumption DEF IInv, TypeOK, Tick
  <2>2. sess[s].done \in Nat \cup {None}
    BY CleanupAssumption DEF IInv, TypeOK, Session
  <2> QED
    BY <2>1, <2>2, CleanupAssumption DEF RunOut
<1>3. Told' /\ Memories'
  BY <1>2, OthersInv DEF Tick
<1>4. Ends'
  BY DEF IInv, Ends, EndOK, Tick
<1> QED
  BY <1>1, <1>3, <1>4 DEF IInv

\* A step that changes one session and leaves its end alone.
LEMMA SessionInv ==
  ASSUME IInv, NEW s \in Sessions, NEW x \in Session, sess' = [sess EXCEPT ![s] = x],
         x.done = sess[s].done, sess[s].st = "expired" => x.st = "expired",
         s \in reset \/ EndOK(s) => EndOK(s)' \/ s \in reset,
         UNCHANGED <<now, trial, row, repo, request, job, wk, history, faults>>
  PROVE  IInv'
<1>1. sess \in [Sessions -> Session]
  BY DEF IInv, TypeOK
<1>2. TypeOK'
  BY <1>1 DEF IInv, TypeOK
<1>3. \A t \in Sessions : RunOut(t) => RunOut(t)'
  BY <1>1 DEF RunOut
<1>4. Told' /\ Memories'
  BY <1>3, OthersInv
<1>5. Ends'
  BY <1>1 DEF IInv, Ends, EndOK
<1> QED
  BY <1>2, <1>4, <1>5 DEF IInv

LEMMA StartInv ==
  ASSUME IInv, NEW s \in Sessions, Start(s)
  PROVE  IInv'
<1> DEFINE x == [sess[s] EXCEPT !.st = "in_progress"]
<1>1. sess \in [Sessions -> Session]
  BY DEF IInv, TypeOK
<1>2. /\ x \in Session /\ x.done = sess[s].done /\ sess' = [sess EXCEPT ![s] = x]
      /\ sess[s].st # "expired"
  BY <1>1 DEF Start, Session
<1>3. EndOK(s) => EndOK(s)'
  BY <1>1 DEF Start, EndOK, Session
<1> QED
  BY <1>2, <1>3, SessionInv DEF Start

LEMMA DayPassesInv ==
  ASSUME IInv, NEW s \in Sessions, DayPasses(s)
  PROVE  IInv'
<1> DEFINE x == [sess[s] EXCEPT !.open = FALSE]
<1>1. sess \in [Sessions -> Session]
  BY DEF IInv, TypeOK
<1>2. /\ x \in Session /\ x.done = sess[s].done /\ sess' = [sess EXCEPT ![s] = x]
      /\ sess[s].st # "expired"
  BY <1>1 DEF DayPasses, Session
<1>3. EndOK(s) => EndOK(s)'
  BY <1>1 DEF DayPasses, EndOK, Session
<1> QED
  BY <1>2, <1>3, SessionInv DEF DayPasses

LEMMA BeginInv ==
  ASSUME IInv, NEW s \in Sessions, Begin(s)
  PROVE  IInv'
<1>1. TypeOK'
  BY DEF IInv, TypeOK, Begin
<1>2. \A t \in Sessions : RunOut(t)' = RunOut(t)
  BY DEF RunOut, Begin
<1>3. Told' /\ Memories'
  BY <1>2, OthersInv DEF Begin
<1>4. Ends'
  BY DEF IInv, Ends, EndOK, Begin
<1> QED
  BY <1>1, <1>3, <1>4 DEF IInv

LEMMA ActInv ==
  ASSUME IInv, NEW s \in Sessions, Act(s)
  PROVE  IInv'
<1>1. repo \in [Sessions -> RepoStates] /\ request \in [Sessions -> BOOLEAN]
  BY DEF IInv, TypeOK
<1>2. repo' \in [Sessions -> RepoStates] /\ request' \in [Sessions -> BOOLEAN]
  BY <1>1 DEF Act, Reopened, RepoStates
<1>3. TypeOK'
  BY <1>2 DEF IInv, TypeOK, Act
<1>4. \A t \in Sessions : repo[t] # "live" => repo'[t] # "live"
  BY <1>1 DEF Act, Reopened
<1>5. \A t \in Sessions : RunOut(t)' = RunOut(t)
  BY DEF RunOut, Act
<1>6. Told' /\ Memories'
  BY <1>4, <1>5, OthersInv DEF Act
<1>7. Ends'
  BY DEF IInv, Ends, EndOK, Act
<1> QED
  BY <1>3, <1>6, <1>7 DEF IInv

LEMMA CutOffInv ==
  ASSUME IInv, NEW s \in Sessions, CutOff(s)
  PROVE  IInv'
<1>1. /\ sess \in [Sessions -> Session] /\ row \in [Sessions -> Record]
      /\ wk \in [Workers -> Worker]
  BY DEF IInv, TypeOK
<1>2. /\ \E audited \in BOOLEAN : sess' = [sess EXCEPT ![s].audited = audited]
      /\ faults' \in Nat
  <2>1. sess = [sess EXCEPT ![s].audited = sess[s].audited]
    BY <1>1 DEF Session
  <2>2. sess[s].audited \in BOOLEAN
    BY <1>1 DEF Session
  <2>3. faults' \in Nat
    BY DEF CutOff, Fault, IInv, TypeOK
  <2>4. CASE UNCHANGED sess
    BY <2>1, <2>2, <2>3, <2>4
  <2>5. CASE sess' = [sess EXCEPT ![s].audited = TRUE]
    BY <2>3, <2>5, Zenon
  <2> QED
    BY <2>4, <2>5 DEF CutOff
<1>3. /\ sess' \in [Sessions -> Session]
      /\ \A t \in Sessions : sess'[t].done = sess[t].done /\ sess'[t].st = sess[t].st
  BY <1>1, <1>2 DEF Session
<1>4. /\ row' \in [Sessions -> Record]
      /\ \A t \in Sessions : row'[t].cleaned = row[t].cleaned
  <2> DEFINE r == [row[s] EXCEPT !.revoked = TRUE, !.error = FALSE]
  <2>1. r \in Record /\ r.cleaned = row[s].cleaned
    BY <1>1 DEF Record
  <2>2. row' = [row EXCEPT ![s] = r]
    BY <1>1 DEF CutOff, Record
  <2> HIDE DEF r
  <2> QED
    BY <1>1, <2>1, <2>2
<1>5. TypeOK'
  BY <1>2, <1>3, <1>4 DEF IInv, TypeOK, CutOff
<1>6. Told'
  BY <1>4 DEF IInv, Told, CutOff
<1>7. Ends'
  BY <1>3 DEF IInv, Ends, EndOK, CutOff
<1>8. \A t \in Sessions : RunOut(t)' = RunOut(t)
  BY <1>3 DEF RunOut, CutOff
<1>9. ASSUME NEW w \in Workers PROVE MemoryOK(wk[w])'
  <2>1. MemoryOK(wk[w]) /\ wk' = wk /\ repo' = repo /\ reset' = reset
    BY DEF IInv, Memories, CutOff
  <2>2. DOMAIN wk[w].todo \subseteq Sessions
    BY <1>1, TodoFacts
  <2> QED
    BY <1>8, <2>1, <2>2 DEF MemoryOK, TargetOK
<1> QED
  BY <1>5, <1>6, <1>7, <1>9 DEF IInv, Memories

\* A retention that has run out stays so: a completed session is not completed
\* again, but for a reset.
LEMMA SubmitInv ==
  ASSUME IInv, NEW s \in Sessions, Submit(s)
  PROVE  IInv'
<1>1. sess \in [Sessions -> Session] /\ now \in 0..Horizon
  BY DEF IInv, TypeOK
<1>2. sess' \in [Sessions -> Session]
  BY <1>1 DEF Submit, Session
<1>3. TypeOK'
  BY <1>2 DEF IInv, TypeOK, Submit
<1>4. now # None
  BY <1>1, CleanupAssumption, NoneAssumption
<1>5. Ends'
  BY <1>1, <1>4 DEF IInv, Ends, EndOK, Submit, Session
<1>6. \A t \in Sessions : RunOut(t) \/ t \in reset => (RunOut(t) \/ t \in reset)'
  <2>1. s \in reset \/ ~RunOut(s)
    BY <1>1 DEF IInv, Ends, EndOK, Submit, RunOut
  <2> QED
    BY <1>1, <2>1 DEF RunOut, Submit
<1>7. Told' /\ Memories'
  BY <1>6, OthersInv DEF Submit
<1> QED
  BY <1>3, <1>5, <1>7 DEF IInv

LEMMA EnqueuedType ==
  ASSUME TypeOK, NEW j \in Jobs
  PROVE  Enqueued(j) \in [Jobs -> [st : Queue!Claimable \cup Queue!Outcomes \cup {"absent"},
                                   attempt : Nat]]
  BY DEF TypeOK, Enqueued, Queue!Claimable

LEMMA EnqueueRunInv ==
  ASSUME IInv, NEW k \in RunKeys, EnqueueRun(k)
  PROVE  IInv'
<1>1. TypeOK'
  BY EnqueuedType DEF IInv, TypeOK, EnqueueRun, Jobs
<1>2. \A t \in Sessions : RunOut(t)' = RunOut(t)
  BY DEF RunOut, EnqueueRun
<1>3. Told' /\ Memories'
  BY <1>2, OthersInv DEF EnqueueRun
<1>4. Ends'
  BY DEF IInv, Ends, EndOK, EnqueueRun
<1> QED
  BY <1>1, <1>3, <1>4 DEF IInv

LEMMA TerminateInv ==
  ASSUME IInv, Terminate
  PROVE  IInv'
<1>1. sess \in [Sessions -> Session]
  BY DEF IInv, TypeOK
<1>2. /\ sess' \in [Sessions -> Session]
      /\ \A t \in Sessions : /\ sess'[t].done = sess[t].done
                             /\ sess[t].st = "completed" <=> sess'[t].st = "completed"
                             /\ sess[t].st = "expired" => sess'[t].st = "expired"
  BY <1>1 DEF Terminate, Session
<1>3. TypeOK'
  BY <1>2, EnqueuedType DEF IInv, TypeOK, Terminate, Jobs
<1>4. \A t \in Sessions : RunOut(t) => RunOut(t)'
  BY <1>2 DEF RunOut, Terminate
<1>5. Told' /\ Memories'
  BY <1>4, OthersInv DEF Terminate
<1>6. Ends'
  BY <1>2 DEF IInv, Ends, EndOK, Terminate
<1> QED
  BY <1>3, <1>5, <1>6 DEF IInv

LEMMA ReviveInv ==
  ASSUME IInv, Revive
  PROVE  IInv'
<1>1. TypeOK'
  BY DEF IInv, TypeOK, Revive, Fault
<1>2. \A t \in Sessions : RunOut(t)' = RunOut(t)
  BY DEF RunOut, Revive
<1>3. Told' /\ Memories'
  BY <1>2, OthersInv DEF Revive
<1>4. Ends'
  BY DEF IInv, Ends, EndOK, Revive
<1> QED
  BY <1>1, <1>3, <1>4 DEF IInv

LEMMA ResetInv ==
  ASSUME IInv, NEW s \in Sessions, Reset(s)
  PROVE  IInv'
<1>1. sess \in [Sessions -> Session] /\ faults' \in Nat /\ reset' = reset \cup {s}
  BY DEF IInv, TypeOK, Reset, Fault
<1>2. PICK st \in {"not_started", "in_progress"} :
        sess' = [sess EXCEPT ![s].st = st, ![s].done = None, ![s].open = TRUE]
  BY DEF Reset
<1>3. /\ sess' \in [Sessions -> Session]
      /\ \A t \in Sessions \ {s} : sess'[t] = sess[t]
  <2>1. [sess[s] EXCEPT !.st = st, !.done = None, !.open = TRUE] \in Session
    <3>1. sess[s] \in Session
      BY <1>1
    <3> QED
      BY <3>1 DEF Session
  <2>2. sess' = [sess EXCEPT ![s] =
                   [sess[s] EXCEPT !.st = st, !.done = None, !.open = TRUE]]
    BY <1>2
  <2> QED
    BY <1>1, <2>1, <2>2
<1>4. TypeOK'
  BY <1>1, <1>3 DEF IInv, TypeOK, Reset
<1>5. \A t \in Sessions : RunOut(t) \/ t \in reset => (RunOut(t) \/ t \in reset)'
  BY <1>1, <1>3 DEF RunOut, Reset
<1>6. Told' /\ Memories'
  BY <1>5, OthersInv DEF Reset
<1>7. Ends'
  BY <1>1, <1>3 DEF IInv, Ends, EndOK, Reset
<1> QED
  BY <1>4, <1>6, <1>7 DEF IInv

-----------------------------------------------------------------------------
(* Runs *)

LEMMA ClaimInv ==
  ASSUME IInv, NEW w \in Workers, NEW j \in Jobs, Claim(w, j)
  PROVE  IInv'
<1> DEFINE m == [Idle EXCEPT !.pc = "claimed", !.job = j, !.attempt = job[j].attempt + 1]
           Rows == [st : Queue!Claimable \cup Queue!Outcomes \cup {"absent"}, attempt : Nat]
<1>1. job \in [Jobs -> Rows] /\ wk' = [wk EXCEPT ![w] = m]
  BY DEF IInv, TypeOK, Claim, Goes
<1>2. m \in Worker /\ DOMAIN m.todo = {} /\ m.pc = "claimed"
  <2>1. job[j].attempt + 1 \in Nat
    BY <1>1
  <2>2. Idle \in Worker /\ DOMAIN Idle.todo = {}
    BY Constants
  <2> QED
    BY <2>1, <2>2 DEF Worker
<1>3. MemoryOK(m)
  BY <1>2 DEF MemoryOK
<1>4. job' \in [Jobs -> Rows]
  BY <1>1 DEF Claim, Queue!Claimable
<1>5. faults' \in Nat
  BY DEF IInv, TypeOK, Claim, Fault
<1> HIDE DEF m
<1> QED
  BY <1>1, <1>2, <1>3, <1>4, <1>5, WorkerInv DEF Claim

\* What a listing says of a target is true at its moment.
LEMMA ListedOK ==
  ASSUME IInv, NEW j, j # TrialCleanup \/ trial # "live", NEW s \in Sessions
  PROVE  TargetOK(Listed(j)[s], s)
<1>1. /\ Listed(j)[s].row = row[s]
      /\ Listed(j)[s].due = (Eligible(s) /\ Expired(s, j))
      /\ Listed(j)[s].over = (trial = "terminated")
  BY DEF Listed
<1>2. Listed(j)[s].row.cleaned => repo[s] # "live"
  BY <1>1 DEF IInv, Told
<1>3. ASSUME Eligible(s), Expired(s, j), trial # "terminated", s \notin reset
      PROVE  RunOut(s)
  <2>1. CASE sess[s].st = "expired"
    BY <2>1 DEF RunOut
  <2>2. CASE sess[s].st # "expired"
    <3>1. sess[s].done # None /\ j # TrialCleanup
      BY <1>3, <2>2 DEF IInv, TypeOK, Ends, EndOK, Eligible
    <3> QED
      BY <1>3, <3>1 DEF Expired, Anchor, RunOut
  <2> QED
    BY <2>1, <2>2
<1> QED
  BY <1>1, <1>2, <1>3 DEF TargetOK

LEMMA ListInv ==
  ASSUME IInv, NEW w \in Workers, List(w)
  PROVE  IInv'
<1> DEFINE j == wk[w].job
           nothing == j = TrialCleanup /\ trial = "live"
           S == IF nothing THEN {} ELSE Sessions
           f == IF nothing THEN NoTargets ELSE Listed(j)
           m == Proceed(wk[w], f)
<1>1. wk[w] \in Worker /\ wk' = [wk EXCEPT ![w] = m]
  BY DEF IInv, TypeOK, List, Goes
<1>2. S \in SUBSET Sessions /\ f \in [S -> Target]
  BY ListedType DEF IInv, NoTargets
<1>3. \A s \in S : TargetOK(f[s], s)
  BY ListedOK
<1> HIDE DEF S, f
<1>4. /\ m \in Worker /\ m.pc \in {"done", "target"}
      /\ \A s \in DOMAIN m.todo : s \in S /\ m.todo[s] = f[s]
  BY <1>1, <1>2, ProceedType
<1>5. MemoryOK(m)
  BY <1>3, <1>4 DEF MemoryOK
<1> HIDE DEF m
<1> QED
  BY <1>1, <1>4, <1>5, WorkerInv DEF List, IInv, TypeOK

LEMMA ReportInv ==
  ASSUME IInv, NEW w \in Workers, Report(w)
  PROVE  IInv'
<1> DEFINE Rows == [st : Queue!Claimable \cup Queue!Outcomes \cup {"absent"}, attempt : Nat]
<1>1. job' \in [Jobs -> Rows]
  <2>1. Outcome(w) \in Queue!Outcomes
    BY DEF Outcome, Queue!Outcomes
  <2> QED
    BY <2>1 DEF IInv, TypeOK, Report
<1>2. wk' = [wk EXCEPT ![w] = Idle] /\ MemoryOK(Idle)
  BY Constants DEF Report, Goes, MemoryOK, Idle
<1> QED
  BY <1>1, <1>2, Constants, WorkerInv DEF Report, IInv, TypeOK

LEMMA CrashInv ==
  ASSUME IInv, NEW w \in Workers, Crash(w)
  PROVE  IInv'
<1>1. wk' = [wk EXCEPT ![w] = Idle] /\ MemoryOK(Idle) /\ faults' \in Nat
  BY Constants DEF Crash, Goes, MemoryOK, Idle, Fault, IInv, TypeOK
<1> QED
  BY <1>1, Constants, WorkerInv DEF Crash, IInv, TypeOK

\* A run goes on after a commit with some of the targets it had left.
LEMMA CommitGoes ==
  ASSUME IInv, NEW w \in Workers, Commit(w)
  PROVE  \E m \in Worker :
           /\ wk' = [wk EXCEPT ![w] = m]
           /\ m = IF wk[w].target = "retry" THEN Ended(wk[w], "retry")
                  ELSE Proceed(wk[w], wk[w].todo)
           /\ m.pc \in {"done", "target"}
           /\ \A t \in DOMAIN m.todo :
                t \in DOMAIN wk[w].todo /\ m.todo[t] = wk[w].todo[t]
<1> DEFINE a == wk[w]
           m == IF a.target = "retry" THEN Ended(a, "retry") ELSE Proceed(a, a.todo)
<1>1. a \in Worker /\ wk' = [wk EXCEPT ![w] = m]
  BY DEF IInv, TypeOK, Commit, Goes
<1>2. PICK S \in SUBSET Sessions : a.todo \in [S -> Target]
  BY <1>1 DEF Worker
<1>3. CASE a.target = "retry"
  BY <1>1, <1>3, EndedType
<1>4. CASE a.target # "retry"
  <2>1. m = Proceed(a, a.todo)
    BY <1>4
  <2> HIDE DEF m
  <2>2. /\ m \in Worker /\ m.pc \in {"done", "target"}
        /\ \A t \in DOMAIN m.todo : t \in S /\ m.todo[t] = a.todo[t]
    BY <1>1, <1>2, <2>1, ProceedType
  <2>3. m = IF a.target = "retry" THEN Ended(a, "retry") ELSE Proceed(a, a.todo)
    BY DEF m
  <2> QED
    BY <1>1, <1>2, <2>2, <2>3
<1> QED
  BY <1>3, <1>4

LEMMA CommitInv ==
  ASSUME IInv, NEW w \in Workers, Commit(w)
  PROVE  IInv'
<1> DEFINE a == wk[w]
           s == a.at
           c == Changed(a.listed, a.new, row[s])
<1>1. a \in Worker /\ a.pc = "writing" /\ MemoryOK(a)
  BY DEF IInv, TypeOK, Memories, Commit
<1>2. s \in Sessions
  BY <1>1 DEF MemoryOK
<1>3. a.new \in Record /\ a.listed \in Record /\ row[s] \in Record
  BY <1>1, <1>2 DEF Worker, IInv, TypeOK
<1>4. c \in Record /\ (c.cleaned => repo[s] # "live")
  BY <1>1, <1>2, <1>3, ChangedType DEF MemoryOK, IInv, Told
<1>5. PICK m \in Worker :
        /\ wk' = [wk EXCEPT ![w] = m]
        /\ m = IF a.target = "retry" THEN Ended(a, "retry") ELSE Proceed(a, a.todo)
        /\ m.pc \in {"done", "target"}
        /\ \A t \in DOMAIN m.todo : t \in DOMAIN a.todo /\ m.todo[t] = a.todo[t]
  BY CommitGoes
<1>6. MemoryOK(m)
  BY <1>1, <1>5 DEF MemoryOK
<1>7. /\ row' = [row EXCEPT ![s] = c]
      /\ tried' \in {tried, tried \cup {s}} /\ pended' \in {pended, pended \cup {s}}
      /\ UNCHANGED <<now, trial, sess, repo, request, job, reset, revived, faults>>
  BY DEF Commit
<1> HIDE DEF c, a, s
<1>8. TypeOK' /\ Told'
  BY <1>2, <1>4, <1>5, <1>7 DEF IInv, TypeOK, Told
<1>9. Ends'
  BY <1>7 DEF IInv, Ends, EndOK
<1>10. \A v \in Workers : MemoryOK(wk'[v])
  BY <1>5, <1>6 DEF IInv, TypeOK, Memories
<1>11. Memories'
  BY <1>7, <1>10 DEF Memories, MemoryOK, TargetOK, RunOut
<1> QED
  BY <1>8, <1>9, <1>11 DEF IInv

Targets == {"none", "succeeded", "retry"}

\* The run with a target to be committed.
Processing(m, s, new, target) ==
  [m EXCEPT !.pc = "writing", !.at = s, !.listed = m.todo[s].row, !.new = new,
            !.target = target, !.todo = [t \in DOMAIN m.todo \ {s} |-> m.todo[t]]]

\* What a run makes of the record it has read: it takes no cleaning back, writes
\* what closes the repository with the date, and leaves a target that was due as
\* failed or closed.
Rewritten(old, new) ==
  /\ old.cleaned => new.cleaned
  /\ new.st # old.st => /\ new.st # "none"
                        /\ new.st \in {"archived", "deleted"} => new.cleaned

Written(t, new) ==
  /\ Rewritten(t.row, new)
  /\ t.due => new.st \in {"failed", "archived", "deleted"}

\* What a run does to a target: the repository is left alone or closed, the
\* latter only when it was due at the listing.
Processed(w, s, new, target, to) ==
  /\ wk' = [wk EXCEPT ![w] = Processing(wk[w], s, new, target)]
  /\ repo' = [repo EXCEPT ![s] = to]
  /\ to \in {repo[s], Closed}
  /\ new.cleaned => to # "live"
  /\ to # repo[s] => wk[w].todo[s].due
  /\ Written(wk[w].todo[s], new)

LEMMA ProcessingType ==
  ASSUME NEW m \in Worker, NEW s \in DOMAIN m.todo, NEW new \in Record, NEW target \in Targets
  PROVE  /\ Processing(m, s, new, target) \in Worker
         /\ Processing(m, s, new, target) =
              [pc |-> "writing", job |-> m.job, attempt |-> m.attempt,
               todo |-> [t \in DOMAIN m.todo \ {s} |-> m.todo[t]], at |-> s,
               listed |-> m.todo[s].row, new |-> new, target |-> target]
<1>1. /\ s \in Sessions /\ m.todo[s].row \in Record /\ DOMAIN m.todo \subseteq Sessions
      /\ \A t \in DOMAIN m.todo : m.todo[t] \in Target
  BY TodoFacts DEF Target
<1> DEFINE S == DOMAIN m.todo \ {s}
           f == [t \in S |-> m.todo[t]]
<1>2. S \in SUBSET Sessions /\ f \in [S -> Target]
  BY <1>1
<1>3. f \in UNION {[T -> Target] : T \in SUBSET Sessions}
  BY <1>2
<1> HIDE DEF f
<1>4. Processing(m, s, new, target) =
        [m EXCEPT !.pc = "writing", !.at = s, !.listed = m.todo[s].row, !.new = new,
                  !.target = target, !.todo = f]
  BY DEF Processing, f
<1>5. Processing(m, s, new, target) =
        [pc |-> "writing", job |-> m.job, attempt |-> m.attempt, todo |-> f, at |-> s,
         listed |-> m.todo[s].row, new |-> new, target |-> target]
  BY <1>4 DEF Worker
<1>6. Processing(m, s, new, target) \in Worker
  BY <1>1, <1>3, <1>5 DEF Worker, Targets
<1> QED
  BY <1>5, <1>6 DEF f

\* A revocation fails or leaves the status.
LEMMA RevocationWrites ==
  ASSUME NEW t \in Target, NEW x \in Revocations(t)
  PROVE  /\ x.then = "close" => x.row.st = t.row.st
         /\ x.then # "close" => /\ x.row.st \in {"failed", "archived", "deleted"}
                                /\ x.row.st # t.row.st => x.row.st = "failed"
<1>1. t.row \in Record
  BY DEF Target
<1> DEFINE removed == [t.row EXCEPT !.revoked = TRUE, !.error = FALSE]
           refused == [t.row EXCEPT !.error = TRUE]
           lost == [refused EXCEPT !.st = "failed"]
           marked == Marked(refused, "failed")
<1>2. removed.st = t.row.st /\ refused.st = t.row.st /\ lost.st = "failed"
  BY <1>1 DEF Record
<1>3. /\ marked.st \in {"failed", "archived", "deleted"}
      /\ marked.st # t.row.st => marked.st = "failed"
  BY <1>1, <1>2 DEF Marked, Complete, Record
<1>4. x \in {After(t.row, "close"), After(removed, "close"), After(marked, "none"),
             After(lost, "retry")}
  BY DEF Revocations
<1> HIDE DEF removed, refused, lost, marked
<1>5. \A r, then : After(r, then).row = r /\ After(r, then).then = then
  BY DEF After
<1>6. CASE x = After(t.row, "close")
  BY <1>5, <1>6
<1>7. CASE x = After(removed, "close")
  BY <1>2, <1>5, <1>7
<1>8. CASE x = After(marked, "none")
  BY <1>3, <1>5, <1>8
<1>9. CASE x = After(lost, "retry")
  BY <1>2, <1>5, <1>9
<1> QED
  BY <1>4, <1>6, <1>7, <1>8, <1>9

LEMMA ProcessFacts ==
  ASSUME IInv, NEW w \in Workers, NEW s \in Sessions, Process(w, s)
  PROVE  \E new \in Record, target \in Targets, to \in RepoStates :
           Processed(w, s, new, target, to)
<1> DEFINE t == wk[w].todo[s]
<1>1. wk[w] \in Worker /\ MemoryOK(wk[w]) /\ s \in DOMAIN wk[w].todo
  BY DEF IInv, TypeOK, Memories, Process
<1>2. t \in Target /\ (t.row.cleaned => repo[s] # "live") /\ t.row \in Record
  BY <1>1, TodoFacts DEF MemoryOK, TargetOK, Target
<1>3. /\ repo \in [Sessions -> RepoStates] /\ repo[s] \in RepoStates
      /\ repo = [repo EXCEPT ![s] = repo[s]]
  BY DEF IInv, TypeOK
<1>4. \A new, target :
        Writes(w, s, new, target)
          => wk' = [wk EXCEPT ![w] = Processing(wk[w], s, new, target)]
  BY DEF Writes, Goes, Processing
<1>5. PICK x \in Revocations(t) :
        IF x.then # "close" THEN Writes(w, s, x.row, x.then) /\ UNCHANGED repo
        ELSE IF t.due THEN Close(w, s, x.row)
        ELSE Writes(w, s, Marked(x.row, "pending"), "none") /\ UNCHANGED repo
  BY DEF Process
<1>6. /\ x.row \in Record /\ x.row.cleaned = t.row.cleaned
      /\ x.then \in {"close", "none", "retry"}
  BY <1>2, <1>5, RevocationType
<1>7. /\ x.then = "close" => x.row.st = t.row.st
      /\ x.then # "close" => /\ x.row.st \in {"failed", "archived", "deleted"}
                             /\ x.row.st # t.row.st => x.row.st = "failed"
  BY <1>2, <1>5, RevocationWrites
\* A record written without a call to close the repository.
<1>8. ASSUME NEW new \in Record, NEW target \in Targets, new.cleaned = t.row.cleaned,
             Writes(w, s, new, target), UNCHANGED repo, Written(t, new)
      PROVE  Processed(w, s, new, target, repo[s])
  BY <1>2, <1>3, <1>4, <1>8 DEF Processed
<1>9. CASE x.then # "close"
  <2>1. x.then \in Targets
    BY <1>6, <1>9 DEF Targets
  <2>2. Written(t, x.row)
    BY <1>6, <1>7, <1>9 DEF Written, Rewritten
  <2>3. Processed(w, s, x.row, x.then, repo[s])
    BY <1>5, <1>6, <1>8, <1>9, <2>1, <2>2
  <2> QED
    BY <1>3, <1>6, <2>1, <2>3
<1>10. CASE x.then = "close" /\ ~t.due
  <2> DEFINE new == Marked(x.row, "pending")
  <2>1. new \in Record /\ new.cleaned = t.row.cleaned /\ new.st \in {x.row.st, "pending"}
    BY <1>6, MarkedType DEF Marked, Record
  <2>2. Written(t, new)
    BY <1>7, <1>10, <2>1 DEF Written, Rewritten
  <2>3. Writes(w, s, new, "none") /\ UNCHANGED repo
    BY <1>5, <1>10
  <2> HIDE DEF new
  <2>4. Processed(w, s, new, "none", repo[s])
    BY <1>8, <2>1, <2>2, <2>3 DEF Targets
  <2> QED
    BY <1>3, <2>1, <2>4 DEF Targets
<1>11. CASE x.then = "close" /\ t.due /\ Complete(x.row)
  <2>1. Writes(w, s, x.row, "none") /\ UNCHANGED repo
    BY <1>5, <1>11 DEF Close
  <2>2. Written(t, x.row)
    BY <1>6, <1>7, <1>11 DEF Written, Rewritten, Complete
  <2>3. Processed(w, s, x.row, "none", repo[s])
    BY <1>6, <1>8, <2>1, <2>2 DEF Targets
  <2> QED
    BY <1>3, <1>6, <2>3 DEF Targets
<1>12. CASE x.then = "close" /\ t.due /\ ~Complete(x.row)
  <2>1. PICK o \in Outcomes(repo[s]) :
          /\ repo' = [repo EXCEPT ![s] = o.to]
          /\ Writes(w, s, [x.row EXCEPT !.st = o.st,
                             !.cleaned = x.row.cleaned \/ o.st # "failed"], o.then)
    BY <1>5, <1>12 DEF Close
  <2>2. /\ o.to \in {repo[s], Closed} /\ o.to \in RepoStates
        /\ o.st \in {"failed", "archived", "deleted"} /\ o.then \in {"none", "retry"}
        /\ o.st # "failed" => o.to # "live"
    BY <1>3, <2>1, OutcomeType
  <2> DEFINE new == [x.row EXCEPT !.st = o.st, !.cleaned = x.row.cleaned \/ o.st # "failed"]
  <2>3. /\ new \in Record /\ new.st = o.st
        /\ new.cleaned <=> x.row.cleaned \/ o.st # "failed"
    BY <1>6, <2>2 DEF Record
  <2>4. new.cleaned => o.to # "live"
    BY <1>2, <1>6, <2>2, <2>3, CleanupAssumption
  <2>5. wk' = [wk EXCEPT ![w] = Processing(wk[w], s, new, o.then)]
    BY <1>4, <2>1
  <2> HIDE DEF new
  <2>6. Written(t, new)
    BY <1>6, <2>2, <2>3 DEF Written, Rewritten
  <2>7. Processed(w, s, new, o.then, o.to)
    BY <1>12, <2>1, <2>2, <2>4, <2>5, <2>6 DEF Processed
  <2> QED
    BY <2>2, <2>3, <2>7 DEF Targets
<1> QED
  BY <1>9, <1>10, <1>11, <1>12

LEMMA ProcessInv ==
  ASSUME IInv, NEW w \in Workers, NEW s \in Sessions, Process(w, s)
  PROVE  IInv'
<1>1. PICK new \in Record, target \in Targets, to \in RepoStates :
        Processed(w, s, new, target, to)
  BY ProcessFacts
<1> DEFINE m == Processing(wk[w], s, new, target)
<1>2. /\ wk \in [Workers -> Worker] /\ repo \in [Sessions -> RepoStates]
      /\ s \in DOMAIN wk[w].todo /\ wk[w] \in Worker
      /\ UNCHANGED <<now, trial, sess, row, request, job, history, faults>>
  BY DEF IInv, TypeOK, Process
<1>3. /\ m \in Worker /\ m.at = s /\ m.new = new
      /\ DOMAIN m.todo = DOMAIN wk[w].todo \ {s}
      /\ \A r \in DOMAIN m.todo : m.todo[r] = wk[w].todo[r]
  <2> HIDE DEF m
  <2>1. /\ m \in Worker
        /\ m = [pc |-> "writing", job |-> wk[w].job, attempt |-> wk[w].attempt,
                todo |-> [r \in DOMAIN wk[w].todo \ {s} |-> wk[w].todo[r]], at |-> s,
                listed |-> wk[w].todo[s].row, new |-> new, target |-> target]
    BY <1>2, ProcessingType DEF m
  <2> QED
    BY <2>1
<1> HIDE DEF m
<1>4. /\ wk' = [wk EXCEPT ![w] = m] /\ repo' = [repo EXCEPT ![s] = to]
      /\ to \in {repo[s], Closed} /\ (new.cleaned => to # "live")
  BY <1>1 DEF Processed, m
<1>5. \A r \in Sessions : repo[r] # "live" => repo'[r] # "live"
  BY <1>2, <1>4, CleanupAssumption
<1>6. TypeOK'
  BY <1>2, <1>3, <1>4 DEF IInv, TypeOK
<1>7. Told' /\ Ends'
  BY <1>2, <1>5 DEF IInv, Told, Ends, EndOK
<1>8. \A r \in Sessions : RunOut(r)' = RunOut(r)
  BY <1>2 DEF RunOut
<1>9. \A r \in Sessions, x \in Target : TargetOK(x, r) => TargetOK(x, r)'
  BY <1>2, <1>5, <1>8 DEF TargetOK
<1>10. ASSUME NEW v \in Workers, v # w PROVE MemoryOK(wk[v])'
  <2>1. wk'[v] = wk[v] /\ MemoryOK(wk[v]) /\ wk[v] \in Worker
    BY <1>2, <1>4, <1>10 DEF IInv, Memories
  <2>2. /\ DOMAIN wk[v].todo \subseteq Sessions
        /\ \A r \in DOMAIN wk[v].todo : wk[v].todo[r] \in Target
    BY <2>1, TodoFacts
  <2> QED
    BY <1>5, <1>9, <2>1, <2>2 DEF MemoryOK
<1>11. MemoryOK(wk[w])'
  <2>1. wk'[w] = m /\ MemoryOK(wk[w])
    BY <1>2, <1>4 DEF IInv, Memories
  <2>2. /\ DOMAIN wk[w].todo \subseteq Sessions
        /\ \A r \in DOMAIN wk[w].todo : wk[w].todo[r] \in Target
    BY <1>2, TodoFacts
  <2>3. repo'[s] = to
    BY <1>2, <1>4
  <2> QED
    BY <1>3, <1>4, <1>9, <2>1, <2>2, <2>3 DEF MemoryOK
<1>12. Memories'
  BY <1>10, <1>11 DEF Memories
<1> QED
  BY <1>6, <1>7, <1>12 DEF IInv

LEMMA NextInv == IInv /\ [Next]_vars => IInv'
<1> SUFFICES ASSUME IInv, [Next]_vars PROVE IInv'
  OBVIOUS
<1>1. CASE UNCHANGED vars
  BY <1>1 DEF vars, IInv, TypeOK, Told, Ends, EndOK, Memories, MemoryOK, TargetOK, RunOut
<1>2. CASE Tick
  BY <1>2, TickInv
<1>3. CASE Terminate \/ Revive
  BY <1>3, TerminateInv, ReviveInv
<1>4. ASSUME NEW s \in Sessions, Candidate(s) \/ Reset(s) PROVE IInv'
  BY <1>4, StartInv, DayPassesInv, BeginInv, ActInv, CutOffInv, SubmitInv, ResetInv
     DEF Candidate
<1>5. ASSUME NEW k \in RunKeys, EnqueueRun(k) PROVE IInv'
  BY <1>5, EnqueueRunInv
<1>6. ASSUME NEW w \in Workers, WorkerStep(w) \/ Crash(w) PROVE IInv'
  BY <1>6, ListInv, CommitInv, ReportInv, ProcessInv, CrashInv DEF WorkerStep
<1>7. ASSUME NEW w \in Workers, NEW j \in Jobs, Claim(w, j) PROVE IInv'
  BY <1>7, ClaimInv
<1> QED
  BY <1>1, <1>2, <1>3, <1>4, <1>5, <1>6, <1>7 DEF Next

LEMMA Invariance == Spec => []IInv
<1> QED
  BY InitInv, NextInv, PTL DEF Spec

-----------------------------------------------------------------------------
(* Theorems *)

\* Every reachable state of the sessions, records, repositories, jobs and runs
\* is well typed.
THEOREM TypeSafe == Spec => []TypeOK
<1>1. IInv => TypeOK
  BY DEF IInv
<1> QED
  BY <1>1, Invariance, PTL

\* No record is ever complete for a repository that no run has closed: what is
\* skipped as cleaned was cleaned (_cleanup_is_complete).
THEOREM RecordsAreTruthful == Spec => []RecordTruthful
<1>1. IInv => RecordTruthful
  BY DEF IInv, Told, RecordTruthful, Complete
<1> QED
  BY <1>1, Invariance, PTL

\* No run closes a repository whose trial lives and whose retention has not run
\* out, unless an operator has reset its session or the run has listed it before
\* an approval brought its terminated trial back (_retention_cleanup_eligible).
THEOREM RetentionIsKept == Spec => RetentionKept
<1> DEFINE Step ==
      \A s \in Sessions :
        repo[s] \in Open /\ repo'[s] \notin Open
          => ~Kept(s) \/ s \in reset \/ Outdated(s)
<1>1. ASSUME IInv, Next, NEW s \in Sessions, repo[s] \in Open, repo'[s] \notin Open
      PROVE  ~Kept(s) \/ s \in reset \/ Outdated(s)
  <2>1. ASSUME NEW w \in Workers, NEW t \in Sessions, Process(w, t)
        PROVE  ~Kept(s) \/ s \in reset \/ Outdated(s)
    <3>1. PICK new \in Record, target \in Targets, to \in RepoStates :
            Processed(w, t, new, target, to)
      BY <1>1, <2>1, ProcessFacts
    <3>2. s = t /\ wk[w].todo[s].due
      BY <1>1, <3>1 DEF IInv, TypeOK, Processed
    <3>3. MemoryOK(wk[w]) /\ wk[w].pc = "target" /\ t \in DOMAIN wk[w].todo
      BY <1>1, <2>1 DEF IInv, Memories, Process
    <3>4. RunOut(s) \/ s \in reset \/ wk[w].todo[s].over
      BY <3>2, <3>3 DEF MemoryOK, TargetOK
    <3> QED
      BY <3>2, <3>3, <3>4 DEF Kept, Outdated
  <2>2. ASSUME NEW t \in Sessions, Act(t) PROVE FALSE
    BY <1>1, <2>2 DEF Act, Reopened, Open, IInv, TypeOK
  <2>3. CASE UNCHANGED repo
    BY <1>1, <2>3
  <2> QED
    BY <1>1, <2>1, <2>2, <2>3 DEF Next, Tick, Terminate, Revive, Candidate, Start,
       DayPasses, Begin, CutOff, Submit, Reset, EnqueueRun, WorkerStep, List, Commit, Report, Crash, Claim
<1>2. IInv /\ [Next]_vars => [Step]_vars
  BY <1>1
<1> QED
  BY <1>2, Invariance, PTL DEF Spec, RetentionKept

-----------------------------------------------------------------------------
(* The cleanup jobs, as the queue's contract sees them *)

Status == [j \in Jobs |-> job[j].st]
Held == {p \in Workers \X Jobs : wk[p[1]].job = p[2]}

\* A worker that is not idle works on a job.
Busy == \A w \in Workers : wk[w].pc # "idle" => wk[w].job \in Jobs

\* The steps that keep every worker on its job.
Stays == \A w \in Workers :
  wk'[w].job = wk[w].job /\ (wk[w].pc = "idle" => wk'[w].pc = "idle")

LEMMA StaysStutter ==
  ASSUME Stays, UNCHANGED job
  PROVE  UNCHANGED <<Status, Held>>
<1>1. Status' = Status
  BY DEF Status
<1>2. Held' = Held
  BY DEF Held, Stays
<1> QED
  BY <1>1, <1>2

\* A run that lists, processes or commits goes on with its claim.
LEMMA RunKeeps ==
  ASSUME IInv, NEW w \in Workers,
         List(w) \/ Commit(w) \/ \E s \in Sessions : Process(w, s)
  PROVE  \A v \in Workers : /\ wk'[v].job = wk[v].job /\ wk'[v].attempt = wk[v].attempt
                            /\ wk'[v].pc = "idle" <=> wk[v].pc = "idle"
<1>1. wk \in [Workers -> Worker] /\ wk[w] \in Worker
  BY DEF IInv, TypeOK
<1>0. wk[w].pc # "idle"
  BY DEF List, Commit, Process
<1>2. ASSUME NEW m, m.job = wk[w].job, m.attempt = wk[w].attempt, m.pc # "idle", Goes(w, m)
      PROVE  \A v \in Workers : /\ wk'[v].job = wk[v].job /\ wk'[v].attempt = wk[v].attempt
                                /\ wk'[v].pc = "idle" <=> wk[v].pc = "idle"
  BY <1>0, <1>1, <1>2 DEF Goes
<1>3. \A target : /\ Ended(wk[w], target).job = wk[w].job
                  /\ Ended(wk[w], target).attempt = wk[w].attempt
                  /\ Ended(wk[w], target).pc = "done"
  BY <1>1 DEF Ended, Left, Worker
<1>4. \A todo : /\ Proceed(wk[w], todo).job = wk[w].job
                /\ Proceed(wk[w], todo).attempt = wk[w].attempt
                /\ Proceed(wk[w], todo).pc # "idle"
  BY <1>1, <1>3 DEF Proceed, Left, Worker
<1>5. CASE List(w)
  <2>1. \E todo : Goes(w, Proceed(wk[w], todo))
    BY <1>5 DEF List
  <2> QED
    BY <1>2, <1>4, <2>1
<1>6. CASE Commit(w)
  <2>1. Goes(w, Ended(wk[w], "retry")) \/ \E todo : Goes(w, Proceed(wk[w], todo))
    BY <1>6 DEF Commit
  <2> QED
    BY <1>2, <1>3, <1>4, <2>1
<1>7. ASSUME NEW s \in Sessions, Process(w, s)
      PROVE  \A v \in Workers : /\ wk'[v].job = wk[v].job /\ wk'[v].attempt = wk[v].attempt
                                /\ wk'[v].pc = "idle" <=> wk[v].pc = "idle"
  <2>1. PICK new \in Record, target \in Targets, to \in RepoStates :
          Processed(w, s, new, target, to)
    BY <1>7, ProcessFacts
  <2> QED
    BY <1>0, <1>1, <2>1 DEF Processed, Processing, Worker
<1> QED
  BY <1>5, <1>6, <1>7

LEMMA RunStays ==
  ASSUME IInv, NEW w \in Workers,
         List(w) \/ Commit(w) \/ \E s \in Sessions : Process(w, s)
  PROVE  Stays /\ UNCHANGED job
<1>1. Stays
  BY RunKeeps DEF Stays
<1>2. UNCHANGED job
  BY DEF List, Commit, Process
<1> QED
  BY <1>1, <1>2

LEMMA OthersStay ==
  ASSUME IInv,
         \/ Tick \/ Terminate \/ Revive \/ UNCHANGED vars
         \/ \E s \in Sessions : Candidate(s) \/ Reset(s)
         \/ \E k \in RunKeys : EnqueueRun(k)
  PROVE  Stays
  BY DEF Tick, Terminate, Revive, Candidate, Start, DayPasses, Begin, Act, CutOff,
         Submit, Reset, EnqueueRun, vars, Stays

LEMMA BusyInv == IInv /\ Busy /\ [Next]_vars => Busy'
<1> SUFFICES ASSUME IInv, Busy, [Next]_vars PROVE Busy'
  OBVIOUS
<1>0. wk \in [Workers -> Worker]
  BY DEF IInv, TypeOK
<1>1. CASE Stays
  BY <1>1 DEF Stays, Busy
<1>2. ASSUME NEW w \in Workers, NEW j \in Jobs, Claim(w, j) PROVE Busy'
  BY <1>0, <1>2 DEF Claim, Goes, Busy, Idle
<1>3. ASSUME NEW w \in Workers, Report(w) \/ Crash(w) PROVE Busy'
  BY <1>0, <1>3 DEF Report, Crash, Goes, Busy, Idle
<1> QED
  BY <1>1, <1>2, <1>3, RunStays, OthersStay DEF Next, WorkerStep

LEMMA EnqueueContract ==
  ASSUME IInv, Terminate \/ \E k \in RunKeys : EnqueueRun(k)
  PROVE  Queue!Next \/ UNCHANGED <<Status, Held>>
<1>1. PICK j \in Jobs : job' = Enqueued(j) /\ UNCHANGED wk
  BY DEF Terminate, EnqueueRun, Jobs
<1>2. CASE job[j].st = "absent"
  <2>1. \A i \in Jobs : job'[i].st = IF i \in {j} THEN "queued" ELSE job[i].st
    BY <1>1, <1>2 DEF Enqueued, IInv, TypeOK
  <2>2. Queue!Enqueue({j})
    BY <1>1, <1>2, <2>1 DEF Queue!Enqueue
  <2>3. {j} \in SUBSET Jobs
    OBVIOUS
  <2> QED
    BY <2>2, <2>3 DEF Queue!Next
<1>3. CASE job[j].st # "absent"
  BY <1>1, <1>3, StaysStutter DEF Enqueued, Stays
<1> QED
  BY <1>2, <1>3

LEMMA NextContract == IInv /\ Busy /\ [Next]_vars => [Queue!Next]_(Queue!vars)
<1> SUFFICES ASSUME IInv, Busy, [Next]_vars
             PROVE  Queue!Next \/ UNCHANGED <<Status, Held>>
  BY DEF Queue!vars, Status, Held
<1>1. CASE \/ Tick \/ Revive \/ UNCHANGED vars
           \/ \E s \in Sessions : Candidate(s) \/ Reset(s)
  <2>1. UNCHANGED job
    BY <1>1 DEF Tick, Revive, Candidate, Start, DayPasses, Begin, Act, CutOff, Submit,
                Reset, vars
  <2> QED
    BY <1>1, <2>1, OthersStay, StaysStutter
<1>2. ASSUME NEW w \in Workers, NEW j \in Jobs, Claim(w, j) PROVE Queue!Next
  BY <1>2 DEF Claim, Queue!Next, Queue!WorkerStep
<1>3. ASSUME NEW w \in Workers, Report(w) PROVE Queue!Next
  <2>1. wk[w].job \in Jobs /\ Outcome(w) \in Queue!Outcomes
    BY <1>3 DEF Report, Busy, Outcome, Queue!Outcomes
  <2>2. PICK j \in Jobs, o \in Queue!Outcomes : Queue!Report(w, j, o)
    BY <1>3, <2>1 DEF Report, Queue!Report
  <2> QED
    BY <2>2 DEF Queue!Next, Queue!WorkerStep
<1>4. ASSUME NEW w \in Workers, Crash(w) PROVE Queue!Next
  <2>1. PICK j \in Jobs : Queue!Abandon(w, j)
    BY <1>4 DEF Crash, Busy, Queue!Abandon
  <2> QED
    BY <2>1 DEF Queue!Next, Queue!WorkerStep
<1> QED
  BY <1>1, <1>2, <1>3, <1>4, EnqueueContract, RunStays, StaysStutter DEF Next, WorkerStep

\* The cleanup asks of the queue no more than its contract: its jobs are inserted
\* once, run by any worker that finds them queued or running, and end with what a
\* worker reports of the job it holds, also when a termination enqueues the
\* trial's job again (enqueue_trial_cleanup_job).
THEOREM CleanupKeepsContract == Spec => Queue!Spec
<1>1. Init => Queue!Init /\ Busy
  BY NoneAssumption DEF Init, Queue!Init, Busy, Idle
<1>2. Spec => [](IInv /\ Busy)
  BY <1>1, InitInv, NextInv, BusyInv, PTL DEF Spec
<1> QED
  BY <1>1, <1>2, NextContract, PTL DEF Spec, Queue!Spec
-----------------------------------------------------------------------------
(* The end of a repository *)

\* Nothing is left that could open the repository again.
Shut(s) == trial = "terminated" /\ ~request[s] /\ repo[s] \notin Open

\* A request that passed its gates before the termination may take a repository
\* out of the archive or create it again, and nothing else does: once a session of
\* a terminated trial has none under way, what is closed stays closed, whatever the
\* jobs, their retries and the operator's resets do, until an approval that was
\* under way brings the trial back (ensure_repo_is_active, require_trial_active).
THEOREM ClosedStaysClosed ==
  Spec => [][\A s \in Sessions :
               Shut(s) => repo'[s] \notin Open /\ (Shut(s)' \/ trial' = "live")]_vars
<1> DEFINE Step == \A s \in Sessions :
      Shut(s) => repo'[s] \notin Open /\ (Shut(s)' \/ trial' = "live")
<1>1. ASSUME IInv, Next, NEW s \in Sessions, Shut(s)
      PROVE  repo'[s] \notin Open /\ (Shut(s)' \/ trial' = "live")
  <2>0. repo \in [Sessions -> RepoStates] /\ request \in [Sessions -> BOOLEAN]
    BY <1>1 DEF IInv, TypeOK
  <2>1. CASE UNCHANGED <<trial, request, repo>>
    BY <1>1, <2>1 DEF Shut
  <2>2. CASE Terminate \/ Revive
    BY <1>1, <2>2 DEF Terminate, Revive, Shut
  <2>3. ASSUME NEW t \in Sessions, Begin(t) \/ Act(t) PROVE repo'[s] \notin Open /\ Shut(s)'
    BY <1>1, <2>0, <2>3 DEF Begin, Act, Reopened, Shut
  <2>4. ASSUME NEW w \in Workers, NEW t \in Sessions, Process(w, t)
        PROVE  repo'[s] \notin Open /\ Shut(s)'
    <3>1. PICK to \in {repo[t], Closed} : repo' = [repo EXCEPT ![t] = to]
      BY <1>1, <2>4, ProcessFacts DEF Processed
    <3>2. Closed \notin Open
      BY CleanupAssumption DEF Open
    <3> QED
      BY <1>1, <2>0, <2>4, <3>1, <3>2 DEF Process, Shut
  <2> QED
    BY <1>1, <2>1, <2>2, <2>3, <2>4 DEF Next, Tick, Candidate, Start, DayPasses,
       CutOff, Submit, Reset, EnqueueRun, WorkerStep, List, Commit, Report, Crash, Claim
<1>2. IInv /\ [Next]_vars => [Step]_vars
  BY <1>1
<1> QED
  BY <1>2, Invariance, PTL DEF Spec

-----------------------------------------------------------------------------
(* The account of the trial's cleanup *)

Ending == {"failed", "archived", "deleted"}

\* The record says what became of the repository, or did so once.
Met(s) == s \in pended \/ row[s].st \in Ending

RowOK(s) ==
  /\ row[s].st \in {"archived", "deleted"} => row[s].cleaned
  /\ s \in tried => Met(s)

\* What a run has read of a record is no more than what it says now.
Seen(r, s) == (r.cleaned => row[s].cleaned) /\ (r.st \in Ending => Met(s))

\* The trial's run leaves no session behind that it has not tried.
Behind(m) ==
  /\ m.pc \in {"target", "writing"} =>
       revived \/ \A s \in Sessions \ DOMAIN m.todo :
                    s \in tried \/ (m.pc = "writing" /\ s = m.at)
  /\ m.pc = "done" /\ m.target = "succeeded" => revived \/ Sessions \subseteq tried

RunOK(m) ==
  /\ \A s \in DOMAIN m.todo : Seen(m.todo[s].row, s)
  /\ m.pc = "writing" => Seen(m.listed, m.at) /\ Rewritten(m.listed, m.new)
  /\ m.job = TrialCleanup =>
       /\ job[TrialCleanup].st # "absent"
       /\ \A s \in DOMAIN m.todo : m.todo[s].due
       /\ m.pc = "writing" => m.new.st \in Ending
       /\ Behind(m)

\* The trial's job is enqueued by its termination, and no run that succeeds has
\* left out a session, unless the trial came back.
JobOK ==
  /\ job[TrialCleanup].st # "absent" /\ trial = "live" => revived
  /\ job[TrialCleanup].st = "succeeded" => revived \/ Sessions \subseteq tried

AInv ==
  /\ \A s \in Sessions : RowOK(s)
  /\ \A w \in Workers : RunOK(wk[w])
  /\ JobOK

\* A step that forgets nothing: it keeps AInv when it keeps the parts it touches.
LEMMA AccountStep ==
  ASSUME IInv, AInv, tried \subseteq tried', revived => revived',
         \A s \in Sessions : /\ row[s].cleaned => row'[s].cleaned
                             /\ Met(s) => Met(s)'
                             /\ RowOK(s)',
         job'[TrialCleanup].st = "absent" => job[TrialCleanup].st = "absent",
         \A w \in Workers : wk'[w] = wk[w] \/ RunOK(wk[w])',
         JobOK'
  PROVE  AInv'
<1>1. ASSUME NEW w \in Workers, wk'[w] = wk[w] PROVE RunOK(wk[w])'
  <2>1. /\ RunOK(wk[w]) /\ DOMAIN wk[w].todo \subseteq Sessions
        /\ wk[w].pc = "writing" => wk[w].at \in Sessions
    BY TodoFacts DEF AInv, IInv, TypeOK, Memories, MemoryOK
  <2>2. \A r, s : s \in Sessions /\ Seen(r, s) => Seen(r, s)'
    BY DEF Seen
  <2>3. Behind(wk[w]) => Behind(wk[w])'
    BY <1>1 DEF Behind
  <2> QED
    BY <1>1, <2>1, <2>2, <2>3 DEF RunOK
<1>2. ASSUME NEW w \in Workers PROVE RunOK(wk[w])'
  BY <1>1
<1> QED
  BY <1>2 DEF AInv

\* A step of the others: the records keep what the account reads of them.
LEMMA OutsideAccount ==
  ASSUME IInv, AInv, UNCHANGED <<wk, tried, pended>>, revived => revived',
         \A s \in Sessions : row'[s].st = row[s].st /\ row'[s].cleaned = row[s].cleaned,
         job'[TrialCleanup].st = "absent" => job[TrialCleanup].st = "absent",
         JobOK'
  PROVE  AInv'
<1>1. \A s \in Sessions : (Met(s) => Met(s)') /\ RowOK(s)'
  BY DEF AInv, RowOK, Met
<1> QED
  BY <1>1, AccountStep

\* A worker's step that leaves records and jobs alone.
LEMMA WorkerAccount ==
  ASSUME IInv, AInv, NEW w \in Workers, UNCHANGED <<trial, row, job, history>>,
         \A v \in Workers \ {w} : wk'[v] = wk[v], RunOK(wk[w])'
  PROVE  AInv'
<1>1. \A s \in Sessions : (Met(s) => Met(s)') /\ RowOK(s)'
  BY DEF AInv, RowOK, Met
<1>2. JobOK'
  BY DEF AInv, JobOK
<1> QED
  BY <1>1, <1>2, AccountStep

LEMMA CandidateAccount ==
  ASSUME IInv, AInv, NEW s \in Sessions, Candidate(s) \/ Reset(s)
  PROVE  AInv'
<1>1. UNCHANGED <<trial, job, wk, revived, tried, pended>>
  BY DEF Candidate, Start, DayPasses, Begin, Act, CutOff, Submit, Reset
<1>2. \A t \in Sessions : row'[t].st = row[t].st /\ row'[t].cleaned = row[t].cleaned
  <2>1. CASE UNCHANGED row
    BY <2>1
  <2>2. CASE CutOff(s)
    BY <2>2 DEF CutOff, IInv, TypeOK, Record
  <2> QED
    BY <2>1, <2>2 DEF Candidate, Start, DayPasses, Begin, Act, Submit, Reset
<1>3. JobOK'
  BY <1>1 DEF AInv, JobOK
<1> QED
  BY <1>1, <1>2, <1>3, OutsideAccount

LEMMA OwnerAccount ==
  ASSUME IInv, AInv,
         Tick \/ Terminate \/ Revive \/ UNCHANGED vars \/ \E k \in RunKeys : EnqueueRun(k)
  PROVE  AInv'
<1>0. TrialCleanup \in Jobs
  BY DEF Jobs
<1>1. UNCHANGED <<row, wk, tried, pended>> /\ (revived => revived')
  <2>1. UNCHANGED <<row, wk, tried, pended>>
    BY DEF Tick, Terminate, Revive, EnqueueRun, vars
  <2>2. UNCHANGED revived \/ Revive
    BY DEF Tick, Terminate, EnqueueRun, vars
  <2>3. Revive => revived'
    BY Zenon DEF Revive
  <2> QED
    BY <2>1, <2>2, <2>3
<1>2. /\ job'[TrialCleanup].st = "absent" => job[TrialCleanup].st = "absent"
      /\ JobOK'
  <2>1. CASE Tick \/ UNCHANGED vars
    BY <2>1 DEF Tick, vars, AInv, JobOK
  <2>2. CASE Revive
    <3>1. revived' /\ UNCHANGED <<job, tried>>
      BY <2>2 DEF Revive
    <3> QED
      BY <3>1 DEF JobOK
  <2>3. CASE Terminate
    <3>1. /\ trial' = "terminated" /\ UNCHANGED <<tried, revived>>
          /\ job'[TrialCleanup].st =
               IF job[TrialCleanup].st = "absent" THEN "queued" ELSE job[TrialCleanup].st
      BY <1>0, <2>3 DEF Terminate, Enqueued, IInv, TypeOK
    <3> QED
      BY <3>1 DEF AInv, JobOK
  <2>4. ASSUME NEW k \in RunKeys, EnqueueRun(k)
        PROVE  /\ UNCHANGED <<trial, tried, revived>>
               /\ job'[TrialCleanup] = job[TrialCleanup]
    BY <1>0, <2>4, CleanupAssumption DEF EnqueueRun, Enqueued, IInv, TypeOK
  <2> QED
    BY <2>1, <2>2, <2>3, <2>4 DEF AInv, JobOK
<1> QED
  BY <1>1, <1>2, OutsideAccount

LEMMA ClaimAccount ==
  ASSUME IInv, AInv, NEW w \in Workers, NEW j \in Jobs, Claim(w, j)
  PROVE  AInv'
<1>1. /\ UNCHANGED <<trial, row, history>>
      /\ job[j].st \in {"queued", "running"}
      /\ job' = [job EXCEPT ![j] = [st |-> "running", attempt |-> @.attempt + 1]]
  BY DEF Claim, Queue!Claim, Queue!Claimable
<1>2. /\ \A v \in Workers \ {w} : wk'[v] = wk[v]
      /\ wk'[w].pc = "claimed" /\ wk'[w].job = j /\ DOMAIN wk'[w].todo = {}
  BY Constants DEF Claim, Goes, IInv, TypeOK, Idle
<1>3. job'[j].st = "running" /\ \A i \in Jobs \ {j} : job'[i] = job[i]
  BY <1>1 DEF IInv, TypeOK
<1>4. \A s \in Sessions : (Met(s) => Met(s)') /\ RowOK(s)'
  BY <1>1 DEF AInv, RowOK, Met
<1>5. JobOK'
  BY <1>1, <1>3 DEF AInv, JobOK, Jobs
<1>6. RunOK(wk[w])'
  BY <1>2, <1>3 DEF RunOK, Behind
<1> QED
  BY <1>1, <1>2, <1>3, <1>4, <1>5, <1>6, AccountStep DEF Jobs

\* The end of a run, or its next target.
LEMMA ProceedFields ==
  ASSUME NEW m \in Worker, NEW S \in SUBSET Sessions, NEW f \in [S -> Target]
  PROVE  /\ Proceed(m, f).job = m.job
         /\ S = {} => /\ Proceed(m, f).pc = "done" /\ Proceed(m, f).target = "succeeded"
                      /\ DOMAIN Proceed(m, f).todo = {}
         /\ S # {} => Proceed(m, f).pc = "target" /\ Proceed(m, f).todo = f
<1>1. CASE S = {}
  BY <1>1 DEF Proceed, Ended, Left, NoTargets, Worker
<1>2. CASE S # {}
  BY <1>2 DEF Proceed, Left, Worker
<1> QED
  BY <1>1, <1>2

LEMMA ListAccount ==
  ASSUME IInv, AInv, NEW w \in Workers, List(w)
  PROVE  AInv'
<1>1. PICK a \in Worker : a = wk[w]
  BY DEF IInv, TypeOK
<1> DEFINE nothing == a.job = TrialCleanup /\ trial = "live"
<1>2. PICK S, f :
        /\ S \in SUBSET Sessions /\ f \in [S -> Target]
        /\ wk' = [wk EXCEPT ![w] = Proceed(a, f)]
        /\ S = IF nothing THEN {} ELSE Sessions
        /\ ~nothing => f = Listed(a.job)
  <2>1. CASE nothing
    <3>1. {} \in SUBSET Sessions /\ NoTargets \in [{} -> Target]
      BY DEF NoTargets
    <3>2. wk' = [wk EXCEPT ![w] = Proceed(a, NoTargets)]
      BY <1>1, <2>1 DEF List, Goes
    <3> QED
      BY <2>1, <3>1, <3>2
  <2>2. CASE ~nothing
    <3>1. Listed(a.job) \in [Sessions -> Target]
      BY ListedType DEF IInv
    <3>2. wk' = [wk EXCEPT ![w] = Proceed(a, Listed(a.job))]
      BY <1>1, <2>2 DEF List, Goes
    <3> QED
      BY <2>2, <3>1, <3>2
  <2> QED
    BY <2>1, <2>2
<1>3. PICK m \in Worker : m = Proceed(a, f)
  BY <1>2, ProceedType
<1>4. /\ m.job = a.job
      /\ S = {} => m.pc = "done" /\ m.target = "succeeded" /\ DOMAIN m.todo = {}
      /\ S # {} => m.pc = "target" /\ m.todo = f
  BY <1>2, <1>3, ProceedFields
<1>5. /\ wk'[w] = m /\ \A v \in Workers \ {w} : wk'[v] = wk[v]
      /\ UNCHANGED <<trial, row, job, history>>
  BY <1>2, <1>3 DEF IInv, TypeOK, List
<1>6. ASSUME ~nothing, NEW s \in Sessions
      PROVE  f[s].row = row[s] /\ (a.job = TrialCleanup => f[s].due)
  <2>1. f[s].row = row[s] /\ f[s].due = (Eligible(s) /\ Expired(s, a.job))
    BY <1>2, <1>6 DEF Listed
  <2>2. a.job = TrialCleanup => Eligible(s) /\ Expired(s, a.job)
    BY <1>6 DEF Eligible, Expired, IInv, TypeOK
  <2> QED
    BY <2>1, <2>2
<1>7. a.job = TrialCleanup => job'[TrialCleanup].st # "absent"
  BY <1>1, <1>5 DEF AInv, RunOK
<1>8. nothing => revived
  BY <1>5, <1>7 DEF AInv, JobOK
<1>9. \A s \in DOMAIN m.todo : /\ s \in Sessions /\ m.todo[s].row = row[s]
                               /\ a.job = TrialCleanup => m.todo[s].due
  BY <1>2, <1>4, <1>6
<1>10. \A s \in Sessions : Seen(row[s], s)'
  BY DEF Seen, Met
<1>11. Behind(m)'
  <2>1. CASE nothing
    BY <1>2, <1>4, <1>5, <1>8, <2>1 DEF Behind
  <2>2. CASE ~nothing
    BY <1>2, <1>4, <1>5, <2>2 DEF Behind
  <2> QED
    BY <2>1, <2>2
<1> HIDE DEF nothing
<1>12. RunOK(m)'
  BY <1>4, <1>5, <1>7, <1>9, <1>10, <1>11 DEF RunOK
<1> QED
  BY <1>5, <1>12, WorkerAccount

LEMMA ProcessAccount ==
  ASSUME IInv, AInv, NEW w \in Workers, NEW s \in Sessions, Process(w, s)
  PROVE  AInv'
<1>1. PICK new \in Record, target \in Targets, to \in RepoStates :
        Processed(w, s, new, target, to)
  BY ProcessFacts
<1>2. PICK a \in Worker : a = wk[w] /\ s \in DOMAIN a.todo /\ a.pc = "target"
  BY DEF IInv, TypeOK, Process
<1>3. PICK m \in Worker :
        m = [pc |-> "writing", job |-> a.job, attempt |-> a.attempt,
             todo |-> [t \in DOMAIN a.todo \ {s} |-> a.todo[t]], at |-> s,
             listed |-> a.todo[s].row, new |-> new, target |-> target]
        /\ m = Processing(a, s, new, target)
  BY <1>2, ProcessingType
<1>4. /\ m.pc = "writing" /\ m.job = a.job /\ m.at = s /\ m.new = new
      /\ m.listed = a.todo[s].row /\ DOMAIN m.todo = DOMAIN a.todo \ {s}
      /\ \A t \in DOMAIN m.todo : m.todo[t] = a.todo[t]
  BY <1>3
<1>5. /\ RunOK(a) /\ Written(a.todo[s], new)
      /\ wk'[w] = m /\ \A v \in Workers \ {w} : wk'[v] = wk[v]
      /\ UNCHANGED <<trial, row, job, history>>
  BY <1>1, <1>2, <1>3 DEF IInv, TypeOK, Process, Processed, AInv
<1>6. \A t, r : Seen(r, t) => Seen(r, t)'
  BY <1>5 DEF Seen, Met
<1>7. a.job = TrialCleanup => Behind(m)'
  BY <1>2, <1>4, <1>5 DEF RunOK, Behind
<1>8. RunOK(m)'
  BY <1>2, <1>4, <1>5, <1>6, <1>7 DEF RunOK, Written, Ending
<1> QED
  BY <1>5, <1>8, WorkerAccount

\* The columns of a commit.
LEMMA ChangedColumns ==
  ASSUME NEW old \in Record, NEW new \in Record, NEW current \in Record
  PROVE  /\ Changed(old, new, current).st = IF new.st = old.st THEN current.st ELSE new.st
         /\ Changed(old, new, current).cleaned =
              IF new.cleaned = old.cleaned THEN current.cleaned ELSE new.cleaned
<1>1. DOMAIN new = {"st", "cleaned", "revoked", "error"}
  BY DEF Record
<1> QED
  BY <1>1 DEF Changed

\* A commit takes no date and no ending away but for "pending", and the commit of
\* the trial's run is one of an ending.
LEMMA CommitRow ==
  ASSUME IInv, AInv, NEW w \in Workers, Commit(w)
  PROVE  \A s \in Sessions : /\ row[s].cleaned => row'[s].cleaned
                             /\ Met(s) => Met(s)'
                             /\ RowOK(s)'
<1>0. PICK a \in Worker, s \in Sessions : a = wk[w] /\ s = a.at
  BY DEF IInv, TypeOK, Memories, MemoryOK, Commit
<1>1. a.pc = "writing" /\ RunOK(a) /\ RowOK(s)
  BY <1>0 DEF Commit, AInv
<1> DEFINE c == Changed(a.listed, a.new, row[s])
<1>2. a.new \in Record /\ a.listed \in Record /\ row[s] \in Record
  BY <1>1 DEF Worker, IInv, TypeOK
<1>3. /\ c.st = IF a.new.st = a.listed.st THEN row[s].st ELSE a.new.st
      /\ c.cleaned = IF a.new.cleaned = a.listed.cleaned THEN row[s].cleaned
                                                          ELSE a.new.cleaned
      /\ c \in Record
  <2>1. c \in Record
    BY <1>2, ChangedType
  <2>2. c.st = IF a.new.st = a.listed.st THEN row[s].st ELSE a.new.st
    BY <1>2, ChangedColumns
  <2>3. c.cleaned = IF a.new.cleaned = a.listed.cleaned THEN row[s].cleaned
                                                        ELSE a.new.cleaned
    BY <1>2, ChangedColumns
  <2> QED
    BY <2>1, <2>2, <2>3
<1>4. /\ row' = [row EXCEPT ![s] = c]
      /\ tried' = IF a.job = TrialCleanup THEN tried \cup {s} ELSE tried
      /\ pended' = IF c.st = "pending" /\ row[s].st \notin {"none", "pending"}
                     THEN pended \cup {s} ELSE pended
  BY <1>0 DEF Commit
<1> HIDE DEF c
<1>5. row'[s] = c /\ \A t \in Sessions \ {s} : row'[t] = row[t]
  BY <1>1, <1>4 DEF IInv, TypeOK
<1>6. /\ Seen(a.listed, s) /\ Rewritten(a.listed, a.new)
      /\ a.job = TrialCleanup => a.new.st \in Ending
  BY <1>0, <1>1 DEF RunOK
<1>7. row[s].cleaned => c.cleaned
  BY <1>2, <1>3, <1>6 DEF Rewritten, Record
<1>8. Met(s) => Met(s)'
  <2>1. c.st \in {"none", "pending"} \cup Ending
    BY <1>3 DEF Record, Ending
  <2>2. CASE s \in pended
    BY <1>4, <2>2 DEF Met
  <2>3. CASE row[s].st \in Ending
    <3>1. row[s].st \notin {"none", "pending"}
      BY <2>3 DEF Ending
    <3>2. c.st # "none"
      BY <1>3, <1>6, <3>1 DEF Rewritten
    <3> QED
      BY <1>4, <1>5, <2>1, <3>1, <3>2 DEF Met
  <2> QED
    BY <2>2, <2>3 DEF Met
<1>9. c.st \in {"archived", "deleted"} => c.cleaned
  <2>1. CASE a.new.st = a.listed.st
    BY <1>1, <1>3, <1>7, <2>1 DEF RowOK
  <2>2. CASE a.new.st # a.listed.st
    <3>1. c.st \in {"archived", "deleted"} => a.new.cleaned
      BY <1>3, <1>6, <2>2 DEF Rewritten
    <3>2. a.listed.cleaned => row[s].cleaned
      BY <1>6 DEF Seen
    <3> QED
      BY <1>2, <1>3, <3>1, <3>2 DEF Record
  <2> QED
    BY <2>1, <2>2
<1>10. s \in tried' => Met(s)'
  <2>1. CASE s \in tried
    BY <1>1, <1>8, <2>1 DEF RowOK
  <2>2. CASE s \notin tried
    <3>1. s \in tried' => a.new.st \in Ending
      BY <1>4, <1>6, <2>2
    <3>2. a.new.st \in Ending /\ a.new.st = a.listed.st => Met(s)'
      BY <1>6, <1>8 DEF Seen
    <3>3. a.new.st \in Ending /\ a.new.st # a.listed.st => Met(s)'
      BY <1>3, <1>5 DEF Met
    <3> QED
      BY <3>1, <3>2, <3>3
  <2> QED
    BY <2>1, <2>2
<1>11. RowOK(s)'
  BY <1>5, <1>9, <1>10 DEF RowOK
<1>12. ASSUME NEW t \in Sessions, t # s
       PROVE  /\ row[t].cleaned => row'[t].cleaned
              /\ Met(t) => Met(t)'
              /\ RowOK(t)'
  BY <1>4, <1>5, <1>12 DEF Met, RowOK, AInv
<1> QED
  BY <1>5, <1>7, <1>8, <1>11, <1>12

LEMMA CommitAccount ==
  ASSUME IInv, AInv, NEW w \in Workers, Commit(w)
  PROVE  AInv'
<1>1. PICK a \in Worker : a = wk[w]
  BY DEF IInv, TypeOK
<1>2. /\ a.pc = "writing" /\ a.at \in Sessions /\ RunOK(a)
      /\ UNCHANGED <<trial, job, revived>> /\ tried \subseteq tried'
      /\ a.job = TrialCleanup => a.at \in tried'
  BY <1>1 DEF IInv, Memories, MemoryOK, Commit, AInv
<1>3. PICK m \in Worker :
        /\ wk' = [wk EXCEPT ![w] = m]
        /\ m = IF a.target = "retry" THEN Ended(a, "retry") ELSE Proceed(a, a.todo)
        /\ m.pc \in {"done", "target"}
        /\ \A t \in DOMAIN m.todo : t \in DOMAIN a.todo /\ m.todo[t] = a.todo[t]
  BY <1>1, CommitGoes
<1>4. PICK S \in SUBSET Sessions : a.todo \in [S -> Target]
  BY DEF Worker
<1>5. /\ m.job = a.job
      /\ a.target = "retry" => m.pc = "done" /\ m.target = "retry"
      /\ a.target # "retry" /\ S = {} => m.pc = "done"
      /\ a.target # "retry" /\ S # {} => m.pc = "target" /\ m.todo = a.todo
  <2>1. CASE a.target = "retry"
    BY <1>3, <2>1 DEF Ended, Left, Worker
  <2>2. CASE a.target # "retry"
    <3>1. m = Proceed(a, a.todo)
      BY <1>3, <2>2
    <3> QED
      BY <1>4, <2>2, <3>1, ProceedFields
  <2> QED
    BY <2>1, <2>2
<1>6. \A s \in Sessions : /\ row[s].cleaned => row'[s].cleaned
                          /\ Met(s) => Met(s)'
                          /\ RowOK(s)'
  BY CommitRow
<1>7. a.job = TrialCleanup =>
        revived \/ \A s \in Sessions \ DOMAIN a.todo : s \in tried'
  BY <1>2 DEF RunOK, Behind
<1>8. a.job = TrialCleanup => Behind(m)'
  BY <1>2, <1>4, <1>5, <1>7 DEF Behind
<1>9. \A s \in DOMAIN m.todo : Seen(m.todo[s].row, s)'
  <2>1. \A s \in DOMAIN m.todo : s \in Sessions /\ Seen(m.todo[s].row, s)
    BY <1>2, <1>3, <1>4 DEF RunOK
  <2> QED
    BY <1>6, <2>1 DEF Seen
<1>10. RunOK(m)'
  BY <1>2, <1>3, <1>5, <1>8, <1>9 DEF RunOK
<1>11. wk'[w] = m /\ \A v \in Workers \ {w} : wk'[v] = wk[v]
  BY <1>3 DEF IInv, TypeOK
<1>12. JobOK'
  BY <1>2 DEF AInv, JobOK
<1> QED
  BY <1>2, <1>6, <1>10, <1>11, <1>12, AccountStep

\* A worker lets its job go.
LEMMA ReleaseAccount ==
  ASSUME IInv, AInv, NEW w \in Workers, Report(w) \/ Crash(w)
  PROVE  AInv'
<1>1. /\ \A v \in Workers \ {w} : wk'[v] = wk[v]
      /\ wk'[w].job = None /\ wk'[w].pc = "idle" /\ DOMAIN wk'[w].todo = {}
  BY Constants DEF Report, Crash, Goes, IInv, TypeOK, Idle
<1>2. UNCHANGED <<trial, row, history>>
  BY DEF Report, Crash
<1>3. RunOK(wk[w])'
  BY <1>1, NoneAssumption DEF RunOK, Jobs
<1>4. \A s \in Sessions : (Met(s) => Met(s)') /\ RowOK(s)'
  BY <1>2 DEF AInv, RowOK, Met
<1>5. /\ job'[TrialCleanup].st = "absent" => job[TrialCleanup].st = "absent"
      /\ JobOK'
  <2>1. CASE UNCHANGED job
    BY <1>2, <2>1 DEF AInv, JobOK
  <2>2. CASE ~UNCHANGED job
    <3>1. Report(w) /\ wk[w].pc = "done" /\ TrialCleanup \in Jobs
      BY <2>2 DEF Report, Crash, Jobs
    <3>2. CASE wk[w].job # TrialCleanup
      BY <1>2, <3>1, <3>2 DEF Report, AInv, JobOK, IInv, TypeOK
    <3>3. CASE wk[w].job = TrialCleanup
      <4>1. job'[TrialCleanup].st = Outcome(w)
        BY <3>1, <3>3 DEF Report, IInv, TypeOK
      <4>2. RunOK(wk[w]) /\ JobOK
        BY DEF AInv
      <4>3. Outcome(w) = "succeeded" => revived \/ Sessions \subseteq tried
        BY <3>1, <3>3, <4>2 DEF RunOK, Behind, Outcome
      <4>4. job[TrialCleanup].st # "absent" /\ Outcome(w) # "absent"
        BY <3>3, <4>2 DEF RunOK, Outcome
      <4> QED
        BY <1>2, <4>1, <4>2, <4>3, <4>4 DEF JobOK
    <3> QED
      BY <3>2, <3>3
  <2> QED
    BY <2>1, <2>2
<1> QED
  BY <1>1, <1>2, <1>3, <1>4, <1>5, AccountStep

LEMMA AccountInv == IInv /\ AInv /\ [Next]_vars => AInv'
<1> SUFFICES ASSUME IInv, AInv, [Next]_vars PROVE AInv'
  OBVIOUS
<1>1. CASE Tick \/ Terminate \/ Revive \/ UNCHANGED vars \/ \E k \in RunKeys : EnqueueRun(k)
  BY <1>1, OwnerAccount
<1>2. ASSUME NEW s \in Sessions, Candidate(s) \/ Reset(s) PROVE AInv'
  BY <1>2, CandidateAccount
<1>3. ASSUME NEW w \in Workers, WorkerStep(w) \/ Crash(w) PROVE AInv'
  BY <1>3, ListAccount, ProcessAccount, CommitAccount, ReleaseAccount DEF WorkerStep
<1>4. ASSUME NEW w \in Workers, NEW j \in Jobs, Claim(w, j) PROVE AInv'
  BY <1>4, ClaimAccount
<1> QED
  BY <1>1, <1>2, <1>3, <1>4 DEF Next

\* Once the trial's cleanup has succeeded, every repository is closed or has a
\* failure on its record that the cleanup met too, for good and for any number of
\* sessions, company runs, stale listings, retries and crashes, unless the trial
\* came back, a run wrote "pending" over the outcome or a request that had passed
\* its gates opened the repository again (handle_trial_cleanup).
THEOREM CleanupAccounts == Spec => []Accounted
<1>1. Init => AInv
  <2> SUFFICES ASSUME Init PROVE AInv
    OBVIOUS
  <2>1. \A w \in Workers : /\ wk[w].job = None /\ wk[w].pc = "idle"
                           /\ DOMAIN wk[w].todo = {}
    BY Constants DEF Init, Idle
  <2>2. \A w \in Workers : RunOK(wk[w])
    BY <2>1, NoneAssumption DEF RunOK, Jobs
  <2>3. JobOK
    BY DEF Init, JobOK, Jobs
  <2>4. \A s \in Sessions : RowOK(s)
    BY DEF Init, RowOK, Untouched
  <2> QED
    BY <2>2, <2>3, <2>4 DEF AInv
<1>2. IInv /\ AInv => Accounted
  <2> SUFFICES ASSUME IInv, AInv, job[TrialCleanup].st = "succeeded", NEW s \in Sessions
               PROVE  Settled(s) \/ Undone(s)
    BY DEF Accounted
  <2>1. revived \/ (s \in tried /\ Met(s))
    BY DEF AInv, JobOK, RowOK
  <2>2. /\ row[s].st \in {"archived", "deleted"} => row[s].cleaned
        /\ row[s].cleaned => repo[s] # "live"
        /\ repo[s] \in RepoStates
    BY DEF AInv, RowOK, IInv, Told, TypeOK
  <2> QED
    BY <2>1, <2>2 DEF Met, Ending, Settled, Undone, Complete, Open, RepoStates
<1> QED
  BY <1>1, <1>2, InitInv, NextInv, AccountInv, PTL DEF Spec

-----------------------------------------------------------------------------
(* The attempts of a cleanup job *)

\* Every attempt beyond the limit is owed to a fault: a job that can be claimed
\* without one has an attempt left, and a worker, which judges by the attempt it
\* claimed, is behind the row by no more than there were faults.
Attempts ==
  /\ \A j \in Jobs : job[j].attempt <= MaxAttempts + faults
  /\ \A j \in Jobs : job[j].st = "queued" \/ (job[j].st = "running" /\ Holders(j) = {})
                       => job[j].attempt < MaxAttempts + faults
  /\ \A w \in Workers : wk[w].job \in Jobs
                          => job[wk[w].job].attempt <= wk[w].attempt + faults
  /\ \A w \in Workers : wk[w].pc = "idle" => wk[w].job = None

LEMMA Numbers ==
  ASSUME IInv
  PROVE  /\ MaxAttempts \in Nat \ {0} /\ faults \in Nat
         /\ \A j \in Jobs : job[j].attempt \in Nat
         /\ \A w \in Workers : wk[w].attempt \in Nat
  BY CleanupAssumption DEF IInv, TypeOK, Worker

\* A step in which every worker keeps its job.
LEMMA AttemptsKept ==
  ASSUME IInv, Attempts, faults' \in {faults, faults + 1},
         \A j \in Jobs : \/ job'[j] = job[j]
                         \/ job'[j] = [st |-> "queued", attempt |-> 0],
         \A w \in Workers : /\ wk'[w].job = wk[w].job /\ wk'[w].attempt = wk[w].attempt
                            /\ wk'[w].pc = "idle" => wk[w].pc = "idle"
  PROVE  Attempts'
<1>0. /\ MaxAttempts \in Nat \ {0} /\ faults \in Nat
      /\ \A j \in Jobs : job[j].attempt \in Nat
      /\ \A w \in Workers : wk[w].attempt \in Nat
  BY Numbers
<1>1. \A j \in Jobs : Holders(j)' = Holders(j)
  BY DEF Holders
<1>2. ASSUME NEW j \in Jobs
      PROVE  /\ job'[j].attempt <= MaxAttempts + faults'
             /\ job'[j].st = "queued" \/ (job'[j].st = "running" /\ Holders(j)' = {})
                  => job'[j].attempt < MaxAttempts + faults'
             /\ job'[j].attempt <= job[j].attempt /\ job'[j].attempt \in Nat
  BY <1>0, <1>1 DEF Attempts
<1>3. ASSUME NEW w \in Workers, wk'[w].job \in Jobs
      PROVE  job'[wk'[w].job].attempt <= wk'[w].attempt + faults'
  <2>1. PICK j \in Jobs : wk'[w].job = j /\ wk[w].job = j
    BY <1>3
  <2>2. job'[j].attempt <= job[j].attempt /\ job[j].attempt <= wk[w].attempt + faults
    BY <1>2, <2>1 DEF Attempts
  <2> QED
    BY <1>0, <1>2, <2>1, <2>2
<1> QED
  BY <1>2, <1>3 DEF Attempts

LEMMA ClaimAttempts ==
  ASSUME IInv, Attempts, NEW w \in Workers, NEW j \in Jobs, Claim(w, j)
  PROVE  Attempts'
<1>0. /\ MaxAttempts \in Nat \ {0} /\ faults \in Nat
      /\ \A i \in Jobs : job[i].attempt \in Nat
      /\ \A v \in Workers : wk[v].attempt \in Nat
  BY Numbers
<1>1. /\ job[j].st \in {"queued", "running"}
      /\ IF Holders(j) = {} THEN faults' = faults ELSE faults' = faults + 1
      /\ wk[w].pc = "idle" /\ wk[w].job = None
  BY DEF Claim, Fault, Queue!Claim, Queue!Claimable, Attempts
<1>2. \A i \in Jobs : /\ job'[i].attempt = IF i = j THEN job[j].attempt + 1
                                                     ELSE job[i].attempt
                      /\ i # j => job'[i].st = job[i].st
  BY DEF Claim, Goes, IInv, TypeOK
<1>3. /\ \A v \in Workers \ {w} : wk'[v] = wk[v]
      /\ wk'[w].pc = "claimed" /\ wk'[w].job = j
      /\ wk'[w].attempt = job[j].attempt + 1
  BY DEF Claim, Goes, IInv, TypeOK, Idle
<1>4. Holders(j)' # {} /\ \A i \in Jobs \ {j} : Holders(i)' = Holders(i)
  BY <1>1, <1>3, NoneAssumption DEF Holders
<1>5. ASSUME NEW i \in Jobs
      PROVE  /\ job'[i].attempt <= MaxAttempts + faults'
             /\ job'[i].st = "queued" \/ (job'[i].st = "running" /\ Holders(i)' = {})
                  => job'[i].attempt < MaxAttempts + faults'
  <2>1. CASE i = j
    <3>1. job'[j].st = "running"
      BY DEF Claim, Goes, IInv, TypeOK
    <3> QED
      BY <1>0, <1>1, <1>2, <1>4, <2>1, <3>1 DEF Attempts
  <2>2. CASE i # j
    BY <1>0, <1>1, <1>2, <1>4, <2>2 DEF Attempts
  <2> QED
    BY <2>1, <2>2
<1>6. ASSUME NEW v \in Workers, wk'[v].job \in Jobs
      PROVE  job'[wk'[v].job].attempt <= wk'[v].attempt + faults'
  <2>1. CASE v = w
    BY <1>0, <1>1, <1>2, <1>3, <2>1
  <2>2. CASE v # w
    <3>1. PICK i \in Jobs : wk'[v].job = i /\ wk[v].job = i
      BY <1>3, <1>6, <2>2
    <3>2. job[i].attempt <= wk[v].attempt + faults
      BY <3>1 DEF Attempts
    <3>3. i = j => faults' = faults + 1
      BY <1>1, <3>1 DEF Holders
    <3> QED
      BY <1>0, <1>1, <1>2, <1>3, <2>2, <3>1, <3>2, <3>3
  <2> QED
    BY <2>1, <2>2
<1>7. \A v \in Workers : wk'[v].pc = "idle" => wk'[v].job = None
  BY <1>3 DEF Attempts
<1> QED
  BY <1>5, <1>6, <1>7 DEF Attempts

\* A worker lets its job go, with an outcome or by dying.
LEMMA ReleaseAttempts ==
  ASSUME IInv, Busy, Attempts, NEW w \in Workers, wk[w].pc # "idle",
         Goes(w, Idle),
         \/ UNCHANGED job /\ faults' = faults + 1
         \/ job' = [job EXCEPT ![wk[w].job].st = Outcome(w)] /\ UNCHANGED faults
  PROVE  Attempts'
<1>0. /\ MaxAttempts \in Nat \ {0} /\ faults \in Nat
      /\ \A i \in Jobs : job[i].attempt \in Nat
      /\ \A v \in Workers : wk[v].attempt \in Nat
  BY Numbers
<1>1. PICK j \in Jobs : wk[w].job = j
  BY DEF Busy
<1>2. /\ \A v \in Workers \ {w} : wk'[v] = wk[v]
      /\ wk'[w].pc = "idle" /\ wk'[w].job = None
  BY DEF Goes, IInv, TypeOK, Idle
<1>3. \A i \in Jobs : job'[i].attempt = job[i].attempt /\ (i # j => job'[i] = job[i])
  BY <1>1 DEF IInv, TypeOK
<1>4. \A i \in Jobs \ {j} : Holders(i)' = Holders(i)
  BY <1>1, <1>2, NoneAssumption DEF Holders
<1>5. job[j].attempt <= wk[w].attempt + faults
  BY <1>1 DEF Attempts
<1>6. CASE job' = [job EXCEPT ![wk[w].job].st = Outcome(w)] /\ UNCHANGED faults
  <2>1. job'[j].st = Outcome(w)
    BY <1>1, <1>6 DEF IInv, TypeOK
  <2>2. Outcome(w) # "running" /\ (Outcome(w) = "queued" => wk[w].attempt < MaxAttempts)
    BY DEF Outcome
  <2>3. ASSUME NEW i \in Jobs
        PROVE  /\ job'[i].attempt <= MaxAttempts + faults'
               /\ job'[i].st = "queued" \/ (job'[i].st = "running" /\ Holders(i)' = {})
                    => job'[i].attempt < MaxAttempts + faults'
    BY <1>0, <1>3, <1>4, <1>5, <1>6, <2>1, <2>2 DEF Attempts
  <2>4. \A v \in Workers : wk'[v].job \in Jobs
                             => job'[wk'[v].job].attempt <= wk'[v].attempt + faults'
    BY <1>2, <1>3, <1>6, NoneAssumption DEF Attempts
  <2>5. \A v \in Workers : wk'[v].pc = "idle" => wk'[v].job = None
    BY <1>2 DEF Attempts
  <2> QED
    BY <2>3, <2>4, <2>5 DEF Attempts
<1>7. CASE UNCHANGED job /\ faults' = faults + 1
  <2>1. ASSUME NEW i \in Jobs PROVE job'[i].attempt < MaxAttempts + faults'
    BY <1>0, <1>7 DEF Attempts
  <2>2. ASSUME NEW v \in Workers, wk'[v].job \in Jobs
        PROVE  job'[wk'[v].job].attempt <= wk'[v].attempt + faults'
    <3>1. PICK i \in Jobs : wk'[v].job = i /\ wk[v].job = i /\ wk'[v] = wk[v]
      BY <1>2, <2>2, NoneAssumption
    <3> QED
      BY <1>0, <1>7, <3>1 DEF Attempts
  <2>3. \A v \in Workers : wk'[v].pc = "idle" => wk'[v].job = None
    BY <1>2 DEF Attempts
  <2>4. \A i \in Jobs : job'[i].attempt <= MaxAttempts + faults'
    BY <1>0, <1>7, <2>1
  <2> QED
    BY <2>1, <2>2, <2>3, <2>4 DEF Attempts
<1> QED
  BY <1>6, <1>7

LEMMA AttemptsInv ==
  ASSUME IInv, Busy, Attempts, [Next]_vars
  PROVE  Attempts'
<1>1. ASSUME NEW w \in Workers, NEW j \in Jobs, Claim(w, j) PROVE Attempts'
  BY <1>1, ClaimAttempts
<1>2. ASSUME NEW w \in Workers, Report(w) \/ Crash(w) PROVE Attempts'
  BY <1>2, ReleaseAttempts DEF Report, Crash, Fault
<1>3. CASE \/ Tick \/ Terminate \/ Revive \/ UNCHANGED vars
           \/ \E s \in Sessions : Candidate(s) \/ Reset(s)
           \/ \E k \in RunKeys : EnqueueRun(k)
  <2>1. UNCHANGED wk /\ faults' \in {faults, faults + 1}
    BY <1>3 DEF Tick, Terminate, Revive, Candidate, Start, DayPasses, Begin, Act, CutOff,
                Submit, Reset, EnqueueRun, Fault, vars
  <2>2. UNCHANGED job \/ \E k \in Jobs : job' = Enqueued(k)
    BY <1>3 DEF Tick, Terminate, Revive, Candidate, Start, DayPasses, Begin, Act, CutOff,
                Submit, Reset, EnqueueRun, vars, Jobs
  <2>3. \A j \in Jobs : job'[j] = job[j] \/ job'[j] = [st |-> "queued", attempt |-> 0]
    BY <2>2 DEF Enqueued, IInv, TypeOK
  <2> QED
    BY <2>1, <2>3, AttemptsKept
<1>4. ASSUME NEW w \in Workers, List(w) \/ Commit(w) \/ \E s \in Sessions : Process(w, s)
      PROVE  Attempts'
  <2>1. UNCHANGED <<job, faults>>
    BY <1>4 DEF List, Commit, Process
  <2>2. \A v \in Workers : /\ wk'[v].job = wk[v].job /\ wk'[v].attempt = wk[v].attempt
                           /\ wk'[v].pc = "idle" => wk[v].pc = "idle"
    BY <1>4, RunKeeps
  <2> QED
    BY <2>1, <2>2, AttemptsKept
<1> QED
  BY <1>1, <1>2, <1>3, <1>4 DEF Next, WorkerStep

\* A cleanup job is claimed at most max_attempts times, but for one claim more with
\* every crash and every lease its runs outlived, which a job that calls GitHub for
\* every repository of a company may do (claim_next_runnable, retry_or_dead_letter).
THEOREM AttemptsAreBounded ==
  Spec => [](\A j \in Jobs : job[j].attempt <= MaxAttempts + faults)
<1>1. Init => Attempts /\ Busy
  <2> SUFFICES ASSUME Init PROVE Attempts /\ Busy
    OBVIOUS
  <2>1. \A w \in Workers : wk[w].pc = "idle" /\ wk[w].job = None
    BY DEF Init, Idle
  <2>2. \A j \in Jobs : job[j].attempt = 0 /\ job[j].st = "absent"
    BY DEF Init
  <2> QED
    BY <2>1, <2>2, CleanupAssumption, NoneAssumption DEF Attempts, Busy, Init
<1>2. Attempts => \A j \in Jobs : job[j].attempt <= MaxAttempts + faults
  BY DEF Attempts
<1> QED
  BY <1>1, <1>2, InitInv, NextInv, BusyInv, AttemptsInv, PTL DEF Spec
=============================================================================
