------------------------ MODULE TrialScenarioProofs ------------------------
(***************************************************************************)
(* What holds of trials, their scenario versions and their invites for     *)
(* every number of trials, versions and candidates, every way their ids    *)
(* share a prefix and any number of generations too many.                  *)
(***************************************************************************)
EXTENDS TrialScenario, TLAPS

USE DEF TrialRow, InviteRow

-----------------------------------------------------------------------------
(* The inductive invariant, trial by trial *)

\* A trial without an active version has no version at all; the active version
\* of any other trial exists.
ActiveOf(t) ==
  IF trial[t].active = NoVersion
    THEN \A v \in Versions : ver[t][v].st = "absent"
    ELSE ver[t][trial[t].active].st # "absent"

\* A job for a later version names a version that exists.
JobsOf(t) ==
  \A v \in Versions :
    v # 1 /\ job[t][v] # "absent" => ver[t][v].st # "absent"

\* An invite names a version that exists and does not await its approval.
InvitesOf(t) ==
  \A c \in Candidates :
    IF inv[t][c].st = "none"
      THEN inv[t][c].v = NoVersion
      ELSE /\ inv[t][c].v \in Versions
           /\ inv[t][c].v # trial[t].pending
           /\ ver[t][inv[t][c].v].st # "absent"

\* So does the version a batch keeps in mind.
BatchOf(t) ==
  batch[t] # NoVersion =>
    ver[t][batch[t]].st # "absent" /\ batch[t] # trial[t].pending

\* PendingOpen; besides, the first version never awaits an approval.
PendingOf(t) ==
  LET p == trial[t].pending
  IN /\ p # 1
     /\ p # NoVersion =>
          /\ p # trial[t].active
          /\ ver[t][p].st \in {"generating", "ready"}
          /\ \A v \in Versions : v > p => ver[t][v].st = "absent"

\* InvitedLocked
LockedOf(t) ==
  t \in unlocked \/
    \A c \in Candidates :
      inv[t][c].st # "none" => ver[t][inv[t][c].v].st = "locked"

\* GenerationOwed
OwedOf(t) ==
  t \in stale \/
    /\ trial[t].st = "generating" => job[t][1] \in {"queued", "dead_letter"}
    /\ trial[t].st # "terminated" =>
         \A v \in Versions :
           v = trial[t].pending /\ ver[t][v].st = "generating"
             => job[t][v] \in {"queued", "dead_letter"}

\* TerminatedRevoked
RevokedOf(t) ==
  t \in stale \/
    \A c \in Candidates :
      trial[t].st = "terminated" /\ <<t, c>> \notin reset
        => inv[t][c].st # "not_started"

Sound(t) ==
  /\ ActiveOf(t) /\ JobsOf(t) /\ InvitesOf(t) /\ BatchOf(t)
  /\ PendingOf(t) /\ LockedOf(t) /\ OwedOf(t) /\ RevokedOf(t)

IInv == TypeOK /\ \A t \in Trials : Sound(t)

LEMMA FirstVersion ==
  /\ 1 \in Versions
  /\ 0..MaxVersion = Versions \cup {NoVersion}
  /\ NoVersion \notin Versions
BY ConstantAssumption DEF Versions, NoVersion

LEMMA InitInv == Init => IInv
<1>. SUFFICES ASSUME Init PROVE IInv
  OBVIOUS
<1>1. TypeOK
  <2>1. newest \in [Trials -> Trials \X Versions]
    BY FirstVersion DEF Init
  <2>. QED
    BY <2>1, FirstVersion DEF Init, TypeOK, TrialStatuses, VersionRow,
       VersionStatuses, JobStatuses, InviteStatuses
<1>2. ASSUME NEW t \in Trials PROVE Sound(t)
  <2>1. ActiveOf(t) /\ JobsOf(t) /\ InvitesOf(t) /\ BatchOf(t)
    BY DEF Init, ActiveOf, JobsOf, InvitesOf, BatchOf, NoVersion
  <2>2. PendingOf(t) /\ LockedOf(t) /\ OwedOf(t) /\ RevokedOf(t)
    BY DEF Init, PendingOf, LockedOf, OwedOf, RevokedOf, NoVersion
  <2>. QED
    BY <2>1, <2>2 DEF Sound
<1>. QED
  BY <1>1, <1>2 DEF IInv

-----------------------------------------------------------------------------
(* Types *)

\* A version row rewritten, and the table with a row locked or rewritten.
LEMMA VersionTypes ==
  ASSUME TypeOK, NEW t \in Trials, NEW v \in Versions
  PROVE  /\ \A r \in VersionRow : \A st \in VersionStatuses :
              Rewritten(r, st) \in VersionRow
         /\ Lock(t, v) \in [Trials -> [Versions -> VersionRow]]
         /\ \A r \in VersionRow :
              [ver EXCEPT ![t][v] = r] \in [Trials -> [Versions -> VersionRow]]
<1>1. ver[t][v] \in VersionRow
  BY DEF TypeOK
<1>2. [ver[t][v] EXCEPT !.st = "locked"] \in VersionRow
  BY <1>1 DEF VersionRow, VersionStatuses
<1>3. \A r \in VersionRow :
        [ver EXCEPT ![t][v] = r] \in [Trials -> [Versions -> VersionRow]]
  BY DEF TypeOK
<1>4. Lock(t, v) = [ver EXCEPT ![t][v] = [ver[t][v] EXCEPT !.st = "locked"]]
  BY DEF Lock, TypeOK
<1>5. Lock(t, v) \in [Trials -> [Versions -> VersionRow]]
  BY <1>2, <1>3, <1>4
<1>6. \A r \in VersionRow : \A st \in VersionStatuses :
        Rewritten(r, st) \in VersionRow
  BY DEF Rewritten, VersionRow
<1>. QED
  BY <1>3, <1>5, <1>6

LEMMA NewestType ==
  ASSUME TypeOK, NEW t \in Trials, NEW v \in Versions
  PROVE  Newest(t, v) \in [Trials -> Trials \X Versions]
BY DEF TypeOK, Newest

LEMMA GeneratedType ==
  ASSUME TypeOK, NEW t \in Trials, NEW v \in Versions, Generated(t, v)
  PROVE  /\ trial' \in [Trials -> TrialRow]
         /\ ver' \in [Trials -> [Versions -> VersionRow]]
         /\ unlocked' \subseteq Trials
<1>1. CASE Skips(t, v)
  BY <1>1 DEF Generated, TypeOK
<1>2. CASE ~Skips(t, v)
  <2>1. /\ ver[t][v] \in VersionRow
        /\ "ready" \in VersionStatuses
    BY DEF TypeOK, VersionStatuses
  <2>2. ver' = [ver EXCEPT ![t][v] = Rewritten(ver[t][v], "ready")]
    BY <1>2 DEF Generated, TypeOK
  <2>3. ver' \in [Trials -> [Versions -> VersionRow]]
    BY <2>1, <2>2, VersionTypes
  <2>4. trial' \in [Trials -> TrialRow]
    <3>. DEFINE a == IF v = 1 THEN 1 ELSE trial[t].active
                r == [trial[t] EXCEPT !.st = "ready_for_review", !.active = a]
    <3>1. trial[t] \in TrialRow /\ a \in 0..MaxVersion
      BY FirstVersion DEF TypeOK
    <3>2. r \in TrialRow
      BY <3>1 DEF TrialStatuses
    <3>3. trial' = [trial EXCEPT ![t] = r]
      BY <1>2 DEF Generated, TypeOK
    <3>. QED
      BY <3>2, <3>3 DEF TypeOK
  <2>. QED
    BY <1>2, <2>3, <2>4 DEF Generated, TypeOK
<1>. QED
  BY <1>1, <1>2

\* A row of the trials table, and a table, with columns of a trial changed.
LEMMA TrialTypes ==
  ASSUME TypeOK, NEW t \in Trials, NEW x \in TrialStatuses,
         NEW a \in 0..MaxVersion, NEW p \in 0..MaxVersion
  PROVE  /\ [trial EXCEPT ![t].st = x] \in [Trials -> TrialRow]
         /\ [trial EXCEPT ![t].active = a] \in [Trials -> TrialRow]
         /\ [trial EXCEPT ![t] = [@ EXCEPT !.st = x, !.pending = p]]
               \in [Trials -> TrialRow]
         /\ [trial EXCEPT ![t] = [@ EXCEPT !.active = a, !.pending = p]]
               \in [Trials -> TrialRow]
<1>1. trial \in [Trials -> TrialRow] /\ trial[t] \in TrialRow
  BY DEF TypeOK
<1>2. \A r \in TrialRow : [trial EXCEPT ![t] = r] \in [Trials -> TrialRow]
  BY <1>1
<1>3. [trial[t] EXCEPT !.st = x, !.pending = p] \in TrialRow
  BY <1>1
<1>4. [trial[t] EXCEPT !.active = a, !.pending = p] \in TrialRow
  BY <1>1
<1>5. [trial EXCEPT ![t].st = x] \in [Trials -> TrialRow]
  BY <1>1
<1>6. [trial EXCEPT ![t].active = a] \in [Trials -> TrialRow]
  BY <1>1
<1>. QED
  BY <1>2, <1>3, <1>4, <1>5, <1>6

\* Jobs and invites of one trial changed.
LEMMA JobTypes ==
  ASSUME TypeOK, NEW t \in Trials, NEW v \in Versions, NEW x \in JobStatuses
  PROVE  /\ [job EXCEPT ![t][v] = x] \in [Trials -> [Versions -> JobStatuses]]
         /\ JobsCancelled(t) \in [Trials -> [Versions -> JobStatuses]]
BY DEF TypeOK, JobsCancelled, JobStatuses

LEMMA InviteTypes ==
  ASSUME TypeOK, NEW t \in Trials
  PROVE  /\ InvitesExpired(t)
               \in [Trials -> [Candidates -> InviteRow]]
         /\ \A c \in Candidates, v \in 0..MaxVersion :
              [inv EXCEPT ![t] = Invited(t, c, v)]
                \in [Trials -> [Candidates -> InviteRow]]
<1>. DEFINE Row == InviteRow
<1>1. inv \in [Trials -> [Candidates -> Row]]
  BY DEF TypeOK
<1>2. \A f \in [Candidates -> Row] :
        [inv EXCEPT ![t] = f] \in [Trials -> [Candidates -> Row]]
  BY <1>1
<1>3. ASSUME NEW c \in Candidates
      PROVE  (IF inv[t][c].st = "not_started"
                THEN [inv[t][c] EXCEPT !.st = "expired"] ELSE inv[t][c]) \in Row
  BY <1>1 DEF InviteStatuses
<1>4. ASSUME NEW c \in Candidates, NEW v \in 0..MaxVersion
      PROVE  Invited(t, c, v) \in [Candidates -> Row]
  <2>1. [st |-> "not_started", v |-> v] \in Row /\ inv[t] \in [Candidates -> Row]
    BY <1>1 DEF InviteStatuses
  <2>. HIDE DEF Row
  <2>. QED
    BY <2>1 DEF Invited
<1>5. InvitesExpired(t) \in [Trials -> [Candidates -> Row]]
  <2>. HIDE DEF Row
  <2>. QED
    BY <1>2, <1>3 DEF InvitesExpired
<1>. QED
  BY <1>2, <1>4, <1>5

\* A candidate who begins, or an operator who resets, gives one session
\* another status.
LEMMA SessionRow ==
  ASSUME TypeOK, NEW t \in Trials, NEW c \in Candidates,
         Begin(t, c) \/ Reset(t, c)
  PROVE  /\ inv' \in [Trials -> [Candidates -> InviteRow]]
         /\ \A u \in Trials \ {t} : inv'[u] = inv[u]
         /\ \A d \in Candidates :
              /\ inv'[t][d].v = inv[t][d].v
              /\ inv'[t][d].st = "none" <=> inv[t][d].st = "none"
              /\ d # c => inv'[t][d] = inv[t][d]
<1>1. PICK st \in {"not_started", "in_progress"} :
        inv' = [inv EXCEPT ![t][c].st = st]
  BY DEF Begin, Reset
<1>. DEFINE r == [inv[t][c] EXCEPT !.st = st]
<1>2. /\ inv \in [Trials -> [Candidates -> InviteRow]]
      /\ inv[t][c] \in InviteRow /\ inv[t][c].st # "none"
  BY DEF TypeOK, Begin, Reset
<1>3. r \in InviteRow /\ r.v = inv[t][c].v /\ r.st # "none"
  BY <1>2 DEF InviteStatuses
<1>4. inv' = [inv EXCEPT ![t][c] = r]
  BY <1>1, <1>2
<1>. HIDE DEF r
<1>. QED
  BY <1>2, <1>3, <1>4

\* Every step keeps the types.
LEMMA TypeStep == TypeOK /\ [Next]_vars => TypeOK'
<1>. SUFFICES ASSUME TypeOK, [Next]_vars PROVE TypeOK'
  OBVIOUS
<1>. DEFINE VerType == [Trials -> [Versions -> VersionRow]]
<1>0. CASE UNCHANGED vars
  BY <1>0 DEF vars, TypeOK
<1>1. ASSUME NEW t \in Trials, GenerationStep(t) PROVE TypeOK'
  <2>. PICK v \in Versions : \/ Generate(t, v) \/ GenerateAgain(t, v)
                             \/ GenerateFails(t, v) \/ RequeueDead(t, v)
    BY <1>1 DEF GenerationStep
  <2>. USE JobTypes, NewestType DEF JobStatuses
  <2>1. CASE Generate(t, v)
    BY <2>1, GeneratedType DEF Generate, TypeOK
  <2>2. CASE GenerateAgain(t, v)
    BY <2>2, GeneratedType DEF GenerateAgain, TypeOK
  <2>3. CASE GenerateFails(t, v)
    BY <2>3 DEF GenerateFails, TypeOK
  <2>4. CASE RequeueDead(t, v)
    BY <2>4 DEF RequeueDead, TypeOK
  <2>. QED
    BY <2>1, <2>2, <2>3, <2>4
<1>2. ASSUME NEW t \in Trials, ScenarioStep(t) PROVE TypeOK'
  <2>1. CASE Restore(t)
    <3>. DEFINE n == newest[t]
    <3>1. n[1] \in Trials /\ n[2] \in Versions /\ ver[t][1] \in VersionRow
      BY FirstVersion DEF TypeOK
    <3>2. Rewritten(ver[t][1], "generating") \in VersionRow
      BY <3>1, VersionTypes, FirstVersion DEF VersionStatuses
    <3>3. ver' \in VerType
      <4>1. ver' = [ver EXCEPT ![t][1] = Rewritten(ver[t][1], "generating")]
        BY <2>1, FirstVersion DEF Restore, TypeOK
      <4>. QED
        BY <3>2, <4>1, VersionTypes, FirstVersion
    <3>4. trial' \in [Trials -> TrialRow]
      BY <2>1, TrialTypes, FirstVersion DEF Restore, TypeOK, TrialStatuses
    <3>5. /\ job' \in [Trials -> [Versions -> JobStatuses]]
          /\ newest' \in [Trials -> Trials \X Versions]
      <4>1. /\ Newest(n[1], n[2]) \in [Trials -> Trials \X Versions]
            /\ [job EXCEPT ![n[1]][n[2]] = "queued"]
                 \in [Trials -> [Versions -> JobStatuses]]
        BY <3>1, JobTypes, NewestType DEF JobStatuses
      <4>2. CASE job[n[1]][n[2]] = "dead_letter"
        BY <2>1, <4>1, <4>2 DEF Restore
      <4>3. CASE job[n[1]][n[2]] # "dead_letter"
        BY <2>1, <4>3 DEF Restore, TypeOK
      <4>. QED
        BY <4>2, <4>3
    <3>. QED
      BY <2>1, <3>3, <3>4, <3>5 DEF Restore, TypeOK
  <2>2. CASE UpdateActive(t)
    <3>. DEFINE v == trial[t].active
    <3>1. v \in Versions /\ ver[t][v] \in VersionRow
      BY <2>2, FirstVersion DEF UpdateActive, TypeOK
    <3>2. PICK st \in {ver[t][v].st, "draft", "ready"} :
            ver' = [ver EXCEPT ![t][v] = Rewritten(@, st)]
      BY <2>2 DEF UpdateActive
    <3>3. Rewritten(ver[t][v], st) \in VersionRow
      BY <3>1, VersionTypes DEF VersionRow, VersionStatuses
    <3>4. ver' = [ver EXCEPT ![t][v] = Rewritten(ver[t][v], st)]
      BY <3>1, <3>2 DEF TypeOK
    <3>5. ver' \in VerType
      BY <3>1, <3>3, <3>4, VersionTypes
    <3>. QED
      BY <2>2, <3>5 DEF UpdateActive, TypeOK
  <2>3. ASSUME NEW v \in Versions, Regenerate(t, v) PROVE TypeOK'
    <3>. DEFINE r == [st |-> "generating", text |-> ver[t][trial[t].active].text]
    <3>1. ver[t][trial[t].active] \in VersionRow
      BY <2>3, FirstVersion DEF Regenerate, TypeOK
    <3>2. r \in VersionRow
      BY <3>1 DEF VersionRow, VersionStatuses
    <3>3. ver' \in VerType
      BY <2>3, <3>2, VersionTypes DEF Regenerate
    <3>4. trial' \in [Trials -> TrialRow]
      <4>1. v \in 0..MaxVersion /\ "ready_for_review" \in TrialStatuses
        BY FirstVersion DEF TrialStatuses
      <4>. QED
        BY <2>3, <4>1, TrialTypes, FirstVersion DEF Regenerate, TypeOK
    <3>5. /\ job' \in [Trials -> [Versions -> JobStatuses]]
          /\ newest' \in [Trials -> Trials \X Versions]
      BY <2>3, JobTypes, NewestType DEF Regenerate, JobStatuses
    <3>. QED
      BY <2>3, <3>3, <3>4, <3>5 DEF Regenerate, TypeOK
  <2>4. ASSUME NEW v \in Versions, Patch(t, v) PROVE TypeOK'
    <3>1. ver[t][v] \in VersionRow /\ "ready" \in VersionStatuses
      BY DEF TypeOK, VersionStatuses
    <3>2. ver' = [ver EXCEPT ![t][v] = Rewritten(ver[t][v], "ready")]
      BY <2>4 DEF Patch, TypeOK
    <3>3. ver' \in VerType
      BY <3>1, <3>2, VersionTypes
    <3>. QED
      BY <2>4, <3>3 DEF Patch, TypeOK
  <2>5. ASSUME NEW v \in Versions, Fallback(t, v) PROVE TypeOK'
    <3>1. trial' \in [Trials -> TrialRow]
      BY <2>5, TrialTypes, FirstVersion DEF Fallback, TypeOK, TrialStatuses
    <3>. QED
      BY <2>5, <3>1 DEF Fallback, TypeOK
  <2>6. ASSUME NEW v \in Versions, ApproveVersion(t, v) PROVE TypeOK'
    <3>1. v \in 0..MaxVersion /\ NoVersion \in 0..MaxVersion
      BY FirstVersion
    <3>2. trial' \in [Trials -> TrialRow]
      BY <2>6, <3>1, TrialTypes DEF ApproveVersion, TypeOK, TrialStatuses
    <3>. QED
      BY <2>6, <3>2, VersionTypes DEF ApproveVersion, TypeOK
  <2>. QED
    BY <1>2, <2>1, <2>2, <2>3, <2>4, <2>5, <2>6 DEF ScenarioStep
<1>3. ASSUME NEW t \in Trials, LifecycleStep(t) PROVE TypeOK'
  <2>. USE JobTypes, NewestType, FirstVersion
  <2>. DEFINE Typed == trial' \in [Trials -> TrialRow]
  <2>0. ASSUME NEW st \in TrialStatuses, trial' = [trial EXCEPT ![t].st = st]
        PROVE  Typed
    BY <2>0, TrialTypes, 0 \in 0..MaxVersion DEF NoVersion
  <2>1. CASE Create(t)
    <3>1. Typed
      BY <2>0, <2>1 DEF Create, TrialStatuses
    <3>. QED
      BY <2>1, <3>1 DEF Create, TypeOK, JobStatuses
  <2>2. CASE Approve(t)
    <3>1. trial[t].active \in Versions /\ trial[t].active \in 0..MaxVersion
      BY <2>2 DEF Approve, TypeOK
    <3>2. appr' \in [Trials -> 0..MaxVersion]
      BY <2>2, <3>1 DEF Approve, TypeOK
    <3>3. ver' \in VerType
      BY <2>2, <3>1, VersionTypes DEF Approve
    <3>. QED
      BY <2>2, <3>2, <3>3 DEF Approve, TypeOK
  <2>3. CASE ApproveFinish(t)
    <3>1. Typed
      BY <2>0, <2>3 DEF ApproveFinish, TrialStatuses
    <3>. QED
      BY <2>3, <3>1 DEF ApproveFinish, TypeOK
  <2>4. CASE ApproveEnds(t)
    BY <2>4 DEF ApproveEnds, TypeOK
  <2>5. CASE Activate(t)
    <3>1. Typed
      BY <2>0, <2>5 DEF Activate, TrialStatuses
    <3>. QED
      BY <2>5, <3>1 DEF Activate, TypeOK
  <2>6. CASE Terminate(t)
    <3>1. Typed
      BY <2>0, <2>6 DEF Terminate, TrialStatuses
    <3>2. job' \in [Trials -> [Versions -> JobStatuses]]
      <4>1. "queued" \in JobStatuses
        BY DEF JobStatuses
      <4>. QED
        BY <2>6, <4>1 DEF Terminate
    <3>3. inv' \in [Trials -> [Candidates -> InviteRow]]
      BY <2>6, InviteTypes DEF Terminate
    <3>. QED
      BY <2>6, <3>1, <3>2, <3>3 DEF Terminate, TypeOK
  <2>. QED
    BY <1>3, <2>1, <2>2, <2>3, <2>4, <2>5, <2>6 DEF LifecycleStep
<1>4. ASSUME NEW t \in Trials, InviteStep(t) PROVE TypeOK'
  <2>1. CASE BatchEnds(t)
    BY <2>1, FirstVersion DEF BatchEnds, TypeOK
  <2>2. ASSUME NEW c \in Candidates, Invite(t, c) PROVE TypeOK'
    <3>1. trial[t].active \in Versions /\ trial[t].active \in 0..MaxVersion
      BY <2>2, FirstVersion DEF Invite, TypeOK
    <3>2. ver' \in VerType /\ batch' \in [Trials -> 0..MaxVersion]
      BY <2>2, <3>1, VersionTypes DEF Invite, TypeOK
    <3>. QED
      BY <2>2, <3>1, <3>2, InviteTypes DEF Invite, TypeOK
  <2>3. ASSUME NEW c \in Candidates, BatchRow(t, c) PROVE TypeOK'
    <3>1. batch[t] \in Versions /\ batch[t] \in 0..MaxVersion
      BY <2>3, FirstVersion DEF BatchRow, TypeOK
    <3>2. ver' \in VerType
      BY <2>3, <3>1, VersionTypes DEF BatchRow
    <3>. QED
      BY <2>3, <3>1, <3>2, InviteTypes DEF BatchRow, TypeOK
  <2>. QED
    BY <1>4, <2>1, <2>2, <2>3 DEF InviteStep
<1>5. ASSUME NEW t \in Trials, SessionStep(t) PROVE TypeOK'
  <2>. PICK c \in Candidates : Begin(t, c) \/ Reset(t, c)
    BY <1>5 DEF SessionStep
  <2>1. inv' \in [Trials -> [Candidates -> InviteRow]]
    BY SessionRow DEF TypeOK
  <2>2. reset' \subseteq Trials \X Candidates
    BY DEF Begin, Reset, TypeOK
  <2>. QED
    BY <2>1, <2>2 DEF Begin, Reset, TypeOK
<1>. QED
  BY <1>0, <1>1, <1>2, <1>3, <1>4, <1>5 DEF Next


\* No step moves a trial, a version, a job, an invite or a counter out of the
\* values of its column.
THEOREM TypeSafe == Spec => []TypeOK
<1>1. Init => TypeOK
  BY InitInv DEF IInv
<1>. QED
  BY <1>1, TypeStep, PTL DEF Spec

-----------------------------------------------------------------------------
(* Steps that leave the rows of a trial alone *)

\* A job gets cancelled, fails or is requeued.
JobMoves(t) ==
  \A v \in Versions :
    \/ job'[t][v] = job[t][v]
    \/ /\ job[t][v] \in {"queued", "dead_letter"}
       /\ job'[t][v] \in {"queued", "dead_letter"}

\* Nothing of a trial changes but jobs that move.
Same(t) ==
  /\ trial'[t] = trial[t] /\ ver'[t] = ver[t] /\ inv'[t] = inv[t]
  /\ batch'[t] = batch[t] /\ JobMoves(t)
  /\ t \in unlocked' <=> t \in unlocked
  /\ t \in stale' <=> t \in stale
  /\ \A c \in Candidates : <<t, c>> \in reset' <=> <<t, c>> \in reset

LEMMA SameSound ==
  ASSUME NEW t \in Trials, Sound(t), Same(t)
  PROVE  Sound(t)'
<1>1. ActiveOf(t)' /\ JobsOf(t)' /\ InvitesOf(t)' /\ BatchOf(t)'
  BY DEF Sound, Same, JobMoves, ActiveOf, JobsOf, InvitesOf, BatchOf
<1>2. PendingOf(t)' /\ LockedOf(t)' /\ RevokedOf(t)'
  BY DEF Sound, Same, PendingOf, LockedOf, RevokedOf
<1>3. OwedOf(t)'
  BY FirstVersion DEF Sound, Same, JobMoves, OwedOf
<1>. QED
  BY <1>1, <1>2, <1>3 DEF Sound

\* Restoring requeues at most one dead job, of whichever trial.
LEMMA RestoreJobs ==
  ASSUME TypeOK, NEW t \in Trials, NEW u \in Trials, Restore(t)
  PROVE  JobMoves(u)
<1>. DEFINE x == newest[t][1]
            y == newest[t][2]
<1>1. x \in Trials /\ y \in Versions
  BY DEF TypeOK
<1>2. \/ job' = job
      \/ /\ job[x][y] = "dead_letter"
         /\ job' = [job EXCEPT ![x][y] = "queued"]
  BY DEF Restore
<1>3. ASSUME NEW v \in Versions
      PROVE  \/ job'[u][v] = job[u][v]
             \/ job[u][v] = "dead_letter" /\ job'[u][v] = "queued"
  <2>1. job \in [Trials -> [Versions -> JobStatuses]]
    BY DEF TypeOK
  <2>. HIDE DEF x, y
  <2>2. CASE job' = job
    BY <2>2
  <2>3. CASE job[x][y] = "dead_letter" /\ job' = [job EXCEPT ![x][y] = "queued"]
    <3>1. job'[u] = IF u = x THEN [job[u] EXCEPT ![y] = "queued"] ELSE job[u]
      BY <1>1, <2>1, <2>3
    <3>. QED
      BY <1>1, <2>1, <2>3, <3>1
  <2>. QED
    BY <1>2, <2>2, <2>3
<1>. QED
  BY <1>3 DEF JobMoves

\* A step of one trial leaves every other trial alone.
LEMMA Elsewhere ==
  ASSUME TypeOK, NEW t \in Trials, NEW u \in Trials \ {t},
         GenerationStep(t) \/ ScenarioStep(t) \/ LifecycleStep(t)
         \/ InviteStep(t) \/ SessionStep(t)
  PROVE  Same(u)
<1>1. CASE GenerationStep(t)
  <2>. PICK v \in Versions : \/ Generate(t, v) \/ GenerateAgain(t, v)
                             \/ GenerateFails(t, v) \/ RequeueDead(t, v)
    BY <1>1 DEF GenerationStep
  <2>1. Generated(t, v) => /\ trial'[u] = trial[u] /\ ver'[u] = ver[u]
                           /\ u \in unlocked' <=> u \in unlocked
    BY DEF Generated, TypeOK
  <2>2. CASE Generate(t, v)
    BY <2>1, <2>2 DEF Generate, Same, JobMoves, TypeOK
  <2>3. CASE GenerateAgain(t, v)
    BY <2>1, <2>3 DEF GenerateAgain, Same, JobMoves, TypeOK
  <2>4. CASE GenerateFails(t, v)
    BY <2>4 DEF GenerateFails, Same, JobMoves, TypeOK
  <2>5. CASE RequeueDead(t, v)
    BY <2>5 DEF RequeueDead, Same, JobMoves, TypeOK
  <2>. QED
    BY <2>2, <2>3, <2>4, <2>5
<1>2. CASE ScenarioStep(t)
  <2>1. CASE Restore(t)
    BY <2>1, RestoreJobs DEF Restore, Same, TypeOK
  <2>2. CASE UpdateActive(t)
    BY <2>2 DEF UpdateActive, Same, JobMoves, TypeOK
  <2>3. ASSUME NEW v \in Versions, Regenerate(t, v) PROVE Same(u)
    <3>1. trial'[u] = trial[u]
      BY <2>3 DEF Regenerate, TypeOK
    <3>2. ver'[u] = ver[u] /\ job'[u] = job[u]
      BY <2>3 DEF Regenerate, TypeOK
    <3>. QED
      BY <2>3, <3>1, <3>2 DEF Regenerate, Same, JobMoves
  <2>4. ASSUME NEW v \in Versions, Patch(t, v) \/ Fallback(t, v) PROVE Same(u)
    BY <2>4 DEF Patch, Fallback, Same, JobMoves, TypeOK
  <2>5. ASSUME NEW v \in Versions, ApproveVersion(t, v) PROVE Same(u)
    BY <2>5 DEF ApproveVersion, Lock, Same, JobMoves, TypeOK
  <2>. QED
    BY <1>2, <2>1, <2>2, <2>3, <2>4, <2>5 DEF ScenarioStep
<1>3. CASE LifecycleStep(t)
  <2>1. CASE Create(t)
    BY <2>1 DEF Create, Same, JobMoves, TypeOK
  <2>2. CASE Approve(t)
    <3>1. ver'[u] = ver[u]
      BY <2>2 DEF Approve, Lock, TypeOK
    <3>. QED
      BY <2>2, <3>1 DEF Approve, Same, JobMoves
  <2>3. CASE ApproveFinish(t)
    BY <2>3 DEF ApproveFinish, Same, JobMoves, TypeOK
  <2>4. CASE ApproveEnds(t) \/ Activate(t)
    BY <2>4 DEF ApproveEnds, Activate, Same, JobMoves, TypeOK
  <2>5. CASE Terminate(t)
    BY <2>5 DEF Terminate, InvitesExpired, JobsCancelled, Same, JobMoves, TypeOK
  <2>. QED
    BY <1>3, <2>1, <2>2, <2>3, <2>4, <2>5 DEF LifecycleStep
<1>4. CASE InviteStep(t)
  <2>1. CASE BatchEnds(t)
    BY <2>1 DEF BatchEnds, Same, JobMoves, TypeOK
  <2>2. ASSUME NEW c \in Candidates, Invite(t, c) PROVE Same(u)
    BY <2>2 DEF Invite, Lock, Same, JobMoves, TypeOK
  <2>3. ASSUME NEW c \in Candidates, BatchRow(t, c) PROVE Same(u)
    BY <2>3 DEF BatchRow, Lock, Same, JobMoves, TypeOK
  <2>. QED
    BY <1>4, <2>1, <2>2, <2>3 DEF InviteStep
<1>5. CASE SessionStep(t)
  <2>. PICK c \in Candidates : Begin(t, c) \/ Reset(t, c)
    BY <1>5 DEF SessionStep
  <2>1. inv'[u] = inv[u]
    BY SessionRow
  <2>. QED
    BY <2>1 DEF Begin, Reset, Same, JobMoves
<1>. QED
  BY <1>1, <1>2, <1>3, <1>4, <1>5


-----------------------------------------------------------------------------
(* The trial of the step *)

\* What locking a version does to its trial's table.
LEMMA LockRow ==
  ASSUME TypeOK, NEW t \in Trials, NEW v \in Versions, ver' = Lock(t, v)
  PROVE  /\ \A w \in Versions :
              /\ ver'[t][w].st = IF w = v THEN "locked" ELSE ver[t][w].st
              /\ ver'[t][w].text = ver[t][w].text
         /\ \A u \in Trials \ {t} : ver'[u] = ver[u]
<1>1. ver' = [ver EXCEPT ![t][v] = [ver[t][v] EXCEPT !.st = "locked"]]
  BY DEF Lock, TypeOK
<1>2. ver[t] \in [Versions -> VersionRow] /\ ver[t][v] \in VersionRow
  BY DEF TypeOK
<1>3. \A w \in Versions : ver'[t][w] =
        IF w = v THEN [ver[t][v] EXCEPT !.st = "locked"] ELSE ver[t][w]
  BY <1>1, <1>2 DEF TypeOK
<1>. QED
  BY <1>1, <1>2, <1>3 DEF TypeOK, VersionRow

\* What rewriting one does.
LEMMA RewriteRow ==
  ASSUME TypeOK, NEW t \in Trials, NEW v \in Versions, NEW st \in VersionStatuses,
         ver' = [ver EXCEPT ![t][v] = Rewritten(@, st)]
  PROVE  /\ \A w \in Versions :
              ver'[t][w].st = IF w = v THEN st ELSE ver[t][w].st
         /\ \A w \in Versions \ {v} : ver'[t][w] = ver[t][w]
         /\ \A u \in Trials \ {t} : ver'[u] = ver[u]
BY DEF Rewritten, TypeOK

LEMMA GeneratedSound ==
  ASSUME IInv, NEW t \in Trials, NEW v \in Versions,
         Generated(t, v), UNCHANGED <<inv, batch, stale, reset>>,
         job[t][v] # "absent",
         \/ job'[t] = job[t] /\ job[t][v] # "queued"
         \/ job' = [job EXCEPT ![t][v] = "succeeded"]
  PROVE  Sound(t)'
<1>1. TypeOK /\ Sound(t)
  BY DEF IInv
<1>2. /\ job'[t][v] # "absent"
      /\ \A w \in Versions \ {v} : job'[t][w] = job[t][w]
  BY <1>1 DEF TypeOK
<1>3. v # 1 => ver[t][v].st # "absent"
  BY <1>1 DEF Sound, JobsOf
<1>4. CASE Skips(t, v)
  <2>1. trial' = trial /\ ver' = ver /\ unlocked' = unlocked
    BY <1>4 DEF Generated
  <2>2. ActiveOf(t)' /\ JobsOf(t)' /\ InvitesOf(t)' /\ BatchOf(t)'
    BY <1>1, <1>2, <1>3, <2>1 DEF Sound, ActiveOf, JobsOf, InvitesOf, BatchOf
  <2>3. PendingOf(t)' /\ LockedOf(t)' /\ RevokedOf(t)'
    BY <1>1, <2>1 DEF Sound, PendingOf, LockedOf, RevokedOf
  <2>4. OwedOf(t)'
    BY <1>1, <1>2, <1>4, <2>1, FirstVersion
       DEF Sound, PendingOf, OwedOf, Skips
  <2>. QED
    BY <2>2, <2>3, <2>4 DEF Sound
<1>5. CASE ~Skips(t, v)
  <2>. DEFINE a == IF v = 1 THEN 1 ELSE trial[t].active
  <2>1. /\ trial'[t].st = "ready_for_review"
        /\ trial'[t].active = a
        /\ trial'[t].pending = trial[t].pending
    <3>1. trial[t] \in TrialRow
      BY <1>1 DEF TypeOK
    <3>2. trial'[t] = [trial[t] EXCEPT !.st = "ready_for_review", !.active = a]
      BY <1>1, <1>5 DEF Generated, TypeOK
    <3>. QED
      BY <3>1, <3>2
  <2>2. \A w \in Versions : ver'[t][w].st = IF w = v THEN "ready" ELSE ver[t][w].st
    BY <1>1, <1>5, RewriteRow DEF Generated, VersionStatuses
  <2>3. t \notin unlocked' => t \notin unlocked /\ (v = 1 => ver[t][1].st # "locked")
    BY <1>5 DEF Generated
  <2>4. v # 1 => trial[t].active \in Versions
    BY <1>1, <1>3, FirstVersion DEF Sound, ActiveOf, TypeOK
  <2>5. ActiveOf(t)' /\ JobsOf(t)'
    BY <1>1, <1>2, <1>3, <2>1, <2>2, <2>4, FirstVersion
       DEF Sound, ActiveOf, JobsOf, NoVersion
  <2>6. InvitesOf(t)'
    BY <1>1, <2>1, <2>2 DEF Sound, InvitesOf
  <2>7. BatchOf(t)'
    BY <1>1, <2>1, <2>2, FirstVersion DEF Sound, BatchOf, TypeOK
  <2>8. PendingOf(t)'
    <3>. DEFINE p == trial[t].pending
    <3>1. SUFFICES ASSUME p # NoVersion
                   PROVE  /\ p # a
                          /\ ver'[t][p].st \in {"generating", "ready"}
                          /\ \A w \in Versions : w > p => ver'[t][w].st = "absent"
      BY <1>1, <2>1 DEF Sound, PendingOf
    <3>2. p \in Versions
      BY <1>1, <3>1, FirstVersion DEF TypeOK
    <3>3. ~(v > p)
      BY <1>1, <1>3, <3>1, <3>2 DEF Sound, PendingOf, Versions
    <3>. QED
      BY <1>1, <2>1, <2>2, <3>1, <3>2, <3>3 DEF Sound, PendingOf
  <2>9. LockedOf(t)'
    <3>1. v # 1 => ver[t][v].st # "locked"
      BY <1>5 DEF Skips
    <3>. QED
      BY <1>1, <2>2, <2>3, <3>1 DEF Sound, LockedOf, InvitesOf
  <2>10. OwedOf(t)'
    BY <1>1, <1>2, <1>5, <2>1, <2>2 DEF Sound, OwedOf, Skips
  <2>11. RevokedOf(t)'
    BY <2>1 DEF RevokedOf
  <2>. QED
    BY <2>5, <2>6, <2>7, <2>8, <2>9, <2>10, <2>11 DEF Sound
<1>. QED
  BY <1>4, <1>5


LEMMA GenerationSound ==
  ASSUME IInv, NEW t \in Trials, GenerationStep(t)
  PROVE  Sound(t)'
<1>. PICK v \in Versions : \/ Generate(t, v) \/ GenerateAgain(t, v)
                           \/ GenerateFails(t, v) \/ RequeueDead(t, v)
  BY DEF GenerationStep
<1>1. TypeOK /\ Sound(t)
  BY DEF IInv
<1>2. CASE Generate(t, v)
  BY <1>2, GeneratedSound DEF Generate
<1>3. CASE GenerateAgain(t, v)
  BY <1>3, GeneratedSound DEF GenerateAgain
<1>4. CASE GenerateFails(t, v) \/ RequeueDead(t, v)
  <2>1. Same(t)
    BY <1>1, <1>4 DEF GenerateFails, RequeueDead, Same, JobMoves, TypeOK
  <2>. QED
    BY <1>1, <2>1, SameSound
<1>. QED
  BY <1>2, <1>3, <1>4

LEMMA RestoreSound ==
  ASSUME IInv, NEW t \in Trials, Restore(t)
  PROVE  Sound(t)'
<1>1. TypeOK /\ Sound(t) /\ JobMoves(t)
  BY RestoreJobs DEF IInv
<1>2. /\ trial'[t].st = trial[t].st /\ trial'[t].active = 1
      /\ trial'[t].pending = NoVersion
  BY <1>1 DEF Restore, TypeOK
<1>3. \A v \in Versions :
        ver'[t][v].st = IF v = 1 THEN "generating" ELSE ver[t][v].st
  BY <1>1, RewriteRow, FirstVersion DEF Restore, VersionStatuses
<1>4. \A v \in Versions : ver[t][v].st = "absent"
  BY <1>1 DEF Restore, Sound, ActiveOf
<1>5. \A c \in Candidates : inv'[t][c].st = "none" /\ inv'[t][c].v = NoVersion
  BY <1>1, <1>4 DEF Restore, Sound, InvitesOf
<1>6. batch'[t] = NoVersion
  BY <1>1, <1>4, FirstVersion DEF Restore, Sound, BatchOf, TypeOK
<1>7. ActiveOf(t)' /\ InvitesOf(t)' /\ BatchOf(t)' /\ LockedOf(t)' /\ RevokedOf(t)'
  BY <1>2, <1>3, <1>5, <1>6, FirstVersion
     DEF ActiveOf, InvitesOf, BatchOf, LockedOf, RevokedOf, NoVersion
<1>8. JobsOf(t)'
  BY <1>1, <1>3 DEF Sound, JobsOf, JobMoves
<1>9. PendingOf(t)'
  BY <1>2 DEF PendingOf, NoVersion
<1>10. OwedOf(t)'
  BY <1>1, <1>2, FirstVersion DEF Restore, Sound, OwedOf, JobMoves
<1>. QED
  BY <1>7, <1>8, <1>9, <1>10 DEF Sound

LEMMA RegenerateSound ==
  ASSUME IInv, NEW t \in Trials, NEW v \in Versions, Regenerate(t, v)
  PROVE  Sound(t)'
<1>. DEFINE a == trial[t].active
<1>1. TypeOK /\ Sound(t)
  BY DEF IInv
<1>2. /\ trial'[t].st = "ready_for_review"
      /\ trial'[t].active = a
      /\ trial'[t].pending = v
  <2>1. trial[t] \in TrialRow
    BY <1>1 DEF TypeOK
  <2>2. trial'[t] = [trial[t] EXCEPT !.st = "ready_for_review", !.pending = v]
    BY <1>1 DEF Regenerate, TypeOK
  <2>. QED
    BY <2>1, <2>2
<1>3. /\ \A w \in Versions :
           ver'[t][w].st = IF w = v THEN "generating" ELSE ver[t][w].st
      /\ \A w \in Versions : job'[t][w] = IF w = v THEN "queued" ELSE job[t][w]
      /\ inv' = inv /\ batch' = batch
  BY <1>1 DEF Regenerate, TypeOK
<1>4. /\ \A w \in Versions : w >= v => ver[t][w].st = "absent"
      /\ ver[t][v].st = "absent"
  BY DEF Regenerate, IsNextIndex, Versions
<1>5. a \in Versions /\ ver[t][a].st # "absent" /\ a # v /\ v # 1
  <2>1. a \in Versions /\ ver[t][a].st # "absent"
    BY <1>1, FirstVersion DEF Regenerate, Sound, ActiveOf, TypeOK
  <2>. QED
    BY <2>1, <1>4 DEF Versions
<1>6. ActiveOf(t)' /\ JobsOf(t)'
  BY <1>1, <1>2, <1>3, <1>5, FirstVersion DEF Sound, ActiveOf, JobsOf
<1>7. InvitesOf(t)'
  BY <1>1, <1>2, <1>3, <1>4 DEF Sound, InvitesOf
<1>8. BatchOf(t)'
  BY <1>1, <1>2, <1>3, <1>4, FirstVersion DEF Sound, BatchOf, TypeOK
<1>9. PendingOf(t)'
  BY <1>2, <1>3, <1>4, <1>5 DEF PendingOf, Versions
<1>10. LockedOf(t)'
  <2>1. LockedOf(t) /\ InvitesOf(t) /\ inv' = inv /\ unlocked' = unlocked
    BY <1>1 DEF Regenerate, Sound
  <2>. QED
    BY <1>3, <1>4, <2>1 DEF LockedOf, InvitesOf
<1>11. OwedOf(t)' /\ RevokedOf(t)'
  BY <1>2, <1>3 DEF OwedOf, RevokedOf
<1>. QED
  BY <1>6, <1>7, <1>8, <1>9, <1>10, <1>11 DEF Sound

\* Rewriting a version that exists, is not locked and does not go back to
\* being generated.
LEMMA EditSound ==
  ASSUME IInv, NEW t \in Trials, NEW v \in Versions, NEW st \in VersionStatuses,
         ver' = [ver EXCEPT ![t][v] = Rewritten(@, st)],
         UNCHANGED <<trial, job, inv, batch, unlocked, stale, reset>>,
         ver[t][v].st # "absent", st # "absent", ver[t][v].st # "locked",
         v = trial[t].pending => st = "ready"
  PROVE  Sound(t)'
<1>1. TypeOK /\ Sound(t)
  BY DEF IInv
<1>2. \A w \in Versions : ver'[t][w].st = IF w = v THEN st ELSE ver[t][w].st
  BY <1>1, RewriteRow
<1>3. ActiveOf(t)' /\ JobsOf(t)' /\ InvitesOf(t)'
  BY <1>1, <1>2, FirstVersion DEF Sound, ActiveOf, JobsOf, InvitesOf, TypeOK
<1>4. BatchOf(t)'
  BY <1>1, <1>2, FirstVersion DEF Sound, BatchOf, TypeOK
<1>5. PendingOf(t)'
  BY <1>1, <1>2, FirstVersion DEF Sound, PendingOf, TypeOK
<1>6. LockedOf(t)' /\ RevokedOf(t)'
  BY <1>1, <1>2 DEF Sound, LockedOf, RevokedOf, InvitesOf
<1>7. OwedOf(t)'
  BY <1>1, <1>2 DEF Sound, OwedOf
<1>. QED
  BY <1>3, <1>4, <1>5, <1>6, <1>7 DEF Sound

LEMMA FallbackSound ==
  ASSUME IInv, NEW t \in Trials, NEW v \in Versions, Fallback(t, v)
  PROVE  Sound(t)'
<1>1. TypeOK /\ Sound(t)
  BY DEF IInv
<1>2. /\ trial'[t].st = trial[t].st /\ trial'[t].active = v
      /\ trial'[t].pending = NoVersion /\ trial[t].pending = NoVersion
      /\ ver[t][v].st # "absent"
  BY <1>1 DEF Fallback, Usable, TypeOK
<1>3. ActiveOf(t)' /\ JobsOf(t)' /\ InvitesOf(t)' /\ BatchOf(t)'
  BY <1>1, <1>2, FirstVersion
     DEF Fallback, Sound, ActiveOf, JobsOf, InvitesOf, BatchOf
<1>4. PendingOf(t)' /\ LockedOf(t)' /\ OwedOf(t)' /\ RevokedOf(t)'
  BY <1>1, <1>2, FirstVersion
     DEF Fallback, Sound, PendingOf, LockedOf, OwedOf, RevokedOf, NoVersion
<1>. QED
  BY <1>3, <1>4 DEF Sound

LEMMA ApproveVersionSound ==
  ASSUME IInv, NEW t \in Trials, NEW v \in Versions, ApproveVersion(t, v)
  PROVE  Sound(t)'
<1>1. TypeOK /\ Sound(t)
  BY DEF IInv
<1>2. /\ trial'[t].st = trial[t].st /\ trial'[t].active = v
      /\ trial'[t].pending = NoVersion
  <2>1. trial[t] \in TrialRow
    BY <1>1 DEF TypeOK
  <2>2. trial'[t] = [trial[t] EXCEPT !.active = v, !.pending = NoVersion]
    BY <1>1 DEF ApproveVersion, TypeOK
  <2>. QED
    BY <2>1, <2>2
<1>3. \A w \in Versions : ver'[t][w].st = IF w = v THEN "locked" ELSE ver[t][w].st
  BY <1>1, LockRow DEF ApproveVersion
<1>4. UNCHANGED <<job, inv, batch, unlocked, stale, reset>>
  BY DEF ApproveVersion
<1>5. ActiveOf(t)' /\ JobsOf(t)'
  BY <1>1, <1>2, <1>3, <1>4, FirstVersion DEF Sound, ActiveOf, JobsOf
<1>6. InvitesOf(t)'
  BY <1>1, <1>2, <1>3, <1>4, FirstVersion DEF Sound, InvitesOf
<1>7. BatchOf(t)'
  BY <1>1, <1>2, <1>3, <1>4, FirstVersion DEF Sound, BatchOf, TypeOK
<1>8. PendingOf(t)'
  BY <1>2 DEF PendingOf, NoVersion
<1>9. LockedOf(t)' /\ RevokedOf(t)'
  BY <1>1, <1>2, <1>3, <1>4 DEF Sound, LockedOf, RevokedOf, InvitesOf
<1>10. OwedOf(t)'
  BY <1>1, <1>2, <1>4, FirstVersion DEF Sound, OwedOf
<1>. QED
  BY <1>5, <1>6, <1>7, <1>8, <1>9, <1>10 DEF Sound

LEMMA ScenarioSound ==
  ASSUME IInv, NEW t \in Trials, ScenarioStep(t)
  PROVE  Sound(t)'
<1>1. TypeOK /\ Sound(t)
  BY DEF IInv
<1>2. CASE UpdateActive(t)
  <2>. DEFINE v == trial[t].active
  <2>1. v \in Versions /\ ver[t][v].st \notin {"absent", "locked"} /\ v # trial[t].pending
    BY <1>1, <1>2, FirstVersion
       DEF UpdateActive, Sound, ActiveOf, PendingOf, TypeOK
  <2>2. PICK st \in {ver[t][v].st, "draft", "ready"} :
          ver' = [ver EXCEPT ![t][v] = Rewritten(@, st)]
    BY <1>2 DEF UpdateActive
  <2>3. st \in VersionStatuses /\ st # "absent"
    <3>1. ver[t][v] \in VersionRow
      BY <1>1, <2>1 DEF TypeOK
    <3>2. ver[t][v].st \in VersionStatuses
      BY <3>1 DEF VersionRow
    <3>. QED
      BY <2>1, <3>2 DEF VersionStatuses
  <2>4. UNCHANGED <<trial, job, inv, batch, unlocked, stale, reset>>
    BY <1>2 DEF UpdateActive
  <2>. HIDE DEF v
  <2>5. v = trial[t].pending => st = "ready"
    BY <2>1
  <2>. QED
    BY <2>1, <2>2, <2>3, <2>4, <2>5, EditSound
<1>3. ASSUME NEW v \in Versions, Patch(t, v)
      PROVE  Sound(t)'
  BY <1>3, EditSound DEF Patch, VersionStatuses
<1>. QED
  BY <1>2, <1>3, RestoreSound, RegenerateSound, FallbackSound, ApproveVersionSound
     DEF ScenarioStep


LEMMA LifecycleSound ==
  ASSUME IInv, NEW t \in Trials, LifecycleStep(t)
  PROVE  Sound(t)'
<1>1. TypeOK /\ Sound(t)
  BY DEF IInv
<1>2. CASE Create(t)
  <2>1. /\ trial'[t].active = trial[t].active /\ trial'[t].st = "generating"
        /\ trial'[t].pending = trial[t].pending
        /\ \A v \in Versions : job'[t][v] = IF v = 1 THEN "queued" ELSE job[t][v]
        /\ UNCHANGED <<ver, inv, batch, unlocked, stale>>
    BY <1>1, <1>2 DEF Create, TypeOK
  <2>2. ActiveOf(t)' /\ JobsOf(t)' /\ InvitesOf(t)' /\ BatchOf(t)'
    BY <1>1, <2>1 DEF Sound, ActiveOf, JobsOf, InvitesOf, BatchOf
  <2>3. PendingOf(t)' /\ LockedOf(t)' /\ RevokedOf(t)'
    BY <1>1, <2>1 DEF Sound, PendingOf, LockedOf, RevokedOf
  <2>4. OwedOf(t)'
    BY <1>1, <1>2, <2>1, FirstVersion DEF Create, Sound, OwedOf
  <2>. QED
    BY <2>2, <2>3, <2>4 DEF Sound
<1>3. CASE Approve(t)
  <2>. DEFINE v == trial[t].active
  <2>1. v \in Versions /\ trial[t].pending = NoVersion
    BY <1>1, <1>3, FirstVersion DEF Approve, TypeOK
  <2>2. \A w \in Versions : ver'[t][w].st = IF w = v THEN "locked" ELSE ver[t][w].st
    BY <1>1, <1>3, <2>1, LockRow DEF Approve
  <2>3. UNCHANGED <<trial, job, inv, batch, unlocked, stale, reset>>
    BY <1>3 DEF Approve
  <2>4. ActiveOf(t)' /\ JobsOf(t)' /\ InvitesOf(t)'
    BY <1>1, <2>1, <2>2, <2>3, FirstVersion
       DEF Sound, ActiveOf, JobsOf, InvitesOf, TypeOK
  <2>5. BatchOf(t)'
    BY <1>1, <2>2, <2>3, FirstVersion DEF Sound, BatchOf, TypeOK
  <2>6. PendingOf(t)' /\ LockedOf(t)' /\ RevokedOf(t)'
    BY <1>1, <2>1, <2>2, <2>3
       DEF Sound, PendingOf, LockedOf, RevokedOf, InvitesOf, NoVersion
  <2>7. OwedOf(t)'
    BY <1>1, <2>1, <2>2, <2>3 DEF Sound, OwedOf
  <2>. QED
    BY <2>4, <2>5, <2>6, <2>7 DEF Sound
<1>4. CASE ApproveFinish(t) \/ Activate(t)
  <2>1. /\ trial'[t].active = trial[t].active /\ trial'[t].st = "active_inviting"
        /\ trial'[t].pending = trial[t].pending
        /\ UNCHANGED <<ver, job, inv, batch, unlocked, reset>>
    BY <1>1, <1>4 DEF ApproveFinish, Activate, TypeOK
  <2>2. t \notin stale' => trial[t].pending = NoVersion
    BY <1>4 DEF ApproveFinish, Activate
  <2>3. ActiveOf(t)' /\ JobsOf(t)' /\ InvitesOf(t)' /\ BatchOf(t)'
    BY <1>1, <2>1 DEF Sound, ActiveOf, JobsOf, InvitesOf, BatchOf
  <2>4. PendingOf(t)' /\ LockedOf(t)' /\ RevokedOf(t)'
    BY <1>1, <2>1 DEF Sound, PendingOf, LockedOf, RevokedOf
  <2>5. OwedOf(t)'
    <3>1. \A v \in Versions : t \notin stale' => v # trial'[t].pending
      BY <2>1, <2>2, FirstVersion
    <3>. QED
      BY <2>1, <3>1 DEF OwedOf
  <2>. QED
    BY <2>3, <2>4, <2>5 DEF Sound
<1>5. CASE ApproveEnds(t)
  <2>1. Same(t)
    BY <1>5 DEF ApproveEnds, Same, JobMoves
  <2>. QED
    BY <1>1, <2>1, SameSound
<1>6. CASE Terminate(t)
  <2>1. /\ trial'[t].active = trial[t].active /\ trial'[t].st = "terminated"
        /\ trial'[t].pending = trial[t].pending
        /\ UNCHANGED <<ver, batch, unlocked, stale, reset>>
    BY <1>1, <1>6 DEF Terminate, TypeOK
  <2>2. JobMoves(t)
    BY <1>1, <1>6 DEF Terminate, JobsCancelled, JobMoves
  <2>3. \A c \in Candidates :
          /\ inv'[t][c].v = inv[t][c].v /\ inv'[t][c].st # "not_started"
          /\ inv'[t][c].st = "none" <=> inv[t][c].st = "none"
    <3>1. \A c \in Candidates : inv[t][c] \in InviteRow
      BY <1>1 DEF TypeOK
    <3>2. \A c \in Candidates : inv'[t][c] =
            IF inv[t][c].st = "not_started"
              THEN [inv[t][c] EXCEPT !.st = "expired"] ELSE inv[t][c]
      BY <1>1, <1>6 DEF Terminate, InvitesExpired, TypeOK
    <3>. QED
      BY <3>1, <3>2
  <2>4. ActiveOf(t)' /\ JobsOf(t)' /\ BatchOf(t)' /\ PendingOf(t)'
    BY <1>1, <2>1, <2>2 DEF Sound, ActiveOf, JobsOf, BatchOf, PendingOf, JobMoves
  <2>5. InvitesOf(t)' /\ LockedOf(t)' /\ RevokedOf(t)'
    <3>1. InvitesOf(t)'
      BY <1>1, <2>1, <2>3 DEF Sound, InvitesOf
    <3>2. LockedOf(t)' /\ RevokedOf(t)'
      BY <1>1, <2>1, <2>3 DEF Sound, LockedOf, RevokedOf
    <3>. QED
      BY <3>1, <3>2
  <2>6. OwedOf(t)'
    BY <2>1 DEF OwedOf
  <2>. QED
    BY <2>4, <2>5, <2>6 DEF Sound
<1>. QED
  BY <1>2, <1>3, <1>4, <1>5, <1>6 DEF LifecycleStep

\* An invite of whatever version a request holds in its trial object.
LEMMA InvitedSound ==
  ASSUME IInv, NEW t \in Trials, NEW c \in Candidates, NEW v \in Versions,
         Usable(t, v), v # trial[t].pending,
         ver' = Lock(t, v), inv' = [inv EXCEPT ![t] = Invited(t, c, v)],
         UNCHANGED <<trial, job, unlocked, reset>>,
         batch' = batch \/ batch' = [batch EXCEPT ![t] = v],
         t \notin stale' => t \notin stale /\ trial[t].st = "active_inviting"
  PROVE  Sound(t)'
<1>1. TypeOK /\ Sound(t)
  BY DEF IInv
<1>2. \A w \in Versions : ver'[t][w].st = IF w = v THEN "locked" ELSE ver[t][w].st
  BY <1>1, LockRow
<1>3. \A d \in Candidates :
        \/ inv'[t][d] = inv[t][d]
        \/ inv'[t][d] = [st |-> "not_started", v |-> v]
  <2>1. inv'[t] = Invited(t, c, v) /\ inv[t] \in [Candidates -> InviteRow]
    BY <1>1 DEF TypeOK
  <2>. QED
    BY <2>1 DEF Invited
<1>4. batch'[t] = batch[t] \/ batch'[t] = v
  BY <1>1 DEF TypeOK
<1>5. ver[t][v].st # "absent"
  BY DEF Usable
<1>6. ActiveOf(t)' /\ JobsOf(t)'
  BY <1>1, <1>2, <1>5, FirstVersion DEF Sound, ActiveOf, JobsOf, TypeOK
<1>7. InvitesOf(t)'
  BY <1>1, <1>2, <1>3 DEF Sound, InvitesOf
<1>8. BatchOf(t)'
  BY <1>1, <1>2, <1>4, FirstVersion DEF Sound, BatchOf, TypeOK
<1>9. PendingOf(t)'
  BY <1>1, <1>2, <1>5, FirstVersion DEF Sound, PendingOf, TypeOK
<1>10. LockedOf(t)'
  BY <1>1, <1>2, <1>3 DEF Sound, LockedOf, InvitesOf
<1>11. OwedOf(t)' /\ RevokedOf(t)'
  BY <1>1, <1>2 DEF Sound, OwedOf, RevokedOf
<1>. QED
  BY <1>6, <1>7, <1>8, <1>9, <1>10, <1>11 DEF Sound

LEMMA InviteSound ==
  ASSUME IInv, NEW t \in Trials, InviteStep(t)
  PROVE  Sound(t)'
<1>1. TypeOK /\ Sound(t)
  BY DEF IInv
<1>2. CASE BatchEnds(t)
  <2>1. /\ batch'[t] = NoVersion
        /\ UNCHANGED <<trial, ver, job, inv, unlocked, stale, reset>>
    BY <1>1, <1>2 DEF BatchEnds, TypeOK
  <2>2. ActiveOf(t)' /\ JobsOf(t)' /\ InvitesOf(t)' /\ BatchOf(t)'
    BY <1>1, <2>1 DEF Sound, ActiveOf, JobsOf, InvitesOf, BatchOf
  <2>3. PendingOf(t)' /\ LockedOf(t)' /\ OwedOf(t)' /\ RevokedOf(t)'
    BY <1>1, <2>1 DEF Sound, PendingOf, LockedOf, OwedOf, RevokedOf
  <2>. QED
    BY <2>2, <2>3 DEF Sound
<1>3. ASSUME NEW c \in Candidates, Invite(t, c)
      PROVE  Sound(t)'
  <2>1. trial[t].active \in Versions /\ trial[t].active # trial[t].pending
    BY <1>1, <1>3, FirstVersion DEF Invite, Invitable, TypeOK
  <2>. QED
    BY <1>3, <2>1, InvitedSound DEF Invite, Invitable
<1>4. ASSUME NEW c \in Candidates, BatchRow(t, c)
      PROVE  Sound(t)'
  <2>1. batch[t] \in Versions /\ batch[t] # trial[t].pending
    BY <1>1, <1>4, FirstVersion DEF BatchRow, Sound, BatchOf, TypeOK
  <2>2. t \notin stale' => t \notin stale /\ trial[t].st = "active_inviting"
    BY <1>4 DEF BatchRow, Invitable
  <2>. QED
    BY <1>4, <2>1, <2>2, InvitedSound DEF BatchRow
<1>. QED
  BY <1>2, <1>3, <1>4 DEF InviteStep

LEMMA SessionSound ==
  ASSUME IInv, NEW t \in Trials, SessionStep(t)
  PROVE  Sound(t)'
<1>. PICK c \in Candidates : Begin(t, c) \/ Reset(t, c)
  BY DEF SessionStep
<1>1. TypeOK /\ Sound(t)
  BY DEF IInv
<1>2. UNCHANGED <<trial, ver, job, batch, unlocked, stale>>
  BY DEF Begin, Reset
<1>3. \A d \in Candidates :
        /\ inv'[t][d].v = inv[t][d].v
        /\ inv'[t][d].st = "none" <=> inv[t][d].st = "none"
        /\ d # c => inv'[t][d] = inv[t][d]
  BY <1>1, SessionRow
<1>4. reset \subseteq reset' /\ (trial[t].st = "terminated" => <<t, c>> \in reset')
  BY DEF Begin, Reset
<1>5. ActiveOf(t)' /\ JobsOf(t)' /\ BatchOf(t)' /\ PendingOf(t)' /\ OwedOf(t)'
  BY <1>1, <1>2 DEF Sound, ActiveOf, JobsOf, BatchOf, PendingOf, OwedOf
<1>6. InvitesOf(t)' /\ LockedOf(t)'
  BY <1>1, <1>2, <1>3 DEF Sound, InvitesOf, LockedOf
<1>7. RevokedOf(t)'
  BY <1>1, <1>2, <1>3, <1>4 DEF Sound, RevokedOf
<1>. QED
  BY <1>5, <1>6, <1>7 DEF Sound

-----------------------------------------------------------------------------
(* Theorems *)

LEMMA IInvStep == IInv /\ [Next]_vars => IInv'
<1>. SUFFICES ASSUME IInv, [Next]_vars PROVE IInv'
  OBVIOUS
<1>1. TypeOK'
  BY TypeStep DEF IInv
<1>2. ASSUME NEW u \in Trials PROVE Sound(u)'
  <2>1. CASE UNCHANGED vars
    BY <2>1, SameSound DEF IInv, vars, Same, JobMoves
  <2>2. ASSUME NEW t \in Trials,
               GenerationStep(t) \/ ScenarioStep(t) \/ LifecycleStep(t)
               \/ InviteStep(t) \/ SessionStep(t)
        PROVE  Sound(u)'
    <3>1. CASE u = t
      BY <2>2, <3>1, GenerationSound, ScenarioSound, LifecycleSound, InviteSound,
         SessionSound
    <3>2. CASE u # t
      BY <2>2, <3>2, Elsewhere, SameSound DEF IInv
    <3>. QED
      BY <3>1, <3>2
  <2>. QED
    BY <2>1, <2>2 DEF Next
<1>. QED
  BY <1>1, <1>2 DEF IInv

LEMMA Inductive == Spec => []IInv
BY InitInv, IInvStep, PTL DEF Spec

\* No schedule of regenerations, edits, approvals, fallbacks, terminations and
\* invites, however outdated the trial objects of the requests are, unlocks the
\* version a candidate was invited to; a default generation is the exception.
THEOREM InvitesPinVersions == Spec => []InvitedLocked
<1>1. IInv => InvitedLocked
  BY DEF IInv, Sound, LockedOf, InvitedLocked
<1>. QED
  BY <1>1, Inductive, PTL

\* Nor does any of them invite a candidate to a version that awaits its
\* approval.
THEOREM InvitesAreApproved == Spec => []InvitedApproved
<1>1. IInv => InvitedApproved
  BY DEF IInv, Sound, InvitesOf, InvitedApproved
<1>. QED
  BY <1>1, Inductive, PTL

\* The version that awaits its approval stays the last one, not active and not
\* locked.
THEOREM PendingStaysOpen == Spec => []PendingOpen
<1>1. IInv => PendingOpen
  BY DEF IInv, Sound, PendingOf, PendingOpen
<1>. QED
  BY <1>1, Inductive, PTL

\* A generation that a trial waits for is queued or can be requeued, whatever
\* jobs the terminations of other trials cancel.
THEOREM GenerationsAreOwed == Spec => []GenerationOwed
<1>1. IInv => GenerationOwed
  BY DEF IInv, Sound, OwedOf, GenerationOwed
<1>. QED
  BY <1>1, Inductive, PTL

\* A terminated trial keeps no open invite, unless a request went on with an
\* outdated trial object or an operator reset that session after the
\* termination.
THEOREM TerminationRevokes == Spec => []TerminatedRevoked
<1>1. IInv => TerminatedRevoked
  BY DEF IInv, Sound, RevokedOf, TerminatedRevoked
<1>. QED
  BY <1>1, Inductive, PTL


-----------------------------------------------------------------------------
(* What a step does to the text of an invite's version *)

\* The text of every version that an invite of t names stays as it is.
TextsKept(t) ==
  \A c \in Candidates : inv[t][c].st # "none" =>
    ver'[t][inv[t][c].v].text = ver[t][inv[t][c].v].text

\* A step that rewrites a version other than those, or none.
LEMMA OtherRowKept ==
  ASSUME IInv, NEW t \in Trials, t \notin unlocked, NEW v \in Versions,
         ver[t][v].st # "locked",
         \A w \in Versions \ {v} : ver'[t][w] = ver[t][w]
  PROVE  TextsKept(t)
<1>1. Sound(t)
  BY DEF IInv
<1>. QED
  BY <1>1 DEF Sound, LockedOf, InvitesOf, TextsKept

LEMMA LockedKept ==
  ASSUME IInv, NEW t \in Trials, NEW v \in Versions, ver' = Lock(t, v)
  PROVE  TextsKept(t)
<1>1. TypeOK /\ Sound(t)
  BY DEF IInv
<1>2. \A w \in Versions : ver'[t][w].text = ver[t][w].text
  BY <1>1, LockRow
<1>. QED
  BY <1>1, <1>2 DEF Sound, InvitesOf, TextsKept

LEMMA StepKept ==
  ASSUME IInv, NEW t \in Trials, t \notin unlocked',
         GenerationStep(t) \/ ScenarioStep(t) \/ LifecycleStep(t)
         \/ InviteStep(t) \/ SessionStep(t)
  PROVE  TextsKept(t)
<1>1. TypeOK /\ Sound(t)
  BY DEF IInv
<1>2. CASE ver' = ver
  BY <1>2 DEF TextsKept
<1>3. ASSUME NEW v \in Versions, Generated(t, v)
      PROVE  TextsKept(t)
  <2>1. CASE Skips(t, v)
    BY <1>2, <1>3, <2>1 DEF Generated
  <2>2. CASE ~Skips(t, v)
    <3>1. t \notin unlocked /\ ver[t][v].st # "locked"
      BY <1>3, <2>2 DEF Generated, Skips
    <3>2. \A w \in Versions \ {v} : ver'[t][w] = ver[t][w]
      BY <1>1, <1>3, <2>2, RewriteRow DEF Generated, VersionStatuses
    <3>. QED
      BY <3>1, <3>2, OtherRowKept
  <2>. QED
    BY <2>1, <2>2
<1>4. CASE GenerationStep(t)
  BY <1>2, <1>3, <1>4
     DEF GenerationStep, Generate, GenerateAgain, GenerateFails, RequeueDead
<1>5. CASE Restore(t)
  <2>1. ver[t][1].st # "locked" /\ t \notin unlocked
    BY <1>1, <1>5, FirstVersion DEF Restore, Sound, ActiveOf
  <2>2. \A w \in Versions \ {1} : ver'[t][w] = ver[t][w]
    BY <1>1, <1>5, FirstVersion, RewriteRow DEF Restore, VersionStatuses
  <2>. QED
    BY <2>1, <2>2, FirstVersion, OtherRowKept
<1>6. CASE UpdateActive(t)
  <2>. DEFINE v == trial[t].active
  <2>1. v \in Versions /\ ver[t][v].st # "locked" /\ t \notin unlocked
    BY <1>1, <1>6, FirstVersion DEF UpdateActive, TypeOK
  <2>2. \A w \in Versions \ {v} : ver'[t][w] = ver[t][w]
    BY <1>1, <1>6 DEF UpdateActive, TypeOK
  <2>. QED
    BY <2>1, <2>2, OtherRowKept
<1>7. ASSUME NEW v \in Versions, Regenerate(t, v) \/ Patch(t, v)
      PROVE  TextsKept(t)
  <2>1. ver[t][v].st # "locked" /\ t \notin unlocked
    BY <1>7 DEF Regenerate, IsNextIndex, Patch, Versions
  <2>2. \A w \in Versions \ {v} : ver'[t][w] = ver[t][w]
    BY <1>1, <1>7 DEF Regenerate, Patch, TypeOK
  <2>. QED
    BY <2>1, <2>2, OtherRowKept
<1>8. ASSUME NEW v \in Versions, Fallback(t, v) \/ ApproveVersion(t, v)
      PROVE  TextsKept(t)
  BY <1>2, <1>8, LockedKept DEF Fallback, ApproveVersion
<1>9. CASE LifecycleStep(t)
  <2>1. CASE Approve(t)
    <3>1. trial[t].active \in Versions /\ ver' = Lock(t, trial[t].active)
      BY <1>1, <2>1, FirstVersion DEF Approve, TypeOK
    <3>. QED
      BY <3>1, LockedKept
  <2>2. CASE ~Approve(t)
    BY <1>2, <1>9, <2>2
       DEF LifecycleStep, Create, ApproveFinish, ApproveEnds, Activate, Terminate
  <2>. QED
    BY <2>1, <2>2
<1>10. CASE InviteStep(t)
  <2>1. ASSUME NEW c \in Candidates, Invite(t, c) \/ BatchRow(t, c)
        PROVE  TextsKept(t)
    <3>1. PICK v \in Versions : ver' = Lock(t, v)
      BY <1>1, <2>1, FirstVersion DEF Invite, BatchRow, TypeOK
    <3>. QED
      BY <3>1, LockedKept
  <2>. QED
    BY <1>2, <1>10, <2>1 DEF InviteStep, BatchEnds
<1>11. CASE SessionStep(t)
  BY <1>2, <1>11 DEF SessionStep, Begin, Reset
<1>. QED
  BY <1>4, <1>5, <1>6, <1>7, <1>8, <1>9, <1>10, <1>11 DEF ScenarioStep

\* What a candidate was invited to never changes, with the same exception: no
\* regeneration, edit or approval reaches the text of a version that an invite
\* names.
THEOREM InvitesAreFrozen == Spec => InvitedFrozen
<1>1. ASSUME IInv, Next, NEW u \in Trials \ unlocked'
      PROVE  TextsKept(u)
  <2>. PICK t \in Trials :
         GenerationStep(t) \/ ScenarioStep(t) \/ LifecycleStep(t)
         \/ InviteStep(t) \/ SessionStep(t)
    BY <1>1 DEF Next
  <2>1. CASE u = t
    BY <1>1, <2>1, StepKept
  <2>2. CASE u # t
    <3>1. ver'[u] = ver[u]
      BY <1>1, <2>2, Elsewhere DEF IInv, Same
    <3>. QED
      BY <3>1 DEF TextsKept
  <2>. QED
    BY <2>1, <2>2
<1>2. IInv /\ [Next]_vars =>
        [\A t \in Trials \ unlocked' : \A c \in Candidates :
           inv[t][c].st # "none" =>
             ver'[t][inv[t][c].v].text = ver[t][inv[t][c].v].text]_vars
  BY <1>1 DEF TextsKept
<1>. QED
  BY <1>2, Inductive, PTL DEF Spec, InvitedFrozen


=============================================================================
