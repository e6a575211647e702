-------------------------- MODULE PromotionProofs --------------------------
(***************************************************************************)
(* Machine-checked refinement: the roster with the real queue and workers  *)
(* implements module Enrollment, for every catalogue, number of processes, *)
(* schedule and bound.                                                     *)
(***************************************************************************)
EXTENDS Promotion, JobQueueProofs

-----------------------------------------------------------------------------
(* The invariant of the composition: that of the queue, and the following. *)

RowOf(V) == [student : Users, section : Sections, status : V, rank : V]

\* Every row of the roster is a row of a section that exists.
RowsKnown == \E V : enrollments \in Seq(RowOf(V))

\* Only drops enqueue here, so every job is about a section.
KindsKnown == \A j \in JobIds : jobs[j].kind \in Sections

HistoryTyped == settled \in [Sections -> BOOLEAN] /\ forfeited \in [Sections -> Nat]

\* A section one of whose jobs is carried out or given up is settled, so that a
\* late or repeated run of the job is one that the roster allows.
OverIsSettled == \A j \in JobIds : j \notin Outstanding(jobs[j].kind) => settled[jobs[j].kind]

\* A worker reports an error only where handlers may fail.
ErrorsAllowed == \A w \in Workers : workers[w].phase = "error" => HandlersFail

PInv == IInv /\ RowsKnown /\ KindsKnown /\ HistoryTyped /\ OverIsSettled /\ ErrorsAllowed

\* The number of outstanding jobs of each section: promotionJobs of Enrollment.
Counts == [s \in Sections |-> Cardinality(Outstanding(s))]
-----------------------------------------------------------------------------
(* The outstanding jobs. *)

\* They are finitely many, for each section.
LEMMA OutstandingFinite ==
  ASSUME TypeOK
  PROVE  \A s : IsFiniteSet(Outstanding(s)) /\ Cardinality(Outstanding(s)) \in Nat
<1>1. JobIds = 1..Len(jobs) /\ Len(jobs) \in Nat
  BY DEF TypeOK, JobIds
<1>2. IsFiniteSet(JobIds)
  BY <1>1, FS_Interval
<1>3. \A s : Outstanding(s) \subseteq JobIds
  BY DEF Outstanding, JobIds
<1>4. \A s : IsFiniteSet(Outstanding(s))
  BY <1>2, <1>3, FS_Subset
<1> QED
  BY <1>4, FS_CardinalityType

\* They stay the same when no row is added, finished or carried out.
LEMMA OutstandingStays ==
  ASSUME JobIds' = JobIds, completed' = completed,
         \A j \in JobIds : /\ jobs'[j].kind = jobs[j].kind
                           /\ Terminal(jobs'[j].state) <=> Terminal(jobs[j].state)
  PROVE  \A s : Outstanding(s)' = Outstanding(s)
BY DEF Outstanding, JobIds

\* A queue step that settles nothing leaves the history alone.
LEMMA SettlesNothing ==
  ASSUME HistoryTyped, \A s : Outstanding(s)' = Outstanding(s), Settle
  PROVE  UNCHANGED history
<1>1. ASSUME NEW s \in Sections PROVE settled'[s] = settled[s] /\ forfeited'[s] = forfeited[s]
  <2>1. Outstanding(s) \ Outstanding(s)' = {}
    OBVIOUS
  <2>2. settled'[s] = (settled[s] \/ Outstanding(s) \ Outstanding(s)' # {})
    <3>1. settled' = [t \in Sections |-> settled[t] \/ Outstanding(t) \ Outstanding(t)' # {}]
      BY DEF Settle
    <3> QED
      BY <3>1, Zenon
  <2>3. settled[s] \in BOOLEAN /\ forfeited[s] \in Nat
    BY DEF HistoryTyped
  <2>4. settled'[s] = settled[s]
    <3>1. CASE settled[s] = TRUE
      <4>1. settled'[s] = TRUE
        BY <2>2, <3>1, Zenon
      <4> QED
        BY <3>1, <4>1
    <3>2. CASE settled[s] = FALSE
      <4>1. settled'[s] = FALSE
        BY <2>1, <2>2, <3>2, Zenon
      <4> QED
        BY <3>2, <4>1
    <3> QED
      BY <2>3, <3>1, <3>2
  <2>5. forfeited'[s] = forfeited[s] + Cardinality({j \in Outstanding(s) \ Outstanding(s)' :
                          j \notin completed' \/ ~AcceptsEnrollment(sections[s])})
    BY DEF Settle
  <2>6. {j \in Outstanding(s) \ Outstanding(s)' :
           j \notin completed' \/ ~AcceptsEnrollment(sections[s])} = {}
    BY <2>1
  <2>7. forfeited'[s] = forfeited[s] + 0
    BY <2>5, <2>6, FS_EmptySet
  <2> QED
    BY <2>3, <2>4, <2>7
<1>2. /\ settled' = [s \in Sections |-> settled'[s]] /\ forfeited' = [s \in Sections |-> forfeited'[s]]
      /\ settled = [s \in Sections |-> settled[s]] /\ forfeited = [s \in Sections |-> forfeited[s]]
  BY DEF Settle, HistoryTyped
<1> QED
  BY <1>1, <1>2 DEF history

\* A queue step that settles job n of section s: one outstanding job less, and a
\* forfeit when it was given up or found the section closed.
LEMMA SettlesOne ==
  ASSUME TypeOK, HistoryTyped, KindsKnown, OverIsSettled, JobIds' = JobIds,
         \A j \in JobIds : jobs'[j].kind = jobs[j].kind,
         NEW n \in JobIds, NEW s \in Sections, jobs[n].kind = s, n \in Outstanding(s),
         \A t : Outstanding(t)' = Outstanding(t) \ {n},
         Settle
  PROVE  /\ Counts[s] > 0 /\ Counts' = [Counts EXCEPT ![s] = @ - 1]
         /\ settled' = [settled EXCEPT ![s] = TRUE]
         /\ forfeited' = [forfeited EXCEPT ![s] =
              IF n \in completed' /\ AcceptsEnrollment(sections[s]) THEN @ ELSE @ + 1]
         /\ KindsKnown' /\ HistoryTyped' /\ OverIsSettled'
<1> DEFINE over(t) == Outstanding(t) \ Outstanding(t)'
           lost(t) == {j \in over(t) : j \notin completed' \/ ~AcceptsEnrollment(sections[t])}
<1>1. \A t : t # s => Outstanding(t)' = Outstanding(t)
  BY DEF Outstanding
<1>2. over(s) = {n} /\ \A t : t # s => over(t) = {}
  BY <1>1
<1>3. /\ settled' = [t \in Sections |-> settled[t] \/ over(t) # {}]
      /\ forfeited' = [t \in Sections |-> forfeited[t] + Cardinality(lost(t))]
  BY DEF Settle
<1>4. settled \in [Sections -> BOOLEAN] /\ forfeited \in [Sections -> Nat]
  BY DEF HistoryTyped
<1>5. settled' = [settled EXCEPT ![s] = TRUE]
  <2>1. settled'[s] = TRUE
    BY <1>2, <1>3, Zenon
  <2>2. ASSUME NEW t \in Sections, t # s PROVE settled'[t] = settled[t]
    <3>1. over(t) = {}
      BY <1>2, <2>2
    <3>2. CASE settled[t] = TRUE
      <4>1. settled'[t] = TRUE
        BY <1>3, <3>2, Zenon
      <4> QED
        BY <3>2, <4>1
    <3>3. CASE settled[t] = FALSE
      <4>1. settled'[t] = FALSE
        BY <1>3, <3>1, <3>3, Zenon
      <4> QED
        BY <3>3, <4>1
    <3> QED
      BY <1>4, <3>2, <3>3
  <2>3. settled' = [t \in Sections |-> settled'[t]]
    BY <1>3
  <2> QED
    BY <1>4, <2>1, <2>2, <2>3
<1>6. forfeited' = [forfeited EXCEPT ![s] =
        IF n \in completed' /\ AcceptsEnrollment(sections[s]) THEN @ ELSE @ + 1]
  <2>1. lost(s) = IF n \in completed' /\ AcceptsEnrollment(sections[s]) THEN {} ELSE {n}
    BY <1>2
  <2>2. \A t : t # s => lost(t) = {}
    BY <1>2
  <2> HIDE DEF lost
  <2>3. Cardinality({}) = 0 /\ Cardinality({n}) = 1
    BY FS_EmptySet, FS_Singleton
  <2>4. Cardinality(lost(s)) = IF n \in completed' /\ AcceptsEnrollment(sections[s]) THEN 0 ELSE 1
    BY <2>1, <2>3
  <2>5. \A t : t # s => Cardinality(lost(t)) = 0
    BY <2>2, <2>3
  <2> DEFINE served == n \in completed' /\ AcceptsEnrollment(sections[s])
  <2>6. forfeited'[s] = IF served THEN forfeited[s] ELSE forfeited[s] + 1
    BY <1>3, <1>4, <2>4
  <2>7. \A t \in Sections : t # s => forfeited'[t] = forfeited[t]
    BY <1>3, <1>4, <2>5
  <2>8. forfeited' = [t \in Sections |-> forfeited'[t]]
    BY <1>3
  <2> HIDE DEF served
  <2>9. forfeited' = [forfeited EXCEPT ![s] = IF served THEN @ ELSE @ + 1]
    BY <1>4, <2>6, <2>7, <2>8
  <2> QED
    BY <2>9 DEF served
<1>7. Counts[s] > 0 /\ Counts' = [Counts EXCEPT ![s] = @ - 1]
  <2>1. \A t : IsFiniteSet(Outstanding(t)) /\ Cardinality(Outstanding(t)) \in Nat
    BY OutstandingFinite
  <2>2. Cardinality(Outstanding(s) \ {n}) = Cardinality(Outstanding(s)) - 1
    BY <2>1, FS_RemoveElement
  <2>3. Cardinality(Outstanding(s) \ {n}) \in Nat
    BY <2>1, FS_RemoveElement, FS_CardinalityType
  <2>4. Cardinality(Outstanding(s)) > 0
    BY <2>1, <2>2, <2>3
  <2>5. \A t \in Sections : Counts[t] = Cardinality(Outstanding(t))
    BY DEF Counts
  <2>6. Counts' = [t \in Sections |-> Cardinality(Outstanding(t)')]
    BY DEF Counts
  <2>7. Cardinality(Outstanding(s)') = Cardinality(Outstanding(s)) - 1
    BY <2>2
  <2>8. \A t \in Sections : t # s => Cardinality(Outstanding(t)') = Cardinality(Outstanding(t))
    BY <1>1
  <2>9. DOMAIN Counts = Sections
    BY DEF Counts
  <2>10. Counts' = [Counts EXCEPT ![s] = @ - 1]
    <3> HIDE DEF Counts, Outstanding
    <3> QED
      BY <2>5, <2>6, <2>7, <2>8, <2>9
  <2> QED
    BY <2>4, <2>5, <2>10
<1>8. KindsKnown'
  BY DEF KindsKnown
<1>9. HistoryTyped'
  BY <1>4, <1>5, <1>6 DEF HistoryTyped
<1>10. OverIsSettled'
  <2>1. SUFFICES ASSUME NEW j \in JobIds, j \notin Outstanding(jobs[j].kind) \/ j = n
                 PROVE  settled'[jobs[j].kind]
    BY DEF OverIsSettled, Outstanding, JobIds
  <2>2. jobs[j].kind \in Sections /\ (j # n => settled[jobs[j].kind])
    BY <2>1 DEF KindsKnown, OverIsSettled
  <2> QED
    BY <1>4, <1>5, <2>2
<1> QED
  BY <1>5, <1>6, <1>7, <1>8, <1>9, <1>10
-----------------------------------------------------------------------------
(* The rows of the roster. *)

\* Rows keep their form when more statuses and ranks are allowed.
LEMMA RowsWiden ==
  ASSUME NEW V, NEW W, V \subseteq W, enrollments \in Seq(RowOf(V))
  PROVE  enrollments \in Seq(RowOf(W))
<1>1. RowOf(V) \subseteq RowOf(W)
  BY DEF RowOf
<1> QED
  BY <1>1

\* A status change keeps the section of every row.
LEMMA MoveKeepsRows ==
  ASSUME RowsKnown, NEW i, NEW target, NEW action, Roster!MoveEnrollment(i, target, action)
  PROVE  RowsKnown'
<1>1. PICK V : enrollments \in Seq(RowOf(V))
  BY DEF RowsKnown
<1>2. PICK rank : rank = Roster!RankAfter(target, enrollments[i].rank)
  OBVIOUS
<1> DEFINE W == V \cup {target, rank}
           r == [enrollments[i] EXCEPT !.status = target, !.rank = rank]
<1>3. enrollments \in Seq(RowOf(W))
  BY <1>1, RowsWiden
<1>4. enrollments' = [enrollments EXCEPT ![i] = r]
  BY <1>2 DEF Roster!MoveEnrollment
<1>5. CASE i \in 1..Len(enrollments)
  <2>1. enrollments[i] \in RowOf(W)
    BY <1>3, <1>5
  <2>2. target \in W /\ rank \in W
    OBVIOUS
  <2> HIDE DEF W
  <2>3. r \in RowOf(W)
    BY <2>1, <2>2, Zenon DEF RowOf
  <2> HIDE DEF r
  <2>4. enrollments' \in Seq(RowOf(W))
    BY <1>3, <1>4, <1>5, <2>3, ExceptSeq
  <2> QED
    BY <2>4 DEF RowsKnown
<1>6. CASE i \notin 1..Len(enrollments)
  <2> HIDE DEF r
  <2>1. enrollments' = enrollments
    BY <1>1, <1>4, <1>6
  <2> QED
    BY <1>1, <2>1 DEF RowsKnown
<1> QED
  BY <1>5, <1>6

\* A new row is one of the section that was claimed.
LEMMA CreateKeepsRows ==
  ASSUME RowsKnown, NEW student \in Users, NEW s \in Sections, NEW status, NEW rank, NEW action,
         Roster!CreateEnrollment(student, s, status, rank, action)
  PROVE  RowsKnown'
<1>1. PICK V : enrollments \in Seq(RowOf(V))
  BY DEF RowsKnown
<1>2. PICK after : after = Roster!RankAfter(status, rank)
  OBVIOUS
<1> DEFINE W == V \cup {status, after}
           r == [student |-> student, section |-> s, status |-> status, rank |-> after]
<1>3. enrollments \in Seq(RowOf(W))
  BY <1>1, RowsWiden
<1>4. enrollments' = Append(enrollments, r)
  BY <1>2 DEF Roster!CreateEnrollment
<1>5. r \in RowOf(W)
  BY DEF RowOf
<1> HIDE DEF r, W
<1>6. enrollments' \in Seq(RowOf(W))
  BY <1>3, <1>4, <1>5, AppendProperties
<1> QED
  BY <1>6 DEF RowsKnown

\* A promotion moves one row or none.
LEMMA PromotionKeepsRows ==
  ASSUME RowsKnown, NEW s, Roster!PromoteWaitlist(s)
  PROVE  RowsKnown'
<1>1. CASE Roster!MoveEnrollment(Roster!HeadOfWaitlist(s), "enrolled", "promote")
  BY <1>1, MoveKeepsRows
<1>2. CASE UNCHANGED enrollments
  BY <1>2 DEF RowsKnown
<1> QED
  BY <1>1, <1>2 DEF Roster!PromoteWaitlist

\* Requests keep the rows; they touch neither the queue nor the history.
LEMMA RequestKeepsRows ==
  ASSUME RowsKnown, Request
  PROVE  RowsKnown'
<1>1. CASE UNCHANGED enrollments
  BY <1>1 DEF RowsKnown
<1>2. ASSUME NEW actor \in Users, NEW student \in Users, NEW s \in Sections,
             Roster!ClaimSeat(actor, student, s)
      PROVE  RowsKnown'
  <2>1. Roster!CreateEnrollment(student, s, "enrolled", 0, "claim")
    BY <1>2 DEF Roster!ClaimSeat
  <2> QED
    BY <2>1, CreateKeepsRows
<1>3. ASSUME NEW actor \in Users, NEW student \in Users, NEW s \in Sections,
             Roster!ClaimWaitlistPlace(actor, student, s)
      PROVE  RowsKnown'
  <2>1. PICK rank : rank = Roster!NextWaitlistRank(s)
    OBVIOUS
  <2>2. Roster!CreateEnrollment(student, s, "waitlisted", rank, "waitlist")
    BY <1>3, <2>1 DEF Roster!ClaimWaitlistPlace
  <2> QED
    BY <2>2, CreateKeepsRows
<1>4. Roster!Paperwork \/ Roster!Tooling => UNCHANGED enrollments
  BY DEF Roster!Paperwork, Roster!Tooling, Roster!SetSectionStatus
<1> QED
  BY <1>1, <1>2, <1>3, <1>4 DEF Request

\* A drop moves a row of a section that exists.
LEMMA DropKeepsRows ==
  ASSUME RowsKnown, NEW actor \in Users, NEW i \in DOMAIN enrollments, Drop(actor, i)
  PROVE  RowsKnown' /\ enrollments[i].section \in Sections
<1>1. PICK target : Roster!MoveEnrollment(i, target, "drop")
  BY DEF Drop, Roster!DropRow
<1>2. PICK V : enrollments \in Seq(RowOf(V))
  BY DEF RowsKnown
<1>3. enrollments[i] \in RowOf(V)
  BY <1>2
<1> QED
  BY <1>1, <1>3, MoveKeepsRows DEF RowOf
-----------------------------------------------------------------------------
(* The steps, as the queue and as the roster see them. *)

\* Steps of a worker, faults and time that neither carry out nor finish a job.
QuietStep ==
  \/ \E w \in Workers :
       \/ Start(w) \/ Claim(w) \/ Leaves(w) \/ Shutdown(w)
       \/ \E outcome \in {"error", "interrupted"} : HandlerReturns(w, outcome)
  \/ Tick

\* The steps of the composition.
LEMMA PromotionCases ==
  ASSUME PromotionNext
  PROVE  \/ Request
         \/ \E actor \in Users, i \in DOMAIN enrollments : Drop(actor, i)
         \/ \E w \in Workers : HandlerCommits(w) \/ OutcomeRecorded(w)
         \/ QuietStep /\ UNCHANGED <<roster, history>>
BY Zenon DEF PromotionNext, PromotionWorkerStep, Surroundings, QuietStep, Leaves

\* A drop is an enqueued job of the row's section, or nothing, to the queue.
LEMMA DropOnQueue ==
  ASSUME RowsKnown, NEW actor \in Users, NEW i \in DOMAIN enrollments, Drop(actor, i)
  PROVE  /\ Roster!FreesSeat(i) => EnqueueWork(enrollments[i].section)
         /\ ~Roster!FreesSeat(i) => UNCHANGED vars
         /\ enrollments[i].section \in Kinds \ {Sweep}
<1>1. enrollments[i].section \in Kinds \ {Sweep}
  BY DropKeepsRows, KindsAssumption
<1> QED
  BY <1>1 DEF Drop, JobOfDrop, EnqueueWork, vars

\* Every step of the composition is a step of the queue or leaves it alone.
LEMMA QueueStep ==
  ASSUME RowsKnown, [PromotionNext]_promotionVars
  PROVE  [Next]_vars
<1>1. CASE Request
  BY <1>1 DEF Request
<1>2. ASSUME NEW actor \in Users, NEW i \in DOMAIN enrollments, Drop(actor, i)
      PROVE  [Next]_vars
  <2>1. (\E kind \in Kinds \ {Sweep} : EnqueueWork(kind)) \/ UNCHANGED vars
    BY <1>2, DropOnQueue
  <2> QED
    BY <2>1 DEF Next
<1>3. ASSUME NEW w \in Workers, HandlerCommits(w) \/ OutcomeRecorded(w) PROVE Next
  BY <1>3, Zenon DEF HandlerCommits, OutcomeRecorded, Next, WorkerStep
<1>4. CASE QuietStep
  BY <1>4, Zenon DEF QuietStep, Leaves, Next, WorkerStep
<1>5. CASE UNCHANGED promotionVars
  BY <1>5 DEF promotionVars
<1> QED
  BY <1>1, <1>2, <1>3, <1>4, <1>5, PromotionCases

\* A worker comes to report an error from a handler that failed, only.
LEMMA ErrorsStep ==
  ASSUME IInv, ErrorsAllowed, [Next]_vars
  PROVE  ErrorsAllowed'
<1>0. TypeOK /\ RowsConsistent /\ ClaimsKnown
  BY DEF IInv, Core
<1>1. ASSUME NEW w \in Workers, Start(w) PROVE ErrorsAllowed'
  <2>1. /\ workers'[w].phase = Idle.phase
        /\ \A v \in Workers : v # w => workers'[v] = workers[v]
    BY <1>0, <1>1, LeaveWrite DEF Start
  <2> QED
    BY <2>1 DEF ErrorsAllowed, Idle
<1>2. ASSUME NEW w \in Workers, Claim(w) PROVE ErrorsAllowed'
  <2>1. workers' = [workers EXCEPT ![w] =
              [phase |-> "handling", job |-> NextJob, attempts |-> jobs[NextJob].attempts + 1,
               cancelled |-> workers[w].cancelled]]
    BY <1>0, <1>2, ClaimEffect
  <2>2. workers \in [Workers -> WorkerRow]
    BY <1>0 DEF TypeOK, WorkerRow
  <2>3. workers'[w].phase = "handling" /\ \A v \in Workers : v # w => workers'[v] = workers[v]
    BY <2>1, <2>2
  <2> QED
    BY <2>3 DEF ErrorsAllowed
<1>3. ASSUME NEW w \in Workers, NEW outcome \in {"ok", "error", "interrupted"},
             HandlerReturns(w, outcome)
      PROVE  ErrorsAllowed'
  <2>1. outcome \in Phases /\ (outcome = "error" => HandlersFail)
    BY <1>3 DEF Phases, HandlerReturns
  <2>2. workers' = [workers EXCEPT ![w].phase = outcome]
    BY <1>3 DEF HandlerReturns
  <2>3. workers'[w].phase = outcome /\ \A v \in Workers : v # w => workers'[v] = workers[v]
    BY <1>0, <2>1, <2>2, PhaseWrite
  <2> QED
    BY <2>1, <2>3 DEF ErrorsAllowed
<1>4. ASSUME NEW w \in Workers, RecordOutcome(w) PROVE ErrorsAllowed'
  <2>1. /\ workers'[w].phase \in {"idle", "down", "auditing"}
        /\ \A v \in Workers : v # w => workers'[v] = workers[v]
    BY <1>0, <1>4, RecordEffect
  <2> QED
    BY <2>1 DEF ErrorsAllowed
<1>5. ASSUME NEW w \in Workers, Leaves(w) PROVE ErrorsAllowed'
  <2>1. /\ workers'[w].phase \in {"idle", "down"}
        /\ \A v \in Workers : v # w => workers'[v] = workers[v]
    BY <1>0, <1>5, LeaveEffect
  <2> QED
    BY <2>1 DEF ErrorsAllowed
<1>6. ASSUME NEW w \in Workers, Shutdown(w) PROVE ErrorsAllowed'
  <2>1. workers' = [workers EXCEPT ![w].cancelled = TRUE]
    BY <1>6 DEF Shutdown
  <2>2. /\ workers'[w].phase = workers[w].phase
        /\ \A v \in Workers : v # w => workers'[v] = workers[v]
    BY <1>0, <2>1, CancelWrite
  <2> QED
    BY <2>2 DEF ErrorsAllowed
<1>7. CASE UNCHANGED workers
  BY <1>7 DEF ErrorsAllowed
<1>8. ASSUME (\E w \in Workers : CountQueued(w) \/ EnqueueSweep(w))
             \/ (\E kind \in Kinds \ {Sweep} : EnqueueWork(kind)) \/ Tick \/ UNCHANGED vars
      PROVE  UNCHANGED workers
  BY <1>8 DEF CountQueued, EnqueueSweep, EnqueueWork, Tick, vars
<1> QED
  BY <1>1, <1>2, <1>3, <1>4, <1>5, <1>6, <1>7, <1>8, StepCases

\* A quiet step is invisible to the roster.
LEMMA QuietEffect ==
  ASSUME IInv, QuietStep
  PROVE  /\ JobIds' = JobIds /\ \A j \in JobIds : jobs'[j].kind = jobs[j].kind
         /\ \A s : Outstanding(s)' = Outstanding(s)
<1>0. TypeOK /\ RowsConsistent
  BY DEF IInv, Core
<1> DEFINE quiet == /\ JobIds' = JobIds /\ completed' = completed
                    /\ \A j \in JobIds : /\ jobs'[j].kind = jobs[j].kind
                                         /\ Terminal(jobs'[j].state) <=> Terminal(jobs[j].state)
<1>1. ASSUME NEW w \in Workers, Start(w) PROVE quiet
  <2>1. /\ JobIds' = JobIds
        /\ \A j \in JobIds : ~Stale(j) => jobs'[j] = jobs[j]
        /\ \A j \in JobIds : Stale(j) => jobs'[j].kind = jobs[j].kind /\ jobs'[j].state = "queued"
    BY <1>0, <1>1, RequeueEffect DEF Start
  <2> QED
    BY <1>1, <2>1 DEF Start, Stale, Terminal
<1>2. ASSUME NEW w \in Workers, Claim(w) PROVE quiet
  <2>1. PICK n : n = NextJob
    OBVIOUS
  <2>2. /\ JobIds' = JobIds /\ \A k \in JobIds : k # n => jobs'[k] = jobs[k]
        /\ jobs[n].state = "queued" /\ jobs'[n].state = "running" /\ jobs'[n].kind = jobs[n].kind
    BY <1>0, <1>2, <2>1, ClaimEffect
  <2> QED
    BY <1>2, <2>2 DEF Claim, Terminal
<1>3. ASSUME NEW w \in Workers, NEW outcome \in {"error", "interrupted"}, HandlerReturns(w, outcome)
      PROVE  quiet
  BY <1>3 DEF HandlerReturns, JobIds
<1>4. ASSUME NEW w \in Workers, Leaves(w) PROVE quiet
  BY <1>0, <1>4, LeaveEffect DEF JobIds
<1>5. ASSUME NEW w \in Workers, Shutdown(w) PROVE quiet
  BY <1>5 DEF Shutdown, JobIds
<1>6. ASSUME Tick PROVE quiet
  <2>1. /\ JobIds' = JobIds
        /\ \A j \in JobIds : jobs'[j].kind = jobs[j].kind /\ jobs'[j].state = jobs[j].state
    BY <1>0, <1>6, TickEffect
  <2> QED
    BY <1>6, <2>1 DEF Tick
<1>7. quiet
  BY <1>1, <1>2, <1>3, <1>4, <1>5, <1>6 DEF QuietStep
<1> QED
  BY <1>7, OutstandingStays

\* The count of jobs that the roster sees is that of the outstanding ones.
LEMMA CountsStay ==
  ASSUME \A s : Outstanding(s)' = Outstanding(s)
  PROVE  Counts' = Counts
<1>1. Counts' = [s \in Sections |-> Cardinality(Outstanding(s)')]
  BY DEF Counts
<1> QED
  BY <1>1 DEF Counts

\* What the invariant says of the history survives a step that settles nothing.
LEMMA HistoryStays ==
  ASSUME KindsKnown, HistoryTyped, OverIsSettled, UNCHANGED history, JobIds' = JobIds,
         \A j \in JobIds : jobs'[j].kind = jobs[j].kind,
         \A s : Outstanding(s)' = Outstanding(s)
  PROVE  KindsKnown' /\ HistoryTyped' /\ OverIsSettled'
<1>1. settled' = settled /\ forfeited' = forfeited
  BY DEF history
<1>2. KindsKnown'
  BY DEF KindsKnown
<1>3. HistoryTyped'
  BY <1>1 DEF HistoryTyped
<1>4. OverIsSettled'
  <2>1. SUFFICES ASSUME NEW j \in JobIds', (j \notin Outstanding(jobs[j].kind))'
                 PROVE  (settled[jobs[j].kind])'
    BY DEF OverIsSettled
  <2>2. PICK k : k = jobs[j].kind /\ jobs'[j].kind = k
    BY <2>1
  <2>3. j \notin Outstanding(k)'
    BY <2>1, <2>2 DEF Outstanding
  <2> QED
    BY <1>1, <2>1, <2>2, <2>3 DEF OverIsSettled
<1> QED
  BY <1>2, <1>3, <1>4

\* A drop that frees a seat somebody waits for adds one outstanding job of its
\* section; the roster sees a drop.
LEMMA DropStep ==
  ASSUME PInv, NEW actor \in Users, NEW i \in DOMAIN enrollments, Drop(actor, i)
  PROVE  Roster!Drop(actor, i, 0) /\ KindsKnown' /\ HistoryTyped' /\ OverIsSettled'
<1>0. TypeOK /\ RowsKnown /\ KindsKnown /\ HistoryTyped /\ OverIsSettled
  BY DEF PInv, IInv
<1>1. PICK s \in Sections : s = enrollments[i].section
  BY <1>0, DropKeepsRows
<1>2. /\ settled' = settled /\ forfeited' = forfeited /\ registration' = registration
      /\ completed' = completed
  BY DEF Drop, history
<1>3. SUFFICES /\ Counts' = [Counts EXCEPT ![s] = IF Roster!FreesSeat(i) THEN @ + 1 ELSE @]
               /\ KindsKnown' /\ HistoryTyped' /\ OverIsSettled'
  <2>1. SUFFICES ASSUME Counts' = [Counts EXCEPT ![s] = IF Roster!FreesSeat(i) THEN @ + 1 ELSE @]
                 PROVE  Roster!Drop(actor, i, 0)
    OBVIOUS
  <2>2. Roster!DropRow(actor, i, 0)
    BY DEF Drop
  <2>3. [t \in Sections |-> Cardinality(Outstanding(t))]'
          = [[t \in Sections |-> Cardinality(Outstanding(t))] EXCEPT ![enrollments[i].section] =
               IF Roster!FreesSeat(i) THEN @ + 1 ELSE @]
    BY <1>1, <2>1 DEF Counts
  <2> QED
    BY <1>2, <2>2, <2>3 DEF Roster!Drop
<1>4. CASE ~Roster!FreesSeat(i)
  <2>1. jobs' = jobs
    BY <1>0, <1>4, DropOnQueue DEF vars
  <2>2. \A t : Outstanding(t)' = Outstanding(t)
    BY <1>2, <2>1 DEF Outstanding
  <2>3. Counts' = [Counts EXCEPT ![s] = @]
    BY <2>2, CountsStay DEF Counts
  <2>4. JobIds' = JobIds /\ \A j \in JobIds : jobs'[j].kind = jobs[j].kind
    BY <2>1 DEF JobIds
  <2>5. UNCHANGED history
    BY <1>2 DEF history
  <2> QED
    BY <1>0, <1>4, <2>2, <2>3, <2>4, <2>5, HistoryStays
<1>5. CASE Roster!FreesSeat(i)
  <2>1. EnqueueJob(s, 0) /\ s \in Kinds
    BY <1>0, <1>1, <1>5, DropOnQueue DEF EnqueueWork
  <2>2. PICK n : n = Len(jobs) + 1
    OBVIOUS
  <2>3. /\ JobIds' = JobIds \cup {n} /\ n \notin JobIds
        /\ \A k \in JobIds : jobs'[k] = jobs[k]
        /\ jobs'[n] = [kind |-> s, state |-> "queued", attempts |-> 0,
                       due |-> 0, age |-> 0, lockedBy |-> NoWorker]
    BY <1>0, <2>1, <2>2, EnqueueEffect
  <2>4. jobs'[n].kind = s /\ ~Terminal(jobs'[n].state) /\ n \notin completed
    BY <1>0, <2>3 DEF Terminal, TypeOK
  <2>5. /\ Outstanding(s)' = Outstanding(s) \cup {n} /\ n \notin Outstanding(s)
        /\ \A t : t # s => Outstanding(t)' = Outstanding(t)
    <3> HIDE DEF Terminal
    <3> QED
      BY <1>2, <2>3, <2>4 DEF Outstanding, JobIds
  <2>6. /\ IsFiniteSet(Outstanding(s)) /\ Cardinality(Outstanding(s)) \in Nat
    BY <1>0, OutstandingFinite
  <2>7. Cardinality(Outstanding(s)') = Cardinality(Outstanding(s)) + 1
    BY <2>5, <2>6, FS_AddElement
  <2>8. Counts' = [Counts EXCEPT ![s] = @ + 1]
    <3>1. Counts' = [t \in Sections |-> Cardinality(Outstanding(t)')]
      BY DEF Counts
    <3>2. \A t \in Sections : Counts[t] = Cardinality(Outstanding(t))
      BY DEF Counts
    <3>3. DOMAIN Counts = Sections
      BY DEF Counts
    <3> QED
      BY <2>5, <2>7, <3>1, <3>2, <3>3
  <2>9. KindsKnown'
    BY <1>0, <2>3, <2>4 DEF KindsKnown
  <2>10. HistoryTyped'
    BY <1>0, <1>2 DEF HistoryTyped
  <2>11. OverIsSettled'
    <3>1. SUFFICES ASSUME NEW j \in JobIds', (j \notin Outstanding(jobs[j].kind))'
                   PROVE  (settled[jobs[j].kind])'
      BY DEF OverIsSettled
    <3>2. PICK k : k = jobs'[j].kind
      OBVIOUS
    <3>3. j \notin Outstanding(k)'
      BY <3>1, <3>2 DEF Outstanding
    <3>4. j # n
      BY <2>4, <2>5, <3>2, <3>3
    <3>5. j \in JobIds /\ jobs[j].kind = k /\ j \notin Outstanding(k)
      BY <2>3, <2>5, <3>1, <3>2, <3>3, <3>4
    <3> QED
      BY <1>0, <1>2, <3>2, <3>5 DEF OverIsSettled
  <2> QED
    BY <1>5, <2>8, <2>9, <2>10, <2>11
<1> QED
  BY <1>4, <1>5

\* A handler that commits carries out an outstanding job of its section, or runs
\* again a job of a section that is settled.
LEMMA CommitStep ==
  ASSUME PInv, NEW w \in Workers, HandlerCommits(w)
  PROVE  /\ \E s \in Sections : Roster!RunPromotionJob(s) \/ Roster!RerunPromotionJob(s)
         /\ RowsKnown' /\ KindsKnown' /\ HistoryTyped' /\ OverIsSettled'
<1>0. /\ TypeOK /\ ClaimsKnown /\ RowsKnown /\ KindsKnown /\ HistoryTyped /\ OverIsSettled
  BY DEF PInv, IInv, Core
<1>1. /\ InIteration(w) /\ jobs' = jobs /\ completed' = completed \cup {workers[w].job}
  BY DEF HandlerCommits, HandlerReturns, InIteration
<1>2. PICK n \in JobIds : n = workers[w].job
  BY <1>0, <1>1, ClaimKnown
<1>3. PICK s \in Sections : s = jobs[n].kind
  BY <1>0 DEF KindsKnown
<1>4. Settle /\ Roster!PromoteWaitlist(s) /\ registration' = registration
  BY <1>2, <1>3 DEF HandlerCommits, PromotionHandler
<1>5. JobIds' = JobIds /\ \A j \in JobIds : jobs'[j].kind = jobs[j].kind
  BY <1>1 DEF JobIds
<1>6. \A t : Outstanding(t)' = Outstanding(t) \ {n}
  BY <1>1, <1>2 DEF Outstanding
<1>7. RowsKnown'
  BY <1>0, <1>4, PromotionKeepsRows
<1>8. CASE n \in Outstanding(s)
  <2>1. /\ Counts[s] > 0 /\ Counts' = [Counts EXCEPT ![s] = @ - 1]
        /\ settled' = [settled EXCEPT ![s] = TRUE]
        /\ forfeited' = [forfeited EXCEPT ![s] =
              IF n \in completed' /\ AcceptsEnrollment(sections[s]) THEN @ ELSE @ + 1]
        /\ KindsKnown' /\ HistoryTyped' /\ OverIsSettled'
    BY <1>0, <1>3, <1>4, <1>5, <1>6, <1>8, SettlesOne
  <2>2. n \in completed'
    BY <1>1, <1>2
  <2>3. forfeited' = [forfeited EXCEPT ![s] =
          IF Roster!AcceptsEnrollment(sections[s]) THEN @ ELSE @ + 1]
    BY <2>1, <2>2 DEF AcceptsEnrollment, Roster!AcceptsEnrollment
  <2>4. Roster!RunPromotionJob(s)
    BY <1>4, <2>1, <2>3 DEF Roster!RunPromotionJob, Counts
  <2> QED
    BY <1>7, <2>1, <2>4
<1>9. CASE n \notin Outstanding(s)
  <2>1. \A t : Outstanding(t)' = Outstanding(t)
    BY <1>3, <1>6, <1>9 DEF Outstanding
  <2>2. UNCHANGED history
    BY <1>0, <1>4, <2>1, SettlesNothing
  <2>3. KindsKnown' /\ HistoryTyped' /\ OverIsSettled'
    BY <1>0, <1>5, <2>1, <2>2, HistoryStays
  <2>4. settled[s]
    BY <1>0, <1>3, <1>9 DEF OverIsSettled
  <2>5. Counts' = Counts
    BY <2>1, CountsStay
  <2>6. Roster!RerunPromotionJob(s)
    BY <1>4, <2>2, <2>4, <2>5 DEF Roster!RerunPromotionJob, Counts, history
  <2> QED
    BY <1>7, <2>3, <2>6
<1> QED
  BY <1>8, <1>9

\* Recording an outcome is invisible, or gives up a job that nobody carried out.
LEMMA RecordStep ==
  ASSUME PInv, NEW w \in Workers, OutcomeRecorded(w)
  PROVE  /\ (\E s \in Sections : Roster!AbandonPromotionJob(s)) \/ UNCHANGED <<Counts, history>>
         /\ KindsKnown' /\ HistoryTyped' /\ OverIsSettled'
<1>0. /\ TypeOK /\ ClaimsKnown /\ OutcomesTrue /\ KindsKnown /\ HistoryTyped /\ OverIsSettled
      /\ ErrorsAllowed
  BY DEF PInv, IInv, Core
<1>1. RecordOutcome(w) /\ Settle /\ UNCHANGED roster /\ completed' = completed
  BY DEF OutcomeRecorded, RecordOutcome
<1>2. PICK n \in JobIds : n = workers[w].job
  BY <1>0, <1>1, RecordEffect
<1>3. /\ JobIds' = JobIds /\ jobs[n].state = "running"
      /\ \A k \in JobIds : k # n => jobs'[k] = jobs[k]
      /\ jobs'[n].kind = jobs[n].kind
      /\ \/ workers[w].phase = "ok" /\ jobs'[n].state = "succeeded"
         \/ jobs'[n].state = "queued"
         \/ workers[w].phase = "error" /\ jobs'[n].state = "permanently_failed"
  BY <1>0, <1>1, <1>2, RecordEffect
<1>4. PICK s \in Sections : s = jobs[n].kind
  BY <1>0 DEF KindsKnown
<1>5. \A j \in JobIds : jobs'[j].kind = jobs[j].kind
  BY <1>3
<1>6. CASE n \in completed \/ jobs'[n].state = "queued"
  <2>1. \A t : Outstanding(t)' = Outstanding(t)
    BY <1>1, <1>3, <1>6 DEF Outstanding, Terminal, JobIds
  <2>2. UNCHANGED history
    BY <1>0, <1>1, <2>1, SettlesNothing
  <2>3. Counts' = Counts
    BY <2>1, CountsStay
  <2> QED
    BY <1>0, <1>3, <1>5, <2>1, <2>2, <2>3, HistoryStays
<1>7. CASE n \notin completed /\ jobs'[n].state # "queued"
  <2>1. workers[w].phase = "error" /\ jobs'[n].state = "permanently_failed"
    BY <1>0, <1>2, <1>3, <1>7 DEF OutcomesTrue
  <2>2. HandlersFail
    BY <1>0, <2>1 DEF ErrorsAllowed
  <2>3. n \in Outstanding(s) /\ \A t : Outstanding(t)' = Outstanding(t) \ {n}
    BY <1>1, <1>3, <1>4, <1>7, <2>1 DEF Outstanding, Terminal, JobIds
  <2>4. /\ Counts[s] > 0 /\ Counts' = [Counts EXCEPT ![s] = @ - 1]
        /\ settled' = [settled EXCEPT ![s] = TRUE]
        /\ forfeited' = [forfeited EXCEPT ![s] =
              IF n \in completed' /\ AcceptsEnrollment(sections[s]) THEN @ ELSE @ + 1]
        /\ KindsKnown' /\ HistoryTyped' /\ OverIsSettled'
    BY <1>0, <1>1, <1>3, <1>4, <1>5, <2>3, SettlesOne
  <2>5. forfeited' = [forfeited EXCEPT ![s] = @ + 1]
    BY <1>1, <1>7, <2>4
  <2>6. Roster!AbandonPromotionJob(s)
    BY <1>1, <2>2, <2>4, <2>5 DEF Roster!AbandonPromotionJob, Counts, roster
  <2> QED
    BY <2>4, <2>6
<1> QED
  BY <1>6, <1>7
-----------------------------------------------------------------------------
(* The refinement. *)

\* An empty queue and roster satisfy the invariant.
LEMMA PromotionInitInv == PromotionInit => PInv
<1> SUFFICES ASSUME PromotionInit PROVE PInv
  OBVIOUS
<1>1. IInv
  BY InitInv DEF PromotionInit
<1>2. /\ jobs = <<>> /\ enrollments = <<>> /\ workers = [w \in Workers |-> Down]
      /\ settled = [s \in Sections |-> FALSE] /\ forfeited = [s \in Sections |-> 0]
  BY DEF PromotionInit, Init, Roster!Init
<1>3. JobIds = {}
  BY <1>2 DEF JobIds
<1>4. RowsKnown
  <2>1. enrollments \in Seq(RowOf({}))
    BY <1>2
  <2> QED
    BY <2>1 DEF RowsKnown
<1>5. KindsKnown /\ OverIsSettled
  BY <1>3 DEF KindsKnown, OverIsSettled
<1>6. HistoryTyped
  BY <1>2 DEF HistoryTyped
<1>7. ErrorsAllowed
  BY <1>2 DEF ErrorsAllowed, Down
<1> QED
  BY <1>1, <1>4, <1>5, <1>6, <1>7 DEF PInv

\* Every step keeps it and is a step of the roster, or invisible to it.
LEMMA PromotionStep ==
  ASSUME PInv, [PromotionNext]_promotionVars
  PROVE  PInv' /\ [Roster!Next]_Roster!vars
<1>0. IInv /\ RowsKnown /\ KindsKnown /\ HistoryTyped /\ OverIsSettled /\ ErrorsAllowed
  BY DEF PInv
<1>1. IInv'
  BY <1>0, QueueStep, StepInv
<1>2. ErrorsAllowed'
  BY <1>0, QueueStep, ErrorsStep
<1> DEFINE kept == RowsKnown' /\ KindsKnown' /\ HistoryTyped' /\ OverIsSettled'
<1>3. SUFFICES kept /\ [Roster!Next]_Roster!vars
  BY <1>1, <1>2 DEF PInv
<1>4. ASSUME UNCHANGED <<roster, history>>, JobIds' = JobIds,
             \A j \in JobIds : jobs'[j].kind = jobs[j].kind,
             \A s : Outstanding(s)' = Outstanding(s)
      PROVE  kept /\ UNCHANGED Roster!vars
  <2>1. RowsKnown'
    BY <1>0, <1>4 DEF RowsKnown, roster
  <2>2. KindsKnown' /\ HistoryTyped' /\ OverIsSettled'
    BY <1>0, <1>4, HistoryStays
  <2>3. Counts' = Counts
    BY <1>4, CountsStay
  <2> QED
    BY <1>4, <2>1, <2>2, <2>3 DEF Roster!vars, Counts, roster, history
<1>5. CASE Request
  <2>1. RowsKnown'
    BY <1>0, <1>5, RequestKeepsRows
  <2>2. UNCHANGED history /\ jobs' = jobs /\ completed' = completed
    BY <1>5 DEF Request, vars
  <2>3. KindsKnown' /\ HistoryTyped' /\ OverIsSettled'
    <3>1. \A s : Outstanding(s)' = Outstanding(s)
      BY <2>2 DEF Outstanding
    <3>2. JobIds' = JobIds /\ \A j \in JobIds : jobs'[j].kind = jobs[j].kind
      BY <2>2 DEF JobIds
    <3> QED
      BY <1>0, <2>2, <3>1, <3>2, HistoryStays
  <2>4. \/ Roster!Paperwork \/ Roster!Tooling
        \/ \E actor, student \in Users, s \in Sections :
             Roster!ClaimSeat(actor, student, s) \/ Roster!ClaimWaitlistPlace(actor, student, s)
    BY <1>5 DEF Request
  <2>5. Roster!Next
    BY <2>4, Zenon DEF Roster!Next, Roster!StudentAction
  <2> QED
    BY <2>1, <2>3, <2>5
<1>6. ASSUME NEW actor \in Users, NEW i \in DOMAIN enrollments, Drop(actor, i)
      PROVE  kept /\ Roster!Next
  <2>1. Roster!Drop(actor, i, 0) /\ KindsKnown' /\ HistoryTyped' /\ OverIsSettled'
    BY <1>6, DropStep
  <2>2. RowsKnown'
    BY <1>0, <1>6, DropKeepsRows
  <2>3. i \in Roster!Rows /\ 0 \in (0 - 0)..0
    BY DEF Roster!Rows
  <2>4. Roster!Next
    BY <2>1, <2>3 DEF Roster!Next, Roster!StudentAction
  <2> QED
    BY <2>1, <2>2, <2>4
<1>7. ASSUME NEW w \in Workers, HandlerCommits(w) PROVE kept /\ Roster!Next
  <2>1. /\ \E s \in Sections : Roster!RunPromotionJob(s) \/ Roster!RerunPromotionJob(s)
        /\ kept
    BY <1>7, CommitStep
  <2>2. Roster!Next
    BY <2>1, Zenon DEF Roster!Next, Roster!JobAction
  <2> QED
    BY <2>1, <2>2
<1>8. ASSUME NEW w \in Workers, OutcomeRecorded(w) PROVE kept /\ [Roster!Next]_Roster!vars
  <2>1. /\ (\E s \in Sections : Roster!AbandonPromotionJob(s)) \/ UNCHANGED <<Counts, history>>
        /\ KindsKnown' /\ HistoryTyped' /\ OverIsSettled'
    BY <1>8, RecordStep
  <2>2. UNCHANGED roster
    BY <1>8 DEF OutcomeRecorded
  <2>3. RowsKnown'
    BY <1>0, <2>2 DEF RowsKnown, roster
  <2>4. CASE \E s \in Sections : Roster!AbandonPromotionJob(s)
    <3>1. Roster!Next
      BY <2>4, Zenon DEF Roster!Next, Roster!JobAction
    <3> QED
      BY <2>1, <2>3, <3>1
  <2>5. CASE UNCHANGED <<Counts, history>>
    <3>1. UNCHANGED Roster!vars
      BY <2>2, <2>5 DEF Roster!vars, Counts, roster, history
    <3> QED
      BY <2>1, <2>3, <3>1
  <2> QED
    BY <2>1, <2>4, <2>5
<1>9. CASE QuietStep /\ UNCHANGED <<roster, history>>
  BY <1>0, <1>4, <1>9, QuietEffect
<1>10. CASE UNCHANGED promotionVars
  <2>1. jobs' = jobs /\ completed' = completed /\ UNCHANGED <<roster, history>>
    BY <1>10 DEF promotionVars, vars
  <2>2. \A s : Outstanding(s)' = Outstanding(s)
    BY <2>1 DEF Outstanding
  <2>3. JobIds' = JobIds /\ \A j \in JobIds : jobs'[j].kind = jobs[j].kind
    BY <2>1 DEF JobIds
  <2> QED
    BY <1>4, <2>1, <2>2, <2>3
<1> QED
  BY <1>5, <1>6, <1>7, <1>8, <1>9, <1>10, PromotionCases

\* An empty queue and roster are the roster of Enrollment with no job to run.
LEMMA PromotionInitMaps == PromotionInit => Roster!Init
BY DEF PromotionInit

\* Refinement: the roster with the real queue, its workers, crashes, retries and
\* expired leases implements module Enrollment, so every drop, promotion and
\* forfeit it makes is one that Enrollment allows: NeverOversold, NoSeatForgotten,
\* EarliestFirst and the other theorems of EnrollmentProofs carry over to it.
THEOREM RosterImplemented == PromotionSpec => ImplementsEnrollment
<1>1. PromotionInit => PInv /\ Roster!Init
  BY PromotionInitInv, PromotionInitMaps
<1>2. PInv /\ [PromotionNext]_promotionVars => PInv' /\ [Roster!Next]_Roster!vars
  BY PromotionStep
<1> QED
  BY <1>1, <1>2, PTL DEF PromotionSpec, ImplementsEnrollment, Roster!Spec
=============================================================================
