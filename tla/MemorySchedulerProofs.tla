------------------------ MODULE MemorySchedulerProofs ------------------------
(***************************************************************************)
(* The bookkeeping of the scheduler, for any number of actors, sessions,   *)
(* workers and retries: what it counts is what runs, actors do not overlap *)
(* and the queue is bounded.                                               *)
(***************************************************************************)
EXTENDS MemoryScheduler, FiniteSetTheorems, TLAPS

Run == [attempt : 0 .. MaxRetries, cancelled : BOOLEAN]

RunTypes ==
    /\ jobs \in [Keys -> [generation : Nat, attempt : 0 .. MaxRetries] \cup {None}]
    /\ running \in [Keys -> Run \cup {None}]
    /\ work \in [Keys -> {"none", "taken", "reading", "written"} \cup Writes]
    /\ generation \in Nat

\* A callback belongs to a running job, and only the actors of those are busy: without this,
\* nothing says that what is released was counted, or that a free actor has nothing running.
RunsBooked ==
    /\ \A k \in Keys : work[k] # "none" <=> running[k] # None
    /\ busy = {Actor(k) : k \in Running}

\* A pending key may start and a running one may be queued again without a look at the limit, so
\* the two are bounded together.
KeysBounded == Cardinality(Pending \cup Running) <= MaxPending + MaxWorkers

SchedulerInv ==
    /\ RunTypes
    /\ RunsBooked
    /\ OneRunPerActor
    /\ InflightExact
    /\ KeysBounded

\* The steps that take a place, give one back or invalidate what runs.
TakeStep(k) ==
    /\ jobs[k] # None /\ Actor(k) \notin busy /\ inflight < MaxWorkers
    /\ jobs' = [jobs EXCEPT ![k] = None]
    /\ running' = [running EXCEPT ![k] = [attempt |-> jobs[k].attempt, cancelled |-> FALSE]]
    /\ busy' = busy \cup {Actor(k)}
    /\ inflight' = inflight + 1
    /\ work' = [work EXCEPT ![k] = "taken"]
ReleaseStep(k) ==
    /\ work[k] # "none"
    /\ Release(k)
    /\ \/ UNCHANGED jobs
       \/ /\ running[k].attempt < MaxRetries
          /\ jobs' = [jobs EXCEPT ![k] = Job(generation', running[k].attempt + 1)]
InvalidateStep(ks) ==
    /\ Invalidate(ks)
    /\ UNCHANGED <<busy, inflight, work>>
    /\ \/ \E k \in Keys : jobs' = [jobs EXCEPT ![k] = None]
       \/ jobs' = [k \in Keys |-> None]
       \/ \E k \in Keys : ~QueueFull(k) /\ jobs' = [jobs EXCEPT ![k] = Job(generation', 0)]

\* The sets of keys are finite.
LEMMA FiniteKeys ==
  ASSUME NEW S \in SUBSET Keys
  PROVE  IsFiniteSet(S) /\ Cardinality(S) \in Nat
BY SchedulerAssumption, FS_Subset, FS_CardinalityType

LEMMA PendingRunningKeys == Pending \subseteq Keys /\ Running \subseteq Keys
BY DEF Pending, Running

\* Taking a job keeps the books.
LEMMA TakeKeepsInv ==
  ASSUME SchedulerInv, NEW k \in Keys, TakeStep(k), generation' \in Nat
  PROVE  SchedulerInv'
<1> USE DEF SchedulerInv
<1>1. RunTypes'
  <2>1. jobs[k].attempt \in 0 .. MaxRetries
    BY DEF TakeStep, RunTypes
  <2>2. [attempt |-> jobs[k].attempt, cancelled |-> FALSE] \in Run
    BY <2>1 DEF Run
  <2>3. QED
    BY <2>2 DEF TakeStep, RunTypes
<1>2. [attempt |-> jobs[k].attempt, cancelled |-> FALSE] # None
  <2>1. jobs[k].attempt \in 0 .. MaxRetries
    BY DEF TakeStep, RunTypes
  <2>2. [attempt |-> jobs[k].attempt, cancelled |-> FALSE]
          \in [attempt : 0 .. MaxRetries, cancelled : BOOLEAN]
    BY <2>1
  <2>3. QED
    BY <2>2, SchedulerAssumption
<1>3. k \notin Running
  BY DEF TakeStep, RunsBooked
<1>4. Running' = Running \cup {k}
  BY <1>2 DEF TakeStep, RunTypes, Running
<1>5. Pending' = Pending \ {k} /\ k \in Pending
  BY DEF TakeStep, RunTypes, Pending
<1>6. RunsBooked'
  <2>1. \A j \in Keys : (work'[j] # "none" <=> running'[j] # None)
    BY <1>2 DEF TakeStep, RunTypes, RunsBooked
  <2>2. busy' = {Actor(j) : j \in Running'}
    BY <1>4 DEF TakeStep, RunsBooked
  <2>3. QED
    BY <2>1, <2>2 DEF RunsBooked
<1>7. OneRunPerActor'
  BY <1>4 DEF TakeStep, RunsBooked, OneRunPerActor
<1>8. InflightExact'
  <2>1. Cardinality(Running') = Cardinality(Running) + 1
    BY <1>3, <1>4, FiniteKeys, PendingRunningKeys, FS_AddElement
  <2>2. QED
    BY <2>1, FiniteKeys, PendingRunningKeys, SchedulerAssumption DEF TakeStep, InflightExact
<1>9. KeysBounded'
  <2>1. Pending' \cup Running' = Pending \cup Running
    BY <1>4, <1>5
  <2>2. QED
    BY <2>1 DEF KeysBounded
<1>10. QED
  BY <1>1, <1>6, <1>7, <1>8, <1>9

\* Giving a place back keeps the books, with a retry or without one.
LEMMA ReleaseKeepsInv ==
  ASSUME SchedulerInv, NEW k \in Keys, ReleaseStep(k), generation' \in Nat
  PROVE  SchedulerInv'
<1> USE DEF SchedulerInv
<1>1. k \in Running
  BY DEF ReleaseStep, RunsBooked, Running
<1>2. RunTypes'
  <2>1. jobs' \in [Keys -> [generation : Nat, attempt : 0 .. MaxRetries] \cup {None}]
    <3>1. CASE UNCHANGED jobs
      BY <3>1 DEF RunTypes
    <3>2. CASE /\ running[k].attempt < MaxRetries
               /\ jobs' = [jobs EXCEPT ![k] = Job(generation', running[k].attempt + 1)]
      <4>1. running[k].attempt \in 0 .. MaxRetries
        BY <1>1 DEF RunTypes, Running, Run
      <4>2. Job(generation', running[k].attempt + 1)
              \in [generation : Nat, attempt : 0 .. MaxRetries]
        BY <3>2, <4>1, SchedulerAssumption DEF Job
      <4>3. QED
        BY <3>2, <4>2 DEF RunTypes
    <3>3. QED
      BY <3>1, <3>2 DEF ReleaseStep
  <2>2. QED
    BY <2>1 DEF ReleaseStep, Release, RunTypes
<1>3. Running' = Running \ {k}
  BY DEF ReleaseStep, Release, RunTypes, Running
<1>4. Pending' \subseteq Pending \cup {k}
  BY DEF ReleaseStep, RunTypes, Pending
<1>5. RunsBooked'
  <2>1. \A j \in Keys : (work'[j] # "none" <=> running'[j] # None)
    BY DEF ReleaseStep, Release, RunTypes, RunsBooked
  <2>2. busy' = {Actor(j) : j \in Running'}
    <3>1. busy' = busy \ {Actor(k)}
      BY DEF ReleaseStep, Release
    <3>2. \A j \in Running : Actor(j) = Actor(k) => j = k
      BY <1>1 DEF OneRunPerActor
    <3>3. QED
      BY <1>3, <3>1, <3>2 DEF RunsBooked
  <2>3. QED
    BY <2>1, <2>2 DEF RunsBooked
<1>6. OneRunPerActor'
  BY <1>3 DEF OneRunPerActor
<1>7. InflightExact'
  <2>1. Cardinality(Running') = Cardinality(Running) - 1
    BY <1>1, <1>3, FiniteKeys, PendingRunningKeys, FS_RemoveElement
  <2>2. Cardinality(Running') \in Nat
    BY FiniteKeys, <1>3, PendingRunningKeys
  <2>3. inflight > 0
    BY <2>1, <2>2, FiniteKeys, PendingRunningKeys DEF InflightExact
  <2>4. QED
    BY <2>1, <2>2, <2>3, FiniteKeys, PendingRunningKeys, SchedulerAssumption
    DEF ReleaseStep, Release, InflightExact
<1>8. KeysBounded'
  <2>1. Pending' \cup Running' \subseteq Pending \cup Running
    BY <1>1, <1>3, <1>4
  <2>2. IsFiniteSet(Pending \cup Running) /\ Cardinality(Pending \cup Running) \in Nat
    BY FiniteKeys, PendingRunningKeys
  <2>3. Cardinality(Pending' \cup Running') <= Cardinality(Pending \cup Running)
    BY <2>1, <2>2, FS_Subset
  <2>4. Cardinality(Pending' \cup Running') \in Nat
    BY <2>1, <2>2, FS_Subset, FS_CardinalityType
  <2>5. QED
    BY <2>2, <2>3, <2>4, SchedulerAssumption DEF KeysBounded
<1>9. QED
  BY <1>2, <1>5, <1>6, <1>7, <1>8

\* A schedule, a cancellation and a shutdown mark what runs, and keep the books.
LEMMA InvalidateKeepsInv ==
  ASSUME SchedulerInv, NEW ks, InvalidateStep(ks), generation' \in Nat
  PROVE  SchedulerInv'
<1> USE DEF SchedulerInv
<1>1. \A k \in Keys : /\ running'[k] \in Run \cup {None}
                      /\ running'[k] = None <=> running[k] = None
  <2>1. TAKE k \in Keys
  <2>2. CASE k \in ks /\ running[k] # None
    <3>1. running[k] \in Run
      BY <2>2 DEF RunTypes
    <3>2. [running[k] EXCEPT !.cancelled = TRUE] \in Run
      BY <3>1 DEF Run
    <3>3. running'[k] = [running[k] EXCEPT !.cancelled = TRUE]
      BY <2>2 DEF InvalidateStep, Invalidate
    <3>4. QED
      BY <2>2, <3>2, <3>3, SchedulerAssumption DEF Run
  <2>3. CASE ~(k \in ks /\ running[k] # None)
    BY <2>3 DEF InvalidateStep, Invalidate, RunTypes
  <2>4. QED
    BY <2>2, <2>3
<1>2. Running' = Running
  BY <1>1 DEF Running
<1>3. SchedulerAssumption
  BY SchedulerAssumption
<1>4. jobs' \in [Keys -> [generation : Nat, attempt : 0 .. MaxRetries] \cup {None}]
  <2>1. Job(generation', 0) \in [generation : Nat, attempt : 0 .. MaxRetries]
    BY SchedulerAssumption DEF Job
  <2>2. CASE \E k \in Keys : jobs' = [jobs EXCEPT ![k] = None]
    BY <2>2 DEF RunTypes
  <2>3. CASE jobs' = [k \in Keys |-> None]
    BY <2>3
  <2>4. CASE \E k \in Keys : ~QueueFull(k) /\ jobs' = [jobs EXCEPT ![k] = Job(generation', 0)]
    BY <2>1, <2>4 DEF RunTypes
  <2>5. QED
    BY <2>2, <2>3, <2>4 DEF InvalidateStep
<1>5. RunTypes'
  <2>1. running' \in [Keys -> Run \cup {None}]
    BY <1>1 DEF InvalidateStep, Invalidate
  <2>2. QED
    BY <1>4, <2>1 DEF RunTypes, InvalidateStep
<1>6. RunsBooked' /\ OneRunPerActor' /\ InflightExact'
  BY <1>1, <1>2 DEF InvalidateStep, RunsBooked, OneRunPerActor, InflightExact
<1>7. KeysBounded'
  <2> DEFINE all == Pending \cup Running
  <2>1. all \in SUBSET Keys /\ IsFiniteSet(all) /\ Cardinality(all) \in Nat
    BY FiniteKeys, PendingRunningKeys
  <2>2. CASE Pending' \subseteq Pending
    <3>1. Pending' \cup Running' \in SUBSET all
      BY <1>2, <2>2
    <3>2. Cardinality(Pending' \cup Running') <= Cardinality(all)
      BY <2>1, <3>1, FS_Subset
    <3>3. Cardinality(Pending' \cup Running') \in Nat
      BY <2>1, <3>1, FiniteKeys
    <3>4. QED
      BY <2>1, <3>2, <3>3, SchedulerAssumption DEF KeysBounded
  <2>3. CASE \E k \in Keys : ~QueueFull(k) /\ jobs' = [jobs EXCEPT ![k] = Job(generation', 0)]
    <3>1. PICK k \in Keys : ~QueueFull(k) /\ jobs' = [jobs EXCEPT ![k] = Job(generation', 0)]
      BY <2>3
    <3>2. Pending' \subseteq Pending \cup {k}
      BY <3>1 DEF Pending, RunTypes
    <3>3. CASE k \in all
      <4>1. Pending' \cup Running' \in SUBSET all
        BY <1>2, <3>2, <3>3
      <4>2. Cardinality(Pending' \cup Running') <= Cardinality(all)
        BY <2>1, <4>1, FS_Subset
      <4>3. Cardinality(Pending' \cup Running') \in Nat
        BY <2>1, <4>1, FiniteKeys
      <4>4. QED
        BY <2>1, <4>2, <4>3, SchedulerAssumption DEF KeysBounded
    <3>4. CASE k \notin all
      <4>1. Cardinality(Pending) < MaxPending
        BY <3>1, <3>4, FiniteKeys, PendingRunningKeys, SchedulerAssumption
        DEF QueueFull, Pending, Running
      <4>2. /\ IsFiniteSet(Pending) /\ IsFiniteSet(Running)
            /\ Cardinality(Pending) \in Nat /\ Cardinality(Running) \in Nat
            /\ Cardinality(Pending \cap Running) \in Nat
        BY FiniteKeys, PendingRunningKeys
      <4>3. Cardinality(all) = Cardinality(Pending) + Cardinality(Running)
                                 - Cardinality(Pending \cap Running)
        BY <4>2, FS_Union
      <4>4. Cardinality(all \cup {k}) = Cardinality(all) + 1
        <5> HIDE DEF all
        <5>1. QED
          BY <2>1, <3>4, FS_AddElement
      <4>5. Pending' \cup Running' \in SUBSET (all \cup {k}) /\ all \cup {k} \in SUBSET Keys
        BY <1>2, <2>1, <3>2
      <4>6. Cardinality(Pending' \cup Running') <= Cardinality(all \cup {k})
        BY <4>5, FiniteKeys, FS_Subset
      <4>7. Cardinality(Pending' \cup Running') \in Nat /\ Cardinality(all \cup {k}) \in Nat
        BY <4>5, FiniteKeys
      <4>8. Cardinality(Running) <= MaxWorkers
        BY DEF InflightExact
      <4>9. QED
        BY <2>1, <4>1, <4>2, <4>3, <4>4, <4>6, <4>7, <4>8, SchedulerAssumption DEF KeysBounded
    <3>5. QED
      BY <3>3, <3>4
  <2>4. QED
    <3>1. ASSUME ~(\E k \in Keys : ~QueueFull(k) /\ jobs' = [jobs EXCEPT ![k] = Job(generation', 0)])
          PROVE  Pending' \subseteq Pending
      BY <3>1 DEF InvalidateStep, Pending, RunTypes
    <3>2. QED
      BY <2>2, <2>3, <3>1
<1>8. QED
  BY <1>5, <1>6, <1>7

LEMMA InitInv == Init => SchedulerInv
<1>1. ASSUME Init PROVE SchedulerInv
  <2>1. Pending = {} /\ Running = {}
    BY <1>1 DEF Init, Pending, Running
  <2>2. RunTypes /\ RunsBooked /\ OneRunPerActor
    BY <1>1, <2>1 DEF Init, RunTypes, RunsBooked, OneRunPerActor
  <2>3. Cardinality(Running) = 0 /\ Cardinality(Pending \cup Running) = 0
    BY <2>1, FS_EmptySet
  <2>4. QED
    BY <1>1, <2>2, <2>3, SchedulerAssumption DEF Init, InflightExact, KeysBounded, SchedulerInv
<1>2. QED
  BY <1>1

\* Every step keeps the books.
LEMMA NextInv ==
  ASSUME SchedulerInv, [Next]_vars
  PROVE  SchedulerInv'
<1>1. generation \in Nat
  BY DEF SchedulerInv, RunTypes
<1> DEFINE Books == <<jobs, running, busy, inflight, work, generation>>
<1>2. ASSUME UNCHANGED Books PROVE SchedulerInv'
  BY <1>2 DEF SchedulerInv, RunTypes, RunsBooked, OneRunPerActor, InflightExact, KeysBounded,
       Pending, Running
<1>3. ASSUME NEW k \in Keys, Take(k) PROVE SchedulerInv'
  <2>1. TakeStep(k)
    BY <1>3 DEF Take, IsDue, Live, Scanning, TakeStep
  <2>2. generation' = generation
    BY <1>3 DEF Take
  <2>3. QED
    BY <1>1, <2>1, <2>2, TakeKeepsInv
<1>4. ASSUME NEW k \in Keys, SubmitFails(k) \/ Finish(k) PROVE SchedulerInv'
  <2>1. ReleaseStep(k)
    BY <1>4 DEF SubmitFails, Finish, Complete, ReleaseStep, queueVars
  <2>2. generation' = generation
    BY <1>4 DEF SubmitFails, Finish, queueVars
  <2>3. QED
    BY <1>1, <2>1, <2>2, ReleaseKeepsInv
<1>5. ASSUME NEW k \in Keys, Retry(k) PROVE SchedulerInv'
  <2>1. ReleaseStep(k)
    BY <1>5 DEF Retry, Complete, MayRetry, ReleaseStep
  <2>2. generation' \in Nat
    BY <1>1, <1>5 DEF Retry
  <2>3. QED
    BY <2>1, <2>2, ReleaseKeepsInv
<1>6. ASSUME NEW k \in Keys, Schedule(k) PROVE SchedulerInv'
  <2>1. InvalidateStep({k})
    BY <1>6 DEF Schedule, InvalidateStep
  <2>2. generation' \in Nat
    BY <1>1, <1>6 DEF Schedule
  <2>3. QED
    BY <2>1, <2>2, InvalidateKeepsInv
<1>7. ASSUME NEW k \in Keys, Cancel(k) PROVE SchedulerInv'
  <2>1. InvalidateStep({k}) /\ generation' = generation
    BY <1>7 DEF Cancel, InvalidateStep
  <2>2. QED
    BY <1>1, <2>1, InvalidateKeepsInv
<1>8. ASSUME StopAccepting PROVE SchedulerInv'
  <2>1. InvalidateStep(Keys) /\ generation' = generation
    BY <1>8 DEF StopAccepting, InvalidateStep
  <2>2. QED
    BY <1>1, <2>1, InvalidateKeepsInv
<1>9. ASSUME NEW k \in Keys, Submit(k) \/ CheckCommit(k) \/ Write(k) PROVE SchedulerInv'
  <2>1. UNCHANGED <<jobs, running, busy, inflight, generation>>
    BY <1>9 DEF Submit, CheckCommit, Write, queueVars, runVars
  <2>2. PICK next \in {"reading", "written"} \cup Writes : work' = [work EXCEPT ![k] = next]
    BY <1>9 DEF Submit, CheckCommit, Write, After, Writes, EndWrites
  <2>3. work[k] # "none" /\ next # "none"
    BY <1>9 DEF Submit, CheckCommit, Write, Writes, EndWrites
  <2>4. /\ work' \in [Keys -> {"none", "taken", "reading", "written"} \cup Writes]
        /\ \A j \in Keys : (work'[j] # "none" <=> work[j] # "none")
    BY <2>2, <2>3 DEF SchedulerInv, RunTypes
  <2>5. QED
    BY <2>1, <2>4 DEF SchedulerInv, RunTypes, RunsBooked, OneRunPerActor, InflightExact,
         KeysBounded, Pending, Running
<1>10. ASSUME \/ StartScan \/ EndCoordinator \/ DropStale \/ PutAside \/ EndScan \/ TimesOut
              \/ Submitted \/ CloseExecutor \/ Tick \/ UNCHANGED vars
       PROVE  UNCHANGED Books
  BY <1>10 DEF StartScan, EndCoordinator, DropStale, PutAside, EndScan, TimesOut, Submitted,
       CloseExecutor, Tick, vars, queueVars, runVars, workVars
<1>11. QED
  BY <1>2, <1>3, <1>4, <1>5, <1>6, <1>7, <1>8, <1>9, <1>10
  DEF Next, Coordinator, Caller, Worker

\* Extractions of one actor never overlap, however many workers there are: _running_actor_keys
\* is looked at before each job is taken, and given back once.
THEOREM ActorsRunAlone == Spec => []OneRunPerActor
<1>1. SchedulerInv => OneRunPerActor
  BY DEF SchedulerInv
<1>2. QED
  BY InitInv, NextInv, <1>1, PTL DEF Spec

\* _inflight counts the jobs that run, and never passes max_workers, through cancellations,
\* retries and submissions that a closed executor refuses.
THEOREM InflightIsExact == Spec => []InflightExact
<1>1. SchedulerInv => InflightExact
  BY DEF SchedulerInv
<1>2. QED
  BY InitInv, NextInv, <1>1, PTL DEF Spec

\* _jobs never holds more than max_pending_jobs + max_workers keys.
THEOREM QueueIsBounded == Spec => []QueueBounded
<1>1. ASSUME SchedulerInv PROVE QueueBounded
  <2>1. Pending \cup Running \in SUBSET Keys /\ Pending \in SUBSET (Pending \cup Running)
    BY PendingRunningKeys
  <2>2. Cardinality(Pending) <= Cardinality(Pending \cup Running)
    BY <2>1, FiniteKeys, FS_Subset
  <2>3. Cardinality(Pending) \in Nat /\ Cardinality(Pending \cup Running) \in Nat
    BY <2>1, FiniteKeys, PendingRunningKeys
  <2>4. QED
    BY <1>1, <2>2, <2>3, SchedulerAssumption DEF SchedulerInv, KeysBounded, QueueBounded
<1>2. QED
  BY InitInv, NextInv, <1>1, PTL DEF Spec

\* A callback that is in a commit had passed its check since its last one, so nothing late came
\* before but what belongs to the commit; what was never cancelled has nothing late, and what is
\* released leaves nothing behind.
LateKey(k) ==
    /\ late[k] # "more"
    /\ work[k] \in {"none", "memory", "checkpoint"} => late[k] = "nothing"
    /\ work[k] = "notification" => late[k] \in {"nothing", "end"}
    /\ running[k] # None /\ ~running[k].cancelled => late[k] = "nothing"
LateInv ==
    /\ SchedulerInv
    /\ late \in [Keys -> {"nothing", "memory", "end", "more"}]
    /\ \A k \in Keys : LateKey(k)

\* A step that leaves the callback alone may cancel its job.
LEMMA SettledKey ==
  ASSUME LateInv, NEW k \in Keys, late'[k] = late[k], work'[k] = work[k],
         running'[k] # None /\ ~running'[k].cancelled => running[k] # None /\ ~running[k].cancelled
  PROVE  LateKey(k)'
BY DEF LateInv, LateKey

\* Every step keeps the late writes to one commit.
LEMMA NextLate ==
  ASSUME LateInv, [Next]_vars
  PROVE  LateInv'
<1>1. SchedulerInv' /\ RunTypes
  BY NextInv DEF LateInv, SchedulerInv
<1> DEFINE Late == late' \in [Keys -> {"nothing", "memory", "end", "more"}]
<1>2. SUFFICES Late /\ \A k \in Keys : LateKey(k)'
  BY <1>1 DEF LateInv
<1>3. ASSUME UNCHANGED workVars, UNCHANGED running \/ \E ks : Invalidate(ks)
      PROVE  Late /\ \A k \in Keys : LateKey(k)'
  <2>1. ASSUME NEW k \in Keys, running'[k] # None, ~running'[k].cancelled
        PROVE  running[k] # None /\ ~running[k].cancelled
    <3>1. PICK ks : UNCHANGED running \/ Invalidate(ks)
      BY <1>3
    <3>2. CASE Invalidate(ks) /\ k \in ks /\ running[k] # None
      <4>1. running'[k] = [running[k] EXCEPT !.cancelled = TRUE] /\ running[k] \in Run
        BY <1>1, <3>2 DEF Invalidate, RunTypes
      <4>2. running'[k].cancelled
        BY <4>1 DEF Run
      <4>3. QED
        BY <2>1, <4>2
    <3>3. QED
      BY <2>1, <3>1, <3>2 DEF Invalidate
  <2>2. QED
    BY <1>3, <2>1, SettledKey DEF workVars, LateInv
<1>4. ASSUME NEW k \in Keys, Take(k)
      PROVE  Late /\ \A j \in Keys : LateKey(j)'
  <2>1. /\ late' = late /\ work' = [work EXCEPT ![k] = "taken"]
        /\ running' = [running EXCEPT ![k] = [attempt |-> jobs[k].attempt, cancelled |-> FALSE]]
    BY <1>4 DEF Take
  <2>2. work[k] = "none"
    BY <1>4 DEF Take, IsDue, Scanning, LateInv, SchedulerInv, RunsBooked, Running
  <2>3. late'[k] = "nothing" /\ work'[k] = "taken"
    BY <1>1, <2>1, <2>2 DEF LateInv, LateKey, RunTypes
  <2>4. LateKey(k)'
    BY <2>3 DEF LateKey
  <2>5. \A j \in Keys \ {k} : late'[j] = late[j] /\ work'[j] = work[j] /\ running'[j] = running[j]
    BY <1>1, <2>1 DEF LateInv, RunTypes
  <2>6. \A j \in Keys \ {k} : LateKey(j)'
    BY <2>5, SettledKey
  <2>7. QED
    BY <2>1, <2>4, <2>6 DEF LateInv
<1>5. ASSUME NEW k \in Keys, Release(k)
      PROVE  Late /\ \A j \in Keys : LateKey(j)'
  <2>1. /\ work' = [work EXCEPT ![k] = "none"] /\ running' = [running EXCEPT ![k] = None]
        /\ late' = [late EXCEPT ![k] = "nothing"]
    BY <1>5 DEF Release
  <2>2. late'[k] = "nothing" /\ Late
    BY <2>1 DEF LateInv
  <2>3. LateKey(k)'
    BY <2>2 DEF LateKey
  <2>4. \A j \in Keys \ {k} : late'[j] = late[j] /\ work'[j] = work[j] /\ running'[j] = running[j]
    BY <1>1, <2>1 DEF LateInv, RunTypes
  <2>5. \A j \in Keys \ {k} : LateKey(j)'
    BY <2>4, SettledKey
  <2>6. QED
    BY <2>2, <2>3, <2>5
<1>6. ASSUME NEW k \in Keys, Submit(k) \/ CheckCommit(k) \/ Write(k)
      PROVE  Late /\ \A j \in Keys : LateKey(j)'
  <2>1. UNCHANGED running /\ running[k] # None
    BY <1>6 DEF Submit, CheckCommit, Write, runVars, LateInv, SchedulerInv, RunsBooked, Writes,
         EndWrites
  <2>2. \A j \in Keys \ {k} : late'[j] = late[j] /\ work'[j] = work[j]
    BY <1>1, <1>6 DEF Submit, CheckCommit, Write, LateInv, RunTypes
  <2>3. \A j \in Keys \ {k} : LateKey(j)'
    BY <2>1, <2>2, SettledKey
  <2>4. CASE Submit(k)
    <3>1. work'[k] = "reading" /\ late' = late
      BY <1>1, <2>4 DEF Submit, RunTypes
    <3>2. LateKey(k)'
      BY <2>1, <3>1 DEF LateInv, LateKey
    <3>3. QED
      BY <2>3, <3>1, <3>2 DEF LateInv
  <2>5. CASE CheckCommit(k)
    <3>1. work'[k] \in {"memory", "checkpoint"} /\ late' = late /\ ~running[k].cancelled
      BY <1>1, <2>5 DEF CheckCommit, MayWrite, RunTypes
    <3>2. late[k] = "nothing"
      BY <2>1, <3>1 DEF LateInv, LateKey
    <3>3. LateKey(k)'
      BY <3>1, <3>2 DEF LateKey
    <3>4. QED
      BY <2>3, <3>1, <3>3 DEF LateInv
  <2>6. CASE Write(k)
    <3>1. /\ work[k] \in Writes /\ work'[k] \in After(work[k])
          /\ late' = [late EXCEPT ![k] = IF running[k].cancelled THEN WithLate(late[k], work[k])
                                         ELSE late[k]]
      BY <1>1, <2>6 DEF Write, RunTypes
    <3>2. late'[k] = IF running[k].cancelled THEN WithLate(late[k], work[k]) ELSE late[k]
      BY <3>1 DEF LateInv
    <3>3. late'[k] \in {"nothing", "memory", "end", "more"} /\ Late
      BY <3>1, <3>2 DEF LateInv, WithLate
    <3>4. ~running[k].cancelled => late'[k] = "nothing"
      BY <2>1, <3>2 DEF LateInv, LateKey
    <3>5. CASE work[k] = "memory"
      <4>1. late'[k] \in {"nothing", "memory"} /\ work'[k] = "reading"
        BY <3>1, <3>2, <3>5 DEF After, WithLate, LateInv, LateKey
      <4>2. QED
        BY <2>1, <2>3, <3>3, <3>4, <4>1 DEF LateKey
    <3>6. CASE work[k] \in EndWrites
      <4>1. late'[k] \in {"nothing", "end"}
        BY <3>2, <3>6 DEF EndWrites, WithLate, LateInv, LateKey
      <4>2. work'[k] \in {"notification", "written"}
        BY <3>1, <3>6 DEF EndWrites, After
      <4>3. QED
        BY <2>1, <2>3, <3>3, <3>4, <4>1, <4>2 DEF LateKey
    <3>7. QED
      BY <3>1, <3>5, <3>6 DEF Writes
  <2>7. QED
    BY <1>6, <2>4, <2>5, <2>6
<1>7. ASSUME NEW k \in Keys, Schedule(k) \/ Cancel(k) \/ SubmitFails(k) \/ Finish(k) \/ Retry(k)
      PROVE  \/ UNCHANGED workVars /\ \E ks : Invalidate(ks)
             \/ \E j \in Keys : Release(j)
  BY <1>7 DEF Schedule, Cancel, SubmitFails, Finish, Retry, Complete, workVars
<1>8. ASSUME StopAccepting PROVE UNCHANGED workVars /\ \E ks : Invalidate(ks)
  BY <1>8 DEF StopAccepting, workVars
<1>9. ASSUME \/ StartScan \/ EndCoordinator \/ DropStale \/ PutAside \/ EndScan \/ TimesOut
             \/ Submitted \/ CloseExecutor \/ Tick \/ UNCHANGED vars
      PROVE  UNCHANGED workVars /\ UNCHANGED running
  BY <1>9 DEF StartScan, EndCoordinator, DropStale, PutAside, EndScan, TimesOut, Submitted,
       CloseExecutor, Tick, vars, queueVars, runVars, workVars
<1> HIDE DEF Late
<1>10. QED
  BY <1>3, <1>4, <1>5, <1>6, <1>7, <1>8, <1>9 DEF Next, Coordinator, Caller, Worker

\* An extraction that was cancelled, or replaced by a newer turn, finishes at most the one commit
\* that it had begun - a Memory, or the checkpoint with its notification - and begins no other.
THEOREM OneLateCommit == Spec => []OneCommitAfterCancel
<1>1. Init => LateInv
  BY InitInv DEF Init, LateInv, LateKey
<1>2. LateInv => OneCommitAfterCancel
  BY DEF LateInv, LateKey, OneCommitAfterCancel
<1>3. QED
  BY NextLate, <1>1, <1>2, PTL DEF Spec
=============================================================================
