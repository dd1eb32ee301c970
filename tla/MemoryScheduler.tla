--------------------------- MODULE MemoryScheduler ---------------------------
(***************************************************************************)
(* MemoryExtractionScheduler: one idle extraction per actor and session,   *)
(* kept in a dictionary and in a heap that may hold entries of jobs that   *)
(* were replaced; a coordinator thread takes the jobs that are due and     *)
(* whose actor has no extraction running, and hands them to a pool of      *)
(* workers.  Callers, coordinator and workers share one condition; a scan  *)
(* of the heap holds its lock from the first entry to the last.            *)
(*                                                                         *)
(* Time is counted in ticks that are left.  Ties in the heap are broken by *)
(* the order of insertion, also after a compaction.                        *)
(***************************************************************************)
EXTENDS Integers, Sequences, FiniteSets

CONSTANTS
    Keys,         \* pairs of an actor and a session
    MaxWorkers,   \* max_workers
    MaxPending,   \* max_pending_jobs
    MaxRetries,   \* max_retries
    Idle,         \* idle_seconds, in ticks
    RetryDelay,   \* a delay of retry_delays_seconds, in ticks
    HeapSlack,    \* the entries that the heap may have beyond twice the jobs: 100
    MaxGeneration, \* bound: no schedule beyond this generation
    None

ASSUME SchedulerAssumption ==
    /\ IsFiniteSet(Keys)
    /\ MaxWorkers \in Nat \ {0}
    /\ MaxPending \in Nat \ {0}
    /\ MaxRetries \in Nat
    /\ Idle \in Nat
    /\ RetryDelay \in Nat
    /\ HeapSlack \in Nat
    /\ MaxGeneration \in Nat
    /\ None \notin [attempt : 0 .. MaxRetries, cancelled : BOOLEAN]

VARIABLES
    phase,        \* "open", "stopping" (nothing is accepted) or "closed" (the executor too)
    jobs,         \* _jobs
    heap,         \* _heap, in its order
    running,      \* _running_jobs
    busy,         \* _running_actor_keys
    inflight,     \* _inflight
    generation,   \* _generation
    coordinator,  \* "look", "scan" (with the lock), "submit", "asleep" or "ended"
    blocked,      \* the entries that a scan has put aside
    wake,         \* the ticks until the coordinator's wait times out, None without a timeout
    work,         \* the callback of each running job
    late          \* history: what each callback has written since its job was cancelled

queueVars == <<phase, jobs, heap, generation>>
runVars == <<running, busy, inflight>>
coordinatorVars == <<coordinator, blocked, wake>>
workVars == <<work, late>>
vars == <<queueVars, runVars, coordinatorVars, workVars>>

Actor(k) == k[1]

Job(g, n) == [generation |-> g, attempt |-> n]

Init ==
    /\ phase = "open"
    /\ jobs = [k \in Keys |-> None]
    /\ heap = <<>>
    /\ running = [k \in Keys |-> None]
    /\ busy = {}
    /\ inflight = 0
    /\ generation = 0
    /\ coordinator = "look"
    /\ blocked = <<>>
    /\ wake = None
    /\ work = [k \in Keys |-> "none"]
    /\ late = [k \in Keys |-> "nothing"]

Pending == {k \in Keys : jobs[k] # None}
Running == {k \in Keys : running[k] # None}

\* An entry of the heap counts if it has the generation of the job.
Live(e) == jobs[e.key] # None /\ jobs[e.key].generation = e.generation

\* heappush, for an entry that is newer than all others.
Push(h, k, g, delay) ==
    SelectSeq(h, LAMBDA e : e.left <= delay) \o <<[key |-> k, generation |-> g, left |-> delay]>>
        \o SelectSeq(h, LAMBDA e : e.left > delay)

\* _compact_heap_if_needed.
Compact(h, js) ==
    IF Len(h) <= 2 * Cardinality({k \in Keys : js[k] # None}) + HeapSlack THEN h
    ELSE SelectSeq(h, LAMBDA e : js[e.key] # None /\ js[e.key].generation = e.generation)

(***************************************************************************)
(* The callers.                                                            *)
(***************************************************************************)

\* What takes the condition's lock waits for the end of a scan.
LockFree == coordinator # "scan"

\* Mutant: nobody is woken.
NotifyNobody == UNCHANGED <<coordinator, wake>>
\* notify_all.
Notify ==
    /\ coordinator' = IF coordinator = "asleep" THEN "look" ELSE coordinator
    /\ wake' = None

\* A running job is marked, and told apart from its successor by that alone.
Invalidate(ks) ==
    running' = [k \in Keys |-> IF k \in ks /\ running[k] # None
                               THEN [running[k] EXCEPT !.cancelled = TRUE] ELSE running[k]]

QueueFull(k) == jobs[k] = None /\ running[k] = None /\ Cardinality(Pending) >= MaxPending

\* schedule: a job that is pending is replaced, one that is running is cancelled.
Schedule(k) ==
    /\ LockFree
    /\ phase = "open"
    /\ ~QueueFull(k)
    /\ generation < MaxGeneration
    /\ Invalidate({k})
    /\ generation' = generation + 1
    /\ jobs' = [jobs EXCEPT ![k] = Job(generation', 0)]
    /\ heap' = Compact(Push(heap, k, generation', Idle), jobs')
    /\ Notify
    /\ UNCHANGED <<phase, busy, inflight, blocked, work, late>>

\* cancel: a new turn, a reset or a deletion of the session.
Cancel(k) ==
    /\ LockFree
    /\ jobs' = [jobs EXCEPT ![k] = None]
    /\ Invalidate({k})
    /\ Notify
    /\ UNCHANGED <<phase, heap, generation, busy, inflight, blocked, work, late>>

\* shutdown, under the lock, ...
StopAccepting ==
    /\ LockFree
    /\ phase = "open"
    /\ phase' = "stopping"
    /\ jobs' = [k \in Keys |-> None]
    /\ Invalidate(Keys)
    /\ Notify
    /\ UNCHANGED <<heap, generation, busy, inflight, blocked, work, late>>

\* ... and after the coordinator has ended, or five seconds.
CloseExecutor ==
    /\ phase = "stopping"
    /\ phase' = "closed"
    /\ UNCHANGED <<jobs, heap, generation, runVars, coordinatorVars, workVars>>

(***************************************************************************)
(* The coordinator: _run and _take_runnable_jobs.                          *)
(***************************************************************************)

\* _next_wait_seconds, for the heap h: None is a wait without a timeout.
EligibleTimes(h) ==
    {h[i].left : i \in {j \in 1 .. Len(h) : Live(h[j]) /\ Actor(h[j].key) \notin busy}}
Timeout(h) ==
    IF inflight >= MaxWorkers \/ EligibleTimes(h) = {} THEN None
    ELSE CHOOSE n \in EligibleTimes(h) : \A m \in EligibleTimes(h) : n <= m

\* _discard_stale_heap_head.
DropStaleHead(h) ==
    LET stale == {n \in 0 .. Len(h) : \A i \in 1 .. n : ~Live(h[i])}
    IN SubSeq(h, 1 + CHOOSE n \in stale : \A m \in stale : m <= n, Len(h))

Sleep(h) ==
    /\ coordinator' = "asleep"
    /\ heap' = DropStaleHead(h)
    /\ wake' = Timeout(heap')

StartScan ==
    /\ coordinator = "look" /\ phase = "open"
    /\ IF inflight < MaxWorkers
       THEN coordinator' = "scan" /\ UNCHANGED <<heap, wake>>
       ELSE Sleep(heap)
    /\ UNCHANGED <<phase, jobs, generation, runVars, blocked, workVars>>

EndCoordinator ==
    /\ coordinator = "look" /\ phase # "open"
    /\ coordinator' = "ended"
    /\ UNCHANGED <<queueVars, runVars, blocked, wake, workVars>>

Scanning == coordinator = "scan" /\ inflight < MaxWorkers /\ heap # <<>>

DropStale ==
    /\ Scanning
    /\ ~Live(Head(heap))
    /\ heap' = Tail(heap)
    /\ UNCHANGED <<phase, jobs, generation, runVars, coordinatorVars, workVars>>

\* Mutant: whether the actor is busy is not looked at.
IsDueOnly(e) == Live(e) /\ e.left = 0
IsDue(e) == Live(e) /\ e.left = 0 /\ Actor(e.key) \notin busy

\* The next entry is that of a job whose actor is busy: it is kept for the end of the scan.
PutAside ==
    /\ Scanning
    /\ Live(Head(heap)) /\ Head(heap).left = 0 /\ ~IsDue(Head(heap))
    /\ heap' = Tail(heap)
    /\ blocked' = Append(blocked, Head(heap))
    /\ UNCHANGED <<phase, jobs, generation, runVars, coordinator, wake, workVars>>

Take(k) ==
    /\ Scanning
    /\ Head(heap).key = k
    /\ IsDue(Head(heap))
    /\ heap' = Tail(heap)
    /\ jobs' = [jobs EXCEPT ![k] = None]
    /\ running' = [running EXCEPT ![k] = [attempt |-> jobs[k].attempt, cancelled |-> FALSE]]
    /\ busy' = busy \cup {Actor(k)}
    /\ inflight' = inflight + 1
    /\ work' = [work EXCEPT ![k] = "taken"]
    /\ UNCHANGED <<phase, generation, coordinatorVars, late>>

\* The scan ends at an entry that is not due: what was put aside goes back.
EndScan ==
    /\ coordinator = "scan"
    /\ Scanning => Live(Head(heap)) /\ Head(heap).left > 0
    /\ blocked' = <<>>
    /\ IF \E k \in Keys : work[k] = "taken"
       THEN coordinator' = "submit" /\ heap' = blocked \o heap /\ UNCHANGED wake
       ELSE Sleep(blocked \o heap)
    /\ UNCHANGED <<phase, jobs, generation, runVars, workVars>>

TimesOut ==
    /\ coordinator = "asleep"
    /\ wake = 0
    /\ coordinator' = "look"
    /\ wake' = None
    /\ UNCHANGED <<queueVars, runVars, blocked, workVars>>

\* Mutant: the counter is forgotten.
ReleaseKey(k) ==
    /\ busy' = busy \ {Actor(k)}
    /\ running' = [running EXCEPT ![k] = None]
    /\ work' = [work EXCEPT ![k] = "none"]
    /\ late' = [late EXCEPT ![k] = "nothing"]
    /\ UNCHANGED inflight
\* A job that is not running any more gives its place back.
Release(k) ==
    /\ busy' = busy \ {Actor(k)}
    /\ inflight' = IF inflight > 0 THEN inflight - 1 ELSE 0
    /\ running' = [running EXCEPT ![k] = None]
    /\ work' = [work EXCEPT ![k] = "none"]
    /\ late' = [late EXCEPT ![k] = "nothing"]

\* The jobs of a scan are submitted without the lock, in any order; ...
Submit(k) ==
    /\ coordinator = "submit"
    /\ work[k] = "taken"
    /\ phase # "closed"
    /\ work' = [work EXCEPT ![k] = "reading"]
    /\ UNCHANGED <<queueVars, runVars, coordinatorVars, late>>
\* ... an executor that is closed refuses them.
SubmitFails(k) ==
    /\ coordinator = "submit"
    /\ work[k] = "taken"
    /\ phase = "closed"
    /\ Release(k)
    /\ UNCHANGED <<queueVars, coordinatorVars>>
Submitted ==
    /\ coordinator = "submit"
    /\ \A k \in Keys : work[k] # "taken"
    /\ coordinator' = "look"
    /\ UNCHANGED <<queueVars, runVars, blocked, wake, workVars>>

(***************************************************************************)
(* The workers.  The callback asks the model, and looks at the job before  *)
(* each of its commits: a Memory, or, at the end, the checkpoint and then  *)
(* the notification.  That the notification is removed and written anew is *)
(* one step: nothing is looked at between the two.                         *)
(***************************************************************************)
EndWrites == {"checkpoint", "notification"}
Writes == {"memory"} \cup EndWrites

\* Mutant: should_commit is not asked.
MayWriteAnyway(k) == TRUE
MayWrite(k) == ~running[k].cancelled
CheckCommit(k) ==
    /\ work[k] = "reading"
    /\ MayWrite(k)
    /\ \E first \in {"memory", "checkpoint"} : work' = [work EXCEPT ![k] = first]
    /\ UNCHANGED <<queueVars, runVars, coordinatorVars, late>>

\* What follows a write; only a Memory is followed by another check.
After(write) ==
    CASE write = "memory" -> {"reading"}
      [] write = "checkpoint" -> {"notification", "written"}
      [] write = "notification" -> {"written"}

\* The commits of late writes: none, a Memory, the one at the end, or more than one.
WithLate(before, write) ==
    CASE before = "nothing" -> IF write = "memory" THEN "memory" ELSE "end"
      [] before = "end" /\ write \in EndWrites -> "end"
      [] OTHER -> "more"

Write(k) ==
    /\ work[k] \in Writes
    /\ \E next \in After(work[k]) : work' = [work EXCEPT ![k] = next]
    /\ late' = [late EXCEPT ![k] = IF running[k].cancelled THEN WithLate(@, work[k]) ELSE @]
    /\ UNCHANGED <<queueVars, runVars, coordinatorVars>>

\* Mutant: a cancellation and a shutdown are not looked at.
MayRetryAnyway(k) == running[k].attempt < MaxRetries /\ jobs[k] = None
MayRetry(k) ==
    /\ ~running[k].cancelled
    /\ running[k].attempt < MaxRetries
    /\ jobs[k] = None
    /\ phase = "open"

\* _complete, after a return, or an error of either kind.
Complete(k) ==
    /\ LockFree
    /\ work[k] \notin {"none", "taken"}
    /\ Release(k)
    /\ Notify
    /\ UNCHANGED <<phase, blocked>>
Finish(k) ==
    /\ Complete(k)
    /\ UNCHANGED <<jobs, heap, generation>>
Retry(k) ==
    /\ work[k] # "written"
    /\ Complete(k)
    /\ MayRetry(k)
    /\ generation' = generation + 1
    /\ jobs' = [jobs EXCEPT ![k] = Job(generation', running[k].attempt + 1)]
    /\ heap' = Push(heap, k, generation', RetryDelay)

\* A tick passes: no scan and no sleep goes over one.
Tick ==
    LET passed(h) == [i \in 1 .. Len(h) |-> [h[i] EXCEPT !.left = IF @ > 0 THEN @ - 1 ELSE 0]]
    IN /\ coordinator # "scan"
       /\ wake # 0
       /\ \E i \in 1 .. Len(heap) : heap[i].left > 0
       /\ heap' = passed(heap)
       /\ wake' = IF wake = None THEN None ELSE wake - 1
       /\ UNCHANGED <<phase, jobs, generation, runVars, coordinator, blocked, workVars>>

Coordinator ==
    \/ StartScan \/ EndCoordinator \/ DropStale \/ PutAside \/ EndScan \/ TimesOut \/ Submitted
    \/ \E k \in Keys : Take(k) \/ Submit(k) \/ SubmitFails(k)
Worker(k) == CheckCommit(k) \/ Write(k) \/ Finish(k) \/ Retry(k)
Caller == StopAccepting \/ CloseExecutor \/ \E k \in Keys : Schedule(k) \/ Cancel(k)

Next == Coordinator \/ Caller \/ Tick \/ \E k \in Keys : Worker(k)

Spec == Init /\ [][Next]_vars

\* The coordinator goes on, shutdown does not stop half-way; time passes and a callback returns
\* and gets the lock at last, however often the coordinator is woken meanwhile.
FairSpec ==
    /\ Spec
    /\ WF_vars(Coordinator) /\ SF_vars(Tick) /\ WF_vars(CloseExecutor)
    /\ \A k \in Keys : SF_vars(Finish(k))

(***************************************************************************)
(* Properties.                                                             *)
(***************************************************************************)
Entry == [key : Keys, generation : Nat, left : Nat]

TypeOK ==
    /\ phase \in {"open", "stopping", "closed"}
    /\ jobs \in [Keys -> [generation : Nat, attempt : 0 .. MaxRetries] \cup {None}]
    /\ heap \in Seq(Entry)
    /\ running \in [Keys -> [attempt : 0 .. MaxRetries, cancelled : BOOLEAN] \cup {None}]
    /\ busy \subseteq {Actor(k) : k \in Keys}
    /\ inflight \in Nat
    /\ generation \in Nat
    /\ coordinator \in {"look", "scan", "submit", "asleep", "ended"}
    /\ blocked \in Seq(Entry)
    /\ wake \in Nat \cup {None}
    /\ work \in [Keys -> {"none", "taken", "reading", "written"} \cup Writes]
    /\ late \in [Keys -> {"nothing", "memory", "end", "more"}]

\* Extractions of one actor never overlap: they share its Memory files, its checkpoints and its
\* notifications.
OneRunPerActor ==
    \A j, k \in Running : Actor(j) = Actor(k) => j = k

\* The counter that bounds the workers is the number of jobs that run, through retries, refused
\* submissions and cancellations.
InflightExact == inflight = Cardinality(Running) /\ inflight <= MaxWorkers

\* The queue is bounded: max_pending_jobs, and the keys that run, which may be scheduled again
\* without a look at the limit.
QueueBounded == Cardinality(Pending) <= MaxPending + MaxWorkers

\* A coordinator that sleeps misses no job: it wakes when the first one that it could take is due.
WakesInTime ==
    coordinator = "asleep" /\ inflight < MaxWorkers =>
        \A k \in Pending : Actor(k) \notin busy =>
            wake # None /\ \E i \in 1 .. Len(heap) :
                heap[i].key = k /\ Live(heap[i]) /\ wake <= heap[i].left

\* What an extraction still writes after its job was cancelled, or replaced by a newer turn,
\* belongs to one commit, which it had begun: a Memory, or the checkpoint and the notification.
OneCommitAfterCancel == \A k \in Keys : late[k] # "more"

\* A pending job does not stay: it runs, or is cancelled.
JobsServed == \A k \in Keys : jobs[k] # None ~> jobs[k] = None

\* A shutdown ends the coordinator and all extractions, and leaves nothing pending.
StopDrains == phase = "stopping" ~> [](coordinator = "ended" /\ Running = {} /\ Pending = {})

=============================================================================
