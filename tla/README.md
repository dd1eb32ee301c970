# Zhice agent: TLA+ models

TLA+ models of the Zhice agent runtime (`agent/`), the TLC runs that check them and the TLAPS
proofs about them.  The agent is a Python process (the *Gateway*) that serves chats over
REST, WebSocket and messaging channels: it runs turns of a language model with tools, runs
visual workflows on a schedule, and extracts memories in the background.  The models look at
what a unit test of such a program hardly reaches: threads and requests in an order nobody
wrote down, a stop, a deletion or a shutdown in the middle of something, retries of work that
is still going on, a restart between two transactions.

Contents: [inventory](#1-the-system), [modules](#2-the-modules), [runs](#3-the-runs),
[fairness](#4-fairness), [proofs](#5-what-is-proved),
[disagreements](#6-disagreements-between-code-and-documents),
[what is left out](#7-what-is-not-modelled), [plan](#8-plan).

    tlc -workers 2 -config ChatTurns.cfg MCChatTurns      one run
    tlapm ChatTurnsProofs.tla                             the proofs of one module

## 1. The system

| Component | State | Operations | Hard behaviour | What makes it correct |
|---|---|---|---|---|
| Core agent loop (`core/loop.py`, `core/context.py`, `core/turns.py`) | the messages of a turn, its token and its iterations; the session's records | `run_turn`: load, ask the model, run tools, append once | a stop between any two steps; errors half-way; two turns of one session | requests carry whole tool blocks; what ran is recorded; a stop stops |
| Web runtime (`app/runtime.py`) | `_active_turns`, the shutdown flag | `run_chat_events`, `cancel_session`, `delete_session`, `shutdown` | turns that are superseded while they leave; registration after a shutdown; deletion of a session in use | every running turn can be stopped; a shutdown reaches all; nothing comes back after a deletion |
| Tool confirmation (`auth/confirmation.py`, `auth/store.py`) | rows of `tool_confirmations` | `request` (polls), `decide`, `expire` | SELECT and UPDATE in two steps, against each other | a risky call runs only after an accepted approval of that very call |
| Workflow store, scheduler, runtime, REST (`workflows/`, `app/api/workflow_routes.py`) | SQLite rows of definitions, versions and schedules; APScheduler's jobs in memory | create, save, publish, pause, resume, import, delete, run, dispatch | requests of several transactions that interleave; a crash between two of them | published versions never change and form one line; the job in memory is the one of the rows |
| Workflow execution (`workflows/catalog.py`, `executor.py`) | status, output and attempts of each node; a pool of workers | sort, run, retry, time out, cancel | handlers that outlive their timeout; retries of skipped nodes; cancellation by another thread | nodes run with their inputs; side effects once; the final status is honest |
| Memory extraction (`memory/scheduler.py`, `extraction.py`) | pending and running jobs, a heap with stale entries, counters | `schedule`, `cancel`, `shutdown`, coordinator, workers | lost wake-ups; retries against cancellations; a refused submission at shutdown | one extraction per actor; no job forgotten; a shutdown drains |
| Weixin channel (`channels/weixin/`, its sidecar in `integrations/weixin_sidecar/`) | the sidecar's durable cursor and acknowledgements; claims of events and an Outbox in SQLite; the account's status; drain and retry threads | inbound frames, claim, turn, send, drain, reconnect | repeated deliveries, a crash after a claim, requests that fail after the server has acted, drains that overlap | a message is answered by one turn at most; the cursor passes nothing that could still be lost without a crash; chunks arrive once and in order |
| MCP runtime (`mcp/runtime.py`) | connections with their queues and tools, a published catalogue, calls in flight | call, list, refresh, reconnect, reload, cancel, close | coroutines of one loop between two awaits, against threads that give up | a call is sent once and gets an answer; the limit on tools holds; close ends every worker |
| Subagents and workspaces (`subagents/`) | a batch, its children and their tokens; the lane of a workspace; Git worktrees | `run_batch`, `acquire`, `release` | children that outlive their batch and hold a lease; failures of Git | writers are alone; every task gets one final answer; a child that was given up begins no more than it had decided to |
| Weixin binding (`channels/weixin/binding.py`) | attempts to log in by QR code | begin, poll, cancel | late frames of an attempt that is over | not modelled |
| LLM failover (`llm/failover_provider.py`) | cooldowns of endpoints | `chat` | attempts, backoffs and cooldowns under one deadline | not modelled |
| Session store, context planning, memory files, auth, diagnostics, travel, QQ, connections, hooks, tools, skills, supervisor, CLI, web UI | files and rows | mostly sequential reads and writes | see section 7 | - |

How they interact.  REST, WebSocket and channel adapters call the Web runtime, each request in
a thread of its own.  The runtime registers the turn, calls the loop and unregisters it.  The
loop calls the model through the failover provider, asks the tool policy and the confirmation
broker before a tool, and appends to the session store.  The broker shares only its SQLite row
with the HTTP threads that decide.  After a turn the runtime schedules an extraction; a new
turn, a reset or a deletion cancels it.  Workflow requests write SQLite first and APScheduler
after; its worker threads call the workflow runtime, which runs the executor.  The Weixin
adapter claims an event before it asks the runtime for a turn, and sends the reply from the
Outbox.  A turn's delegation tool calls the coordinator, whose children run loops of their own
under leases of the actor's workspace; a turn's MCP tools post their calls to the MCP
runtime's loop and wait.

## 2. The modules

Every action is one atomic step of the code: a transaction, a critical section, or what one
thread does between two points where another thread may see or change what it uses.
PROJECT.json maps each definition to its lines.

**WorkflowLifecycle** models one workflow (rows of different workflows never meet): `wf`,
`versions` and `sched` are its rows, `job` the APScheduler job, `pc`, `snap` and `view` the
requests of the editor tabs and what they have read.  sqlite3 opens a transaction at the first
statement that writes, so each transaction of `store.py` is one action and each SELECT before
it another: `SaveDraft`, `CompareActive`, `UpsertDraft` are the steps of a save, and
`PublishBegin`, `StorePublish`, `ComparePublished`, `InsertVersion`, `UpsertSchedule`,
`ListActive`, `RegisterEnable`, `AddJob` those of `publish`, which may end before the schedule
if the account may not schedule (`"deny"`).  `Crash` drops the requests, the job and the worker
between any two; `Start` rebuilds the job.  The routes `run` and `run-draft` write nothing
here: the run itself is WorkflowExecution.
`MCWorkflowLifecycle` has the model values.

**WorkflowGraph** has definitions as data (nodes, kinds, edges, watched nodes) and the
validation of branches and status conditions.  **WorkflowSort** is the sorting loop of
`validate_definition` with its in-degrees.  **WorkflowExecution** runs it and then one run of the
workflow: the run's thread (`phase`, `pos`, `attempt`), the handler it waits for, the handlers
it gave up on that still hold a worker (`zombies`), the cancellation `event`.  The handlers'
work is their outcome.  `SharedExecutor` says whether the run uses the executor that the
cancel route knows: the code allows both, the Gateway never shares.  The run checks the shared
one, whose steps include all that an executor of its own can do before the run has its final
status: an own executor is never cancelled and only returns later, so no property depends on
the choice, and none says that a cancellation stops a run (section 6).

**ToolConfirmation** is the row of one confirmation per request, the worker that polls it, and
the decisions between their SELECT and their UPDATE.  **ChatTurns** composes it (`INSTANCE`)
with the turns of one session: `active`, `closing` and `gateway` are the runtime's registry,
`at[t]` the place of a turn's thread, `cancelled` and `completed` its token and its event,
`pending` and `prompt` the two lists of messages that `run_turn` keeps, `history` the JSONL
file.  Messages keep their role and the calls they carry or answer: that is what the
completeness of tool blocks is about, and `ToPrompt` is the filter of the context builder: the
n-th message of the prompt is the kept one that has n kept messages up to itself.
`ResultsFrom` are the first answers to a message's calls in the row of tool messages behind it.
A response without calls ends a turn, so the batches of calls are not empty
(`core/loop.py:482`).  `lateRuns`, `answers` and `executed` are history.  The token and the
lists of a turn that has ended are cleared, because nothing reads them any more.

**MemoryScheduler** has the pending `jobs`, the `heap` with its stale entries, `running`, `busy`,
`inflight`, and the coordinator's loop step by step: a scan holds the condition's lock, so
callers and completions wait for it (`LockFree`), but submissions run without it.  Time is
counted in ticks left; a coordinator that sleeps has the ticks of its timeout in `wake`.  An
extraction (`work`) checks for a cancellation before each commit: a Memory, or at the end the
checkpoint and then the notification, two writes behind one check.  `late` is history: the
commits that late writes belong to.

**Weixin** is one account and one peer.  The sidecar's half: `poll`, `fetched`, `awaiting` and
the durable `cursor`; a response of the server hands out every message after the cursor, so
that repetition is part of the model and not a fault.  The adapter's half: the handler of each
message (`stage`, `chunk`), its claim (`event`), the `outbox` in the order of its creation
(`order`), the row under the send lock (`sending`), the drain thread with the rows it has read
(`left`), the retry of the account (`retry`, `reauth`).  A request may fail before or after the
server has done what it asks (`SendFails`); `Crash` keeps what is on disk: cursor, events and
Outbox.  A start of the account in the sidecar first stops the one it had (`StopAccount`), which
settles all acknowledgements it waits for and lets the loop move its cursor; if the start then
fails, the sidecar has no account (`poll = "none"`).  The adapter may reject a message without
a claim (`Reject`).  `received`, `doubtful`, `gaveUp`, `refused` and `turns` are history.

**McpRuntime** is the one asyncio loop of `MCPRuntime` with a worker for each server: `worker`,
`queue`, `current`, `wanted`, `interrupted`; an action is what runs between two awaits.  The
catalogue is the number of tools of each connection (`descriptors`), with the refresh on its
way (`refresh`, `answer`) and the server's own
state (`offered`, `notice`), which is external.  `Room` is what the limit leaves beside the
tools of the other servers, counted as the set `Tools`.
`call` is the thread that waits for a call, `reload` and `closing` the other two entry points.

**WorkspaceLanes** is the lane of a workspace: readers, a writer, writers that wait.
**Subagents** uses it (`INSTANCE`) for the children of an actor's turns: `batches` are the
requests, `stage` the place of a child's thread from the pool's queue to its end, `token` its
cancellation, `outcome` what the thread ends with, `answer` what the batch reports, which may
differ for a child that was given up; `tree` is its Git worktree.  A tool call is a look at the
token (`CheckToken`), then hooks, policy and confirmation, which may refuse it (`RefuseTool`),
then the tool (`BeginTool`, `EndTool`): the batch may give the child up at each of these points.
`late` is history.  There is no clock: a child's timeout may pass at any poll of its batch.

## 3. The runs

| Run | Checks | Instance |
|---|---|---|
| `lifecycle_races` | `TypeOK`, `VersionsLinear`, `ActiveIsStored`, `PublishedImmutable` | two tabs that save and publish, with and without the right to schedule; three versions; triggers that are manual, past or cannot be built |
| `lifecycle_restart` | `JobMatchesStore`, `ScheduleKeepsFiring` | one tab that publishes, pauses, resumes, imports, deletes; crashes anywhere |
| `execution_run` | `SourcesFirst`, `CycleFound`, `RanWithInputs`, `EffectsOnce`, `FinalStatusHonest`, `UnfinishedActionIsUnknown`, `RunSettles` | every graph of three nodes, and six workflows with joins, branches, retries, watched nodes and a status condition in a branch, on a pool of one worker |
| `chat_turns` | `RunningIsStoppable`, `ShutdownCancelsAll`, `OneToolAfterCancel`, `ConfirmedBeforeRun`, `RequestsWhole`, `EffectsLeaveTrace` | two turns of one actor or of an owner and an administrator; one response with an allowed call and a risky one |
| `chat_turn_ends` | `TurnsEnd` | one turn of up to two rounds of tools, two decisions |
| `memory_scheduler` | `OneRunPerActor`, `InflightExact`, `OneCommitAfterCancel`, `JobsServed`, `StopDrains` | two actors, one with two sessions, two workers, three generations |
| `weixin` | `OneTurnPerMessage`, `LostOnlyByCrash`, `RepliesInOrderOnce`, `HandlersEnd` | a message with a reply of two chunks and one without a reply; two failed requests or rejections, one crash |
| `mcp` | `SentOnce`, `CatalogueWithinLimit`, `CallsAnswered`, `CloseEndsWorkers` | two servers of two tools each under a limit of three; a call, a failure, a reconnect, a change of tools and a reload |
| `subagents` | `ExclusiveIsAlone`, `AnswersAreFinal`, `AbandonedBeginsOneTool`, `BatchReturns`, `LeasesReturned` | two of a reader, an exclusive writer and a worktree, in one batch on one thread or in two batches; two tool calls each |
| `chat_delete`, `weixin_lost_drain`, `mcp_list_changed` | violations, section 6 | |

What they show, beyond the names:

- Stale saves and publications do no harm to what is published.  A tab that publishes a draft
  it read long ago neither overwrites a version nor moves `active_version` back, and the
  published numbers stay without gaps (`VersionsLinear`, `PublishedImmutable`), although neither
  a request nor a save is one transaction.  The draft itself is not safe: see section 6.
- A restart repairs what a crash left between the rows and the job (`JobMatchesStore` with one
  tab and recurring triggers).  Two tabs break it without any crash, and so do some sequences of
  one tab that saves, see section 6.
- A turn always leaves the registry as the newest one of its actor finds it: a superseded turn
  that leaves late does not remove its successor, so the stop button works
  (`RunningIsStoppable`); a turn that was admitted before a shutdown is cancelled or refused
  (`ShutdownCancelsAll`).
- A stopped turn begins at most one more tool, the one that had passed its checkpoint
  (`OneToolAfterCancel`), and keeps a trace of all that ran (`EffectsLeaveTrace`), but its
  half block never reaches the model (`RequestsWhole`), also when another turn reads the
  session in between.
- However decisions, timeouts and cancellations overwrite each other's row, a risky call runs
  only if an approval of it was answered (`ConfirmedBeforeRun`).  The converse is false: an
  answered denial can be overwritten by a second decision; it is listed as a hazard.
- The coordinator of the extractions never sleeps past a job that it could take
  (`JobsServed`), its counter is exact through refused submissions and retries, and a
  shutdown drains (`StopDrains`).  An extraction that was cancelled in a commit finishes that
  one and begins no other (`OneCommitAfterCancel`).
- The claim before the turn makes every repeated delivery harmless (`OneTurnPerMessage`).  The
  cursor waits for the claims only as long as the sidecar waits for their acknowledgements:
  beyond that, a message it passes unclaimed still has its handler to come, and is lost if the
  process crashes first (`LostOnlyByCrash`).  An event that was claimed when the process
  stopped is not answered either.
- A handler and a drain that hold the same row send it once and in its place, because each
  looks at it again under the send lock; a second copy follows only an attempt whose outcome
  nobody knew (`RepliesInOrderOnce`).
- A call that a reconnect puts back into its queue was never sent, and one that was sent is
  never put back (`SentOnce`).  No sentinel is lost in a race of a reconnect with close: all
  workers end by themselves (`CloseEndsWorkers`).
- Servers that list their tools at the same time do not exceed the common limit, because
  what is free is counted after the await (`CatalogueWithinLimit`).
- A child that hangs in a tool keeps its thread and its lease, but neither its batch nor a
  sibling in the queue for that thread (`BatchReturns`) nor, once the tool returns, those that
  wait for the lane (`LeasesReturned`) depend on it, also when Git fails half-way.
- A child that its batch has given up may still take its lease, create its worktree and begin
  the one tool whose look at the token it had passed, after its "timed_out" was reported, but
  no other (`AbandonedBeginsOneTool`).

Bounds and why they are enough.  `MaxVersion`: three numbers have a draft, an active version
and one that is being published over it.  Three nodes have every shape that the sorting loop
tells apart (self loops, parallel edges of two branches, cycles behind a source); the six
larger definitions add joins, watched nodes and a status condition behind another condition.
Two turns suffice for the registry, where at most one is newest under a key; the actors may be
equal or not.  One response with two calls
has a call before and one after any stop.  `MaxDecisions` (1 or 2) bounds all decisions: a
second one matters for `TurnsEnd`; that two racing decisions never let an unapproved call run
rests on the theorem `RiskyCallsConfirmed`, which has no such bound.  `MaxGeneration` = 3 gives a
job, its replacement while it runs, and another key or a retry; `Schedule` stops at the bound and retries
go on.  `Idle`, `RetryDelay` of one tick: the coordinator sleeps and is woken before, at and
after the tick.  `HeapSlack` = 0 makes the compaction happen, which the code does only beyond
100 extra entries.  `Weixin`: a second message waits behind the first one's lock, and has no
reply, so that both ends of a handler occur; two chunks have an order and a gap; of two faults
(`MaxFaults`) one can hit the handler and one the drain, or one an acknowledged send and one
the retry of the account; `MaxCrashes` = 1.  The lost drain needs two replies instead.
`McpRuntime`: one server would never meet the limit, a third changes nothing in who counts
whom; `MaxFaults`, `MaxReconnects`, `MaxChanges` are 1, which lets each of them meet the call,
the reload and close; the reload keeps both servers and replaces the one with the call.  In
`McpListChanged.cfg` the server is alone, with two changes.  `Subagents`: one task for each
workspace mode; two children (`MaxChildren`) are either one batch, whose second child waits for
the one thread (`MaxParallel`) that the first may keep for ever, or two batches, where the
second meets the lease of a child that the first gave up; two calls per child (`MaxCalls`), one
before and one after it is given up.  Two running siblings of one batch would need a third
child; the safety properties are proved for any number.
Deadlock is off where the system may rest: nobody sends a request, all
turns have ended, the scheduler was shut down, the account is idle, the loop has stopped.

## 4. Fairness

- `WorkflowLifecycle`: a request thread goes on, a job that is due fires and its worker begins;
  a Gateway that is down is started again.  The end of a dispatched run is not fair, since
  `executor.shutdown()` waits for handlers that may hang (`workflows/runtime.py:134-136`):
  `ScheduleKeepsFiring` excepts the schedule whose run never ends, because `max_instances=1`
  then keeps it from firing.  Crashes are never required.
- `WorkflowExecution`: the run's thread goes on, a free worker takes a handler and a node's timeout
  expires.  Every handler may hang for ever: `RunSettles` holds without their return.
- `ChatTurns`: weak fairness of each thread's `Proceed`: providers and tools have timeouts of
  their own and a confirmation has a deadline.  Failures (`Fail`) are possible in every place and
  never relied upon; stops and decisions come from people and are not fair.
- `MemoryScheduler`: weak fairness of the coordinator and of `shutdown`, which ends within its
  five seconds.  Strong fairness of time (`Tick`), which passes although the coordinator may
  be woken again and again, and of the return of a callback, which needs the condition's lock
  that scans and callers keep taking.
- `Weixin`: weak fairness of the poll loop and of each thread (handlers, the drain, the retry of
  the account): every request to the sidecar has a timeout.  New messages, faults and crashes
  are never required.
- `McpRuntime`: weak fairness of the coroutines, while the loop runs.  The server answers or its
  session fails; callers need not time out, cancel or reload.  The ten seconds after which
  `close` gives up are left out: `CloseEndsWorkers` holds without them.
- `Subagents`: weak fairness of the coordinator's polls, with the timeouts they find, and of a
  child's own steps.  A call may hang for ever, in the tool or in a confirmation at a console:
  `BatchReturns` holds without its return, `LeasesReturned` says that it assumes it.

## 5. What is proved

All theorems hold for every value of the constants under the named assumptions of the modules.

| Theorem | Says | Inductive invariant |
|---|---|---|
| `TypeCorrect`, `ActiveAlwaysStored` | `TypeOK`, `ActiveIsStored` with every request and fault | `TypeInv`: types, that an active version is stored and a missing row has none, and that a publication in flight has read a draft |
| `PublishedNeverChanges` | `PublishedImmutable` | `TypeInv` and a lemma on the only steps that write `workflow_versions` |
| `VersionsStayLinear` | `VersionsLinear` without imports and deletions | `LinearInv`: a save or a publication in flight holds numbers not beyond the next one of what is stored now (`NotBeyondNext`), and nothing was loaded or published before the row exists |
| `JobAgreesWithRows` | `JobMatchesStore` for one tab with recurring triggers, through any number of crashes | `JobInv`: what holds at each point of a request, so that its end, or a restart at that point, finds the job and the rows in step (`Midway`, `Registered`, `PausedHasNoJob`, `JobHasSchedule`, `ScheduleOfPublication`), and that the status a saving tab has loaded is current (`ViewIsCurrent`) |
| `SortedSourcesFirst` | `SourcesFirst`, and no node twice, for graphs of any size | `SortInv`: an in-degree counts the edges whose source was not taken |
| `SortTellsCycles` | `CycleFound` for finite graphs of any size: nodes are left over exactly if the graph has a cycle | `SortInv`; a taken set that is closed under sources contains no cycle, and among finitely many nodes that each have a source among them one reaches itself |
| `VisitsSourcesFirst`, `CyclesAreFound` | `SourcesFirst`, `CycleFound` of the order that a run follows | the two of the sort, by `Order` |
| `EffectsHappenOnce`, `UnfinishedStaysUnknown` | `EffectsOnce`, `UnfinishedActionIsUnknown` for any workflow, pool and number of timeouts | `RunInv`: what the loop has not reached was never called (`Ahead`), which needs `SortInv` of the same order, since a node that stands twice would be called twice; what a status condition retries is not an action; an action's attempt is its first (`FirstAttempt`) |
| `RunsWithInputs`, `FinalStatusTells` | `RanWithInputs`, `FinalStatusHonest` for any workflow and pool | `DataInv`: the order of an accepted definition leaves no node out (`Begun`, by counting), all nodes before the current one are decided and none after it (`Decided`, `Untouched`), the current one was entered with its inputs (`Entered`), and while the loop goes on only watched nodes have failed (`Tolerated`) |
| `TurnsStoppable`, `ShutdownReachesAll` | `RunningIsStoppable`, `ShutdownCancelsAll` for any turns, actors and calls | `RegistryInv`: a registered turn stands under its own actor, and the registry is empty after a shutdown has begun. Without the first, nothing says that a turn that registers cancels the turn it hides |
| `RiskyCallsConfirmed` | `ConfirmedBeforeRun` for any decisions, deadlines and withdrawals | `ConfirmInv`: an approval that the row has, or the worker that waits, was answered (`ApprovalsAnswered`), and so was that of a risky call which is about to run |
| `OneLateCall` | `OneToolAfterCancel` | `LateInv`: the turn of every late call is cancelled, and behind the tool: it goes on to its next checkpoint and ends there |
| `EffectsTraced` | `EffectsLeaveTrace` | `TraceInv`: a turn's messages ask for all it has run and for all that waits in its queue (`Traced`) |
| `RequestsAreWhole` | `RequestsWhole` for any turns, histories and batches whose calls have ids of their own | `PromptInv`: a turn's prompt, with the answers its queue still owes behind it, is made of whole blocks (`PromptWhole`). It starts so because the filter makes whole blocks of any history, which is a lemma of its own (`PromptOfHistory`) |
| `ActorsRunAlone`, `InflightIsExact` | `OneRunPerActor`, `InflightExact` for any keys and limits | `SchedulerInv`: `busy` is exactly the actors of the running keys, and a callback exists exactly for a running key |
| `QueueIsBounded` | at most `max_pending_jobs + max_workers` jobs are pending | pending and running keys are bounded *together*: a pending key becomes a running one, which may be queued again without a look at the limit |
| `OneLateCommit` | `OneCommitAfterCancel` for any keys, limits and generations | `LateInv`: a callback that has made a late write is in the rest of that commit, back at its check or has ended, and a job that is not cancelled has none (`LateKey`) |
| `TurnsAreSingle` | `OneTurnPerMessage` for any messages, faults and crashes | `TurnInv`: a handler before its turn holds a claim, and the message of a claim has no turn yet |
| `UnclaimedAreAccounted` | `LostOnlyByCrash` for any messages, faults and crashes | `PollInv`: while dispositions are awaited, each message up to the response's cursor is behind the old cursor, awaited, claimed, rejected, or given up with its handler to come (`Passed`) |
| `RepliesKeepOrder` | `RepliesInOrderOnce` for any messages, chunks, overlapping drains, faults and crashes | `OutboxInv`: the rows of a reply are created one after the other (`Enqueued`) and the order knows them so (`Ordered`), a drain has what is before its rows, or it was sent (`Drained`), the row under the send lock is the next one of its reply (`SendsNext`), and the status of a row tells how many copies the peer may have (`Copies`) |
| `CallsAreSentOnce` | `SentOnce` for any servers, calls, failures and reloads | `SentInv`: a queue holds a call at most once, only at its own server and only unsent (`QueuedAreNew`, `QueuedOnce`), and a call that was not posted was not sent |
| `CatalogueFits` | `CatalogueWithinLimit` for any finite set of servers and any lists of tools | the property itself with the types: the room is counted in the step that writes, so it is inductive. A room counted before the await would not be |
| `WritersAreAlone` | `ExclusiveIsAlone` for any children | `LaneInv`: the lane's sets know of every lease (`LeaseBooked`), and there are never readers beside a writer |
| `AnswersStay`, `AbandonedBeginAtMostOne` | `AnswersAreFinal`, `AbandonedBeginsOneTool` for any children, threads and calls | `AnswerInv`: a batch's children exist when it does (`BatchesInTurn`), a child that was given up has its token set (`AnswersTold`), one that began a tool late is past that call (`LateOnce`), and one that has no lease yet has no worktree (`NoTreeYet`) |

The proof that a step keeps an invariant has one step per action or kind of action.  The
executor's proof takes the order from the sorting loop's by instantiating its proofs
(`Order == INSTANCE WorkflowSortProofs`).

**Assumptions.**  The modules assume no more than the constants' types, that sets of servers and
nodes are finite, and that a response that continues a turn has calls.  Some theorems have
hypotheses of their own, and each of them is needed: TLC finds the property violated without it.

- `VersionsStayLinear`: no imports (they arrive as version 1) and no deletions.
- `JobAgreesWithRows`: one tab (`OneTab`), since no lock spans a request; recurring triggers
  (`AllRecurring`), since a date job is gone once it has fired and a manual republication leaves
  the old schedule; an account that may schedule (`MaySchedule`), since a refusal comes after
  the publication; no saves beside crashes or deletions (`SavesCurrentStatus`), since a save
  writes back the status that the tab has loaded.  Section 6 tells what happens otherwise.
- `RequestsAreWhole`: the calls of one response have different ids (`IdsDiffer`), as the
  providers promise: of two results with one id the filter takes only the first.

**Definitions stated for the proofs.**  Induction over data is out of the prover's reach, so some
definitions are not the recursions that one would first write: a node reaches what every closed
set around it holds (`Reach`, the least such set); the tools of a catalogue are the elements of a
set and not a sum (`Tools`); the n-th message of a prompt is found by counting the kept ones, and
not by a fold (`ToPrompt`); what a drain has left is a set with the order of the rows (`Before`),
and not a sequence that is filtered.

**Only model-checked** is all liveness: `ScheduleKeepsFiring`, `RunSettles`, `TurnsEnd`,
`JobsServed`, `StopDrains`, `HandlersEnd`, `CallsAnswered`, `CloseEndsWorkers`, `BatchReturns`
and `LeasesReturned`, since fairness and `ENABLED` are out of the prover's reach.  Every
invariant and action property of the passing runs is a theorem.

## 6. Disagreements between code and documents

These have a run that TLC finds violated, and a finding in PROJECT.json that quotes the
document.

- `chat_delete`: `delete_session` waits for one turn; others of the session append after the
  file was removed (`app/runtime.py:2776`).
- `weixin_lost_drain`: a row that fails while a drain is alive stays pending: the reconnect
  starts no second drain, and the first does not read the rows again
  (`channels/weixin/adapter.py:557`).
- `mcp_list_changed`: a notice that a server's tools have changed is dropped while a refresh is
  alive, and the refresh may have its answer already (`mcp/runtime.py:862`).

Others were met while modelling.  They have no run of their own: the properties say what does
hold, or the instances keep them out.

- `save_draft` checks `expected_version` in a SELECT and opens its transaction only at the upsert
  (`workflows/store.py:143-179`), so two tabs that pass the check together both write, and the
  later one silently replaces the other's draft; its number may even fall below the active
  version.  The design wants a conflict shown and nothing lost
  (`docs_design/2026-08-22-workflow-enable-switch-and-conflict-recovery-design.md:36-43`,
  `2026-08-10-visual-workflow-scheduler-design.md:999`).  `VersionsLinear` is what remains: it
  bounds the draft by the active version and its successor, and speaks of published numbers.
- A run of a draft (`POST /workflows/{id}/run-draft`) executes content that is not published and
  records it under the draft's version number (`workflows/runtime.py:170-182`), which a later
  save may give to other content: the run history does not tell the two apart.  No property
  here says that a recorded run is of a published version.
- An account that may use workflows and not schedule them publishes a version and is refused
  after it (`workflows/runtime.py:41`): the version is active, and its schedule and job are those
  of before.  `LifecycleRaces.cfg` has this exit (`"deny"`), `LifecycleRestart.cfg` does not.
- The Weixin design saves the cursor after a definite acknowledgement of the whole batch, each
  after its claim (`docs_design/2026-07-24-weixin-clawbot-channel-design.md:250-252`).  The
  sidecar settles an acknowledgement as rejected when its timer ends or the account is stopped
  (`official-driver.js:185`, `324-328`) and moves the cursor (`274-277`).  A crash before the
  handler's claim then loses the message; so does a rejection by the adapter without a claim
  (`adapter.py:262-293`).  `LostOnlyByCrash` says that nothing else does.
- A child that its batch has reported as timed out may begin one more tool, and create its
  worktree, afterwards (`core/loop.py:688`, `subagents/coordinator.py:222`).

- A pause that overlaps a publish or a resume leaves a job registered for a workflow that
  SQLite says is paused (`workflows/runtime.py:96`): `JobMatchesStore` is checked with one tab.
- One tab is enough if it saves what it loaded earlier: a save after a crash writes back a stale
  status, so that the job of a paused workflow runs on, and a save after a deletion brings the
  row back as active, with the job of before.  A republication with a manual trigger leaves the
  old schedule in its row; a date job is gone once it has fired, while its schedule stays
  enabled; an invalid trigger is listed without a job.  `lifecycle_restart` has one recurring
  trigger and no saves.
- The cancel route sets an Event of an executor that the Gateway's run does not use
  (`workflows/runtime.py:127`, `app/runtime.py:3622-3630`); the run goes on with all of its nodes,
  where the design says that a cancellation stops the nodes that have not begun
  (`docs_design/2026-08-10-visual-workflow-scheduler-design.md:521`).  No property here claims it.
- A status condition behind another condition retries a node that its branch had skipped
  (`workflows/executor.py:154`), although the design says that a branch that was not taken stays
  `skipped` (`docs_design/2026-08-10-visual-workflow-scheduler-design.md:520`): `RanWithInputs`
  leaves out the nodes that a status condition retries (`Retried`) and would not find this; the
  workflow `Branched` of
  `execution_run` does this.
- The request for a summary at the iteration limit carries tool calls without their results
  (`core/loop.py:575`): `RequestsWhole` is about the other requests, and `SummaryWhole`, which
  states this one, is in no run.
- The sentinel of a reload ends the backoff of a degraded server and is lost; the reload times
  out (`mcp/runtime.py:543`, `ReloadTimesOut`).

## 7. What is not modelled

PROJECT.json lists every component with its reason.  In short: formatting, parsing, scoring and
token budgets (data that no property here tells apart); single transactions and sequential file
operations (authentication, connections, skills, memory files); transport and user interface;
the travel application, whose lines mostly check schemas, though its plan stages may follow.
Inside the modelled components: a token budget may fail a request at any time
(`RequestTooLarge`) but does not trim it; hooks may block a call but do not change it; an append
to the JSONL file is one step; several workflows, several sessions and their shared limits of
workers are one each; the extraction's prompt and files are a sequence of checked commits;
`Weixin` has one account with one peer and leaves out rate limits, their notices and the
notifications of workflows; `McpRuntime` leaves out elicitation, statistics, the manual refresh
and the checks of schemas, and has one reload; in `Subagents` the child's loop is its looks at the
token, its tool calls with what may refuse them, and its end.

The modules cover the parts of the agent that are concurrent or fail half-way, which is a small
share of its lines: most of the rest checks schemas, formats texts, routes requests and reads or
writes single rows and files, where a model would repeat the code.  `LLM failover` and
`Weixin binding` are the two components with an order of events worth a module that have none.

## 8. Plan

Done, in this order: WorkflowLifecycle and its proofs; WorkflowGraph, WorkflowSort with its
proofs, WorkflowExecution; ToolConfirmation composed into ChatTurns, with proofs about the
registry; MemoryScheduler with its proofs; WorkspaceLanes and Subagents, Weixin and McpRuntime
with their proofs; the proofs about one run of a workflow; the proofs of all other invariants and
action properties of the runs (messages and confirmations of a turn, the order of replies, the
catalogue, late writes, the data of a run, the job of a workflow).

Next modules:

1. `EndpointFailover`: calls that share the cooldowns of up to three endpoints; an endpoint is
   passed over only for its cooldown, the deadline or its failures.  A cooldown that another
   thread has just set must survive the removal of the expired one.
2. `WeixinBinding`: attempts against late frames of the sidecar.
3. An abstract `AnswerOnce` (a message is answered at most once, and answered if nothing crashed)
   that `Weixin` implements with a refinement mapping.
4. Optionally the stages of a travel plan.

Runs: `chat_turn_ends` is to take a second turn, which is beyond a few minutes today.

Theorems worth proving next: that `Weixin` implements `AnswerOnce`, step by step; that a run of
`WorkflowExecution` implements "validate, visit in an order, end" without the pool; the type
invariants of the modules beyond WorkflowLifecycle as theorems of their own; `JobAgreesWithRows`
with manual triggers, for a property that allows the schedule they leave.
