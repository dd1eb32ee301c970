-------------------------- MODULE WorkflowExecution --------------------------
(***************************************************************************)
(* One run of a workflow: WorkflowExecutor.execute of                      *)
(* agent/workflows/executor.py.  The thread of the run walks the nodes in  *)
(* order; each attempt of a node is submitted to a thread pool and waited  *)
(* for up to the node's timeout, after which the handler may go on running *)
(* and keep its worker; a user may ask to cancel the run.                  *)
(***************************************************************************)
EXTENDS WorkflowGraph

CONSTANTS
    MaxWorkers,      \* size of the executor's pool
    SharedExecutor   \* the run uses the executor the cancel route knows
                     \* (no executor_factory); the Gateway always makes its own

ASSUME WorkersAssumption == MaxWorkers \in Nat \ {0}
ASSUME SharedAssumption == SharedExecutor \in BOOLEAN

VARIABLES
    graph,      \* the immutable definition of this run
    indegree, ready,    \* validate_definition's own
    order,      \* the nodes as it has sorted them
    run,        \* workflow_runs.status, "none" before create_run
    pos,        \* position of the loop in the order
    phase,      \* what the run's thread does
    attempt,    \* number of the attempt, or of the evaluation of a status condition
    target,     \* the node being attempted: the current one or the one it watches
    handler,    \* the submitted attempt: "idle", "queued", "running"
    status,     \* statuses: node -> "none", "succeeded", "failed", "skipped"
    result,     \* outputs of the condition nodes: "none", "true", "false"
    code,       \* last error code of a node: "none", "retryable", "permanent",
                \* "timeout", "unknown"
    calls,      \* history: how often the handler of a node was started
    zombies,    \* handlers that outlived their timeout, per node
    event       \* the run's own cancellation Event is set

sorting == <<graph, indegree, ready, order>>
vars == <<sorting, run, pos, phase, attempt, target, handler, status, result, code,
          calls, zombies, event>>

Sort == INSTANCE WorkflowSort WITH ordered <- order

Nodes == graph.nodes
Here == order[pos]
Last == Len(order)
Terminal == {"succeeded", "partial", "failed", "cancelled"}

Sum(f) == LET s[k \in 0 .. Cardinality(DOMAIN f)] == IF k = 0 THEN 0 ELSE s[k - 1] + f[k]
          IN s[Cardinality(DOMAIN f)]
BusyWorkers == Sum(zombies)

MaxCalls == 5

TypeOK ==
    /\ graph \in Graphs
    /\ ready \subseteq Nodes /\ SeqElements(order) \subseteq Nodes
    /\ run \in {"none", "running"} \cup Terminal
    /\ pos \in 1 .. Cardinality(Nodes) + 1
    /\ phase \in {"sort", "node", "wait", "status", "retry", "close", "returned"}
    /\ attempt \in 1 .. MaxCalls + 1
    /\ target \in Nodes
    /\ handler \in {"idle", "queued", "running"}
    /\ status \in [Nodes -> {"none", "succeeded", "failed", "skipped"}]
    /\ result \in [Nodes -> {"none", "true", "false"}]
    /\ code \in [Nodes -> {"none", "retryable", "permanent", "timeout", "unknown"}]
    /\ calls \in [Nodes -> 0 .. MaxCalls]
    /\ zombies \in [Nodes -> 0 .. MaxCalls]
    /\ BusyWorkers + (IF handler = "running" THEN 1 ELSE 0) <= MaxWorkers
    /\ event \in BOOLEAN

Init ==
    /\ Sort!Init
    /\ run = "none" /\ phase = "sort" /\ pos = 1 /\ attempt = 1
    /\ target = CHOOSE n \in Nodes : TRUE
    /\ handler = "idle"
    /\ status = [n \in Nodes |-> "none"]
    /\ result = [n \in Nodes |-> "none"]
    /\ code = [n \in Nodes |-> "none"]
    /\ calls = [n \in Nodes |-> 0]
    /\ zombies = [n \in Nodes |-> 0]
    /\ event = FALSE

\* execute calls validate_definition first; what it refuses leaves no trace.
SortNode ==
    /\ phase = "sort"
    /\ Sort!Take
    /\ UNCHANGED <<run, pos, phase, attempt, target, handler, status, result, code, calls, zombies,
                   event>>

Accepted == WellFormed(graph) /\ Len(order) = Cardinality(Nodes)

RejectDefinition ==
    /\ phase = "sort" /\ ready = {}
    /\ ~Accepted
    /\ phase' = "returned"
    /\ UNCHANGED <<sorting, run, pos, attempt, target, handler, status, result, code, calls,
                   zombies, event>>

\* create_run, status running.
StartRun ==
    /\ phase = "sort" /\ ready = {}
    /\ Accepted
    /\ run' = "running" /\ phase' = "node"
    /\ UNCHANGED <<sorting, pos, attempt, target, handler, status, result, code, calls, zombies,
                   event>>

(***************************************************************************)
(* The loop over the nodes                                                 *)
(***************************************************************************)
\* Mutant: a skipped input no longer skips the node.
SkippedByFailure(n) ==
    \E e \in Into(graph, n) :
        \/ /\ status[e.src] = "failed"
           /\ ~(graph.kind[n] = "status" /\ graph.watch[n] = e.src)
        \/ IsCondition(graph, e.src) /\ status[e.src] # "skipped"
           /\ e.branch # (IF result[e.src] = "true" THEN "true" ELSE "false")

\* An input failed or was skipped (a status condition accepts that of the node it checks),
\* or a condition took the other branch.
Skipped(n) ==
    \E e \in Into(graph, n) :
        \/ /\ status[e.src] \in {"failed", "skipped"}
           /\ ~(graph.kind[n] = "status" /\ graph.watch[n] = e.src)
        \/ /\ IsCondition(graph, e.src)
           /\ e.branch # (IF result[e.src] = "true" THEN "true" ELSE "false")

Submit(n, k) ==
    /\ target' = n /\ attempt' = k
    /\ handler' = "queued" /\ phase' = "wait"

NextNode == pos' = pos + 1 /\ phase' = "node" /\ attempt' = 1

\* Mutant: partial is only reported for a failure.
FinalStatusOfFailures ==
    IF \E n \in Nodes : status[n] = "failed" THEN "partial" ELSE "succeeded"

FinalStatus ==
    IF \E n \in Nodes : status[n] \in {"failed", "skipped"} THEN "partial" ELSE "succeeded"

EndRun(final) == run' = final /\ phase' = "close"

FinishRun ==
    /\ phase = "node" /\ pos > Last
    /\ EndRun(FinalStatus)
    /\ UNCHANGED <<sorting, pos, attempt, target, handler, status, result, code, calls, zombies,
                   event>>

\* The Event is looked at before each node and before each retry of a watched node.
CancelSeen ==
    /\ (phase = "node" /\ pos <= Last) \/ phase = "retry"
    /\ event
    /\ EndRun("cancelled")
    /\ UNCHANGED <<sorting, pos, attempt, target, handler, status, result, code, calls, zombies,
                   event>>

SkipNode ==
    /\ phase = "node" /\ pos <= Last /\ ~event
    /\ Skipped(Here)
    /\ status' = [status EXCEPT ![Here] = "skipped"]
    /\ NextNode
    /\ UNCHANGED <<sorting, run, target, handler, result, code, calls, zombies, event>>

EnterNode ==
    /\ phase = "node" /\ pos <= Last /\ ~event
    /\ ~Skipped(Here)
    /\ IF graph.kind[Here] = "status"
       THEN phase' = "status" /\ attempt' = 1 /\ UNCHANGED <<target, handler>>
       ELSE Submit(Here, 1)
    /\ UNCHANGED <<sorting, run, pos, status, result, code, calls, zombies, event>>

\* record_status_condition, then stop, retry the watched node, or give up.
StatusPassed(n) == status[graph.watch[n]] = "succeeded"
EvaluateStatus ==
    /\ phase = "status"
    /\ result' = [result EXCEPT ![Here] = IF StatusPassed(Here) THEN "true" ELSE "false"]
    /\ status' = [status EXCEPT ![Here] = "succeeded"]
    /\ IF ~StatusPassed(Here) /\ attempt < graph.attempts[Here]
       THEN phase' = "retry" /\ UNCHANGED <<pos, attempt>>
       ELSE NextNode
    /\ UNCHANGED <<sorting, run, target, handler, code, calls, zombies, event>>

RetryWatched ==
    /\ phase = "retry" /\ ~event
    /\ Submit(graph.watch[Here], attempt + 1)
    /\ UNCHANGED <<sorting, run, pos, status, result, code, calls, zombies, event>>

\* prepared_inputs runs outside of run_attempt's try: a binding to an output that is missing
\* ends the run, and the first node without a status is the one reported.  The same bindings
\* resolve again in a retry, unless the watched node was skipped and never prepared before.
Unvisited == {i \in 1 .. Last : status[order[i]] = "none"}
InputsUnresolved ==
    /\ ~event
    /\ \/ /\ phase = "node" /\ pos <= Last /\ ~Skipped(Here)
          /\ graph.kind[Here] \notin {"trigger", "status"}
       \/ phase = "retry" /\ status[graph.watch[Here]] = "skipped"
    /\ status' = IF Unvisited = {} \/ \E n \in Nodes : status[n] = "failed" THEN status
                 ELSE LET first == CHOOSE i \in Unvisited : \A j \in Unvisited : i <= j
                      IN [status EXCEPT ![order[first]] = "failed"]
    /\ EndRun("failed")
    /\ UNCHANGED <<sorting, pos, attempt, target, handler, result, code, calls, zombies, event>>

(***************************************************************************)
(* run_attempt                                                             *)
(***************************************************************************)
\* A worker takes the queued call, unless all of them are held by earlier handlers.
HandlerStart ==
    /\ handler = "queued" /\ BusyWorkers < MaxWorkers
    /\ handler' = "running"
    /\ calls' = [calls EXCEPT ![target] = @ + 1]
    /\ UNCHANGED <<sorting, run, pos, phase, attempt, target, status, result, code, zombies, event>>

HandlerSucceeds ==
    /\ handler = "running"
    /\ handler' = "idle"
    /\ status' = [status EXCEPT ![target] = "succeeded"]
    /\ code' = [code EXCEPT ![target] = "none"]
    /\ IF graph.kind[target] = "condition"
       THEN \E r \in {"true", "false"} : result' = [result EXCEPT ![target] = r]
       ELSE UNCHANGED result
    /\ IF target = Here THEN NextNode ELSE phase' = "status" /\ UNCHANGED <<pos, attempt>>
    /\ UNCHANGED <<sorting, run, target, calls, zombies, event>>

\* Mutant: the retry policy applies to every kind of node.
AttemptsOfPolicy(n) == IF n \in Controlled(graph) THEN 1 ELSE 3

\* Only queries have a retry policy of their own, and not when a status condition watches.
Attempts(n) ==
    IF n \in Controlled(graph) \/ graph.kind[n] # "query" THEN 1 ELSE graph.attempts[n]

\* Mutant: a timeout is reported as a timeout whatever the node.
PlainTimeoutCode(n) == "timeout"

\* A timeout of an action says nothing about its effect.
TimeoutCode(n) == IF graph.kind[n] = "action" THEN "unknown" ELSE "timeout"

\* What the loop does with a failed attempt: again, on to the status condition, or give up.
AttemptFailed(c) ==
    /\ status' = [status EXCEPT ![target] = "failed"]
    /\ code' = [code EXCEPT ![target] = c]
    /\ IF target # Here
       THEN phase' = "status" /\ handler' = "idle" /\ UNCHANGED <<run, pos, attempt, target>>
       ELSE \/ /\ attempt < Attempts(target) /\ c \in {"retryable", "timeout"}
               /\ Submit(target, attempt + 1)
               /\ UNCHANGED <<run, pos>>
            \/ /\ ~(attempt < Attempts(target) /\ c \in {"retryable", "timeout"})
               /\ handler' = "idle" /\ UNCHANGED target
               /\ IF target \in Controlled(graph)
                  THEN NextNode /\ UNCHANGED run
                  ELSE EndRun("failed") /\ UNCHANGED <<pos, attempt>>

\* The handler of a trigger returns a constant.
HandlerFails ==
    /\ handler = "running" /\ graph.kind[target] # "trigger"
    /\ \E c \in {"retryable", "permanent"} : AttemptFailed(c)
    /\ UNCHANGED <<sorting, result, calls, zombies, event>>

\* Mutant: the timeout counts from the start of the handler.
TimeoutOfRunning ==
    /\ handler = "running"
    /\ zombies' = [zombies EXCEPT ![target] = @ + 1]
    /\ AttemptFailed(TimeoutCode(target))
    /\ UNCHANGED <<sorting, result, calls, event>>

\* future.result(timeout) gives up: a queued call is cancelled, a running one goes on.
NodeTimeout ==
    /\ handler \in {"queued", "running"}
    /\ zombies' = IF handler = "running" THEN [zombies EXCEPT ![target] = @ + 1] ELSE zombies
    /\ AttemptFailed(TimeoutCode(target))
    /\ UNCHANGED <<sorting, result, calls, event>>

ZombieReturns ==
    \E n \in Nodes :
        /\ zombies[n] > 0
        /\ zombies' = [zombies EXCEPT ![n] = @ - 1]
        /\ UNCHANGED <<sorting, run, pos, phase, attempt, target, handler, status, result, code,
                       calls, event>>

(***************************************************************************)
(* Cancellation and return                                                 *)
(***************************************************************************)
\* POST /workflow-runs/{id}/cancel sets the Event of the run in the service's executor.
CancelRun ==
    /\ run = "running" /\ ~event
    /\ event' = SharedExecutor
    /\ UNCHANGED <<sorting, run, pos, phase, attempt, target, handler, status, result, code, calls,
                   zombies>>

\* WorkflowRuntime.run shuts its own executor down and waits for all of its handlers.
ReturnRun ==
    /\ phase = "close"
    /\ SharedExecutor \/ BusyWorkers = 0
    /\ phase' = "returned"
    /\ UNCHANGED <<sorting, run, pos, attempt, target, handler, status, result, code, calls,
                   zombies, event>>

Done == phase = "returned" /\ UNCHANGED vars

RunThread ==
    \/ SortNode \/ RejectDefinition \/ StartRun \/ FinishRun \/ CancelSeen \/ SkipNode
    \/ EnterNode \/ EvaluateStatus \/ RetryWatched \/ InputsUnresolved \/ ReturnRun

Next ==
    \/ RunThread
    \/ HandlerStart \/ HandlerSucceeds \/ HandlerFails \/ NodeTimeout \/ ZombieReturns
    \/ CancelRun \/ Done

Spec == Init /\ [][Next]_vars

\* The run's thread, free workers and the clock go on; every handler may hang for ever.
Fairness == WF_vars(RunThread) /\ WF_vars(HandlerStart) /\ WF_vars(NodeTimeout)
FairSpec == Spec /\ Fairness

-----------------------------------------------------------------------------
(***************************************************************************)
(* Properties                                                              *)
(***************************************************************************)
\* The sorting loop orders sources first and finds exactly the cycles (stated in WorkflowSort).
SourcesFirst == Sort!SourcesFirst
CycleFound == Sort!CycleFound

\* What a status condition retries: also a node that was skipped, which then runs although an
\* input of it failed or a condition took the other branch.
Retried(g) == {g.watch[n] : n \in {m \in StatusNodes(g) : g.attempts[m] > 1}}

Ran(n) == calls[n] > 0 \/ (graph.kind[n] = "status" /\ status[n] = "succeeded")

InputsTaken(n) ==
    \A e \in Into(graph, n) :
        /\ status[e.src] = "succeeded" \/ (graph.kind[n] = "status" /\ graph.watch[n] = e.src)
        /\ IsCondition(graph, e.src) =>
               e.branch = (IF result[e.src] = "true" THEN "true" ELSE "false")

\* A node that ran and is not retried by a status condition had every input: its predecessors
\* succeeded (or it is the status condition of the failed one) and every condition before it
\* took the branch to it, also after retries have changed a predecessor's status.
RanWithInputs == \A n \in Nodes \ Retried(graph) : Ran(n) => InputsTaken(n)

\* A side effect is started at most once in a run, whatever times out, fails or is retried.
EffectsOnce == \A n \in Nodes : graph.kind[n] = "action" => calls[n] <= 1

\* The status of a finished run tells what happened: succeeded means every node did, partial
\* that every node was decided and only watched nodes failed, failed that some node did.
FinalStatusHonest ==
    /\ run = "succeeded" => \A n \in Nodes : status[n] = "succeeded"
    /\ run = "partial" => /\ \A n \in Nodes : status[n] # "none"
                          /\ \A n \in Nodes : status[n] = "failed" => n \in Controlled(graph)
    /\ run = "failed" => \E n \in Nodes : status[n] = "failed"

\* An action whose handler is still running after the run gave up on it is recorded with an
\* unknown outcome, never as a definite failure.
UnfinishedActionIsUnknown ==
    \A n \in Nodes :
        graph.kind[n] = "action" /\ zombies[n] > 0 =>
            status[n] = "failed" /\ code[n] = "unknown"

\* A run comes to an end even if handlers hang.
RunSettles == run = "running" ~> run \in Terminal
=============================================================================
