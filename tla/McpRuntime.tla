------------------------------ MODULE McpRuntime ------------------------------
(***************************************************************************)
(* The MCP runtime: one asyncio loop with a worker for each server.  A     *)
(* worker opens a session, lists the server's tools, and sends the calls   *)
(* of its queue one at a time; a failure ends the session and, after a     *)
(* backoff, a new one is opened.  Threads of the program post calls and    *)
(* wait for them, cancel them, ask for a reconnect, reload the specs or    *)
(* close the runtime.  An action is what runs on the loop between two      *)
(* awaits, or the step of a thread.                                        *)
(*                                                                         *)
(* The published snapshot is the descriptors of the listed connections.    *)
(* Elicitation, statistics, credentials and the checks of arguments and    *)
(* schemas are left out, and so are the ten seconds after which close      *)
(* stops the loop with workers that have not ended: CloseEndsWorkers is    *)
(* about what happens before that.                                         *)
(***************************************************************************)
EXTENDS Naturals, Sequences, FiniteSets

CONSTANTS
    Server,
    Call,
    ServerOf,       \* the server of each call's descriptor
    Sizes,          \* the numbers of tools that a server may offer
    MaxTools,       \* MAX_TOOLS_TOTAL
    Stop,           \* the sentinel None in a queue
    MaxFaults,      \* bound: sessions and calls that fail
    MaxReconnects,  \* bound: requests to reconnect
    MaxChanges,     \* bound: changes of a server's tools
    Reloads         \* bound: the new specs of the one reload: the servers to keep, and
                    \* those of today's whose spec is another or gone

ASSUME McpAssumption ==
    /\ IsFiniteSet(Server)
    /\ ServerOf \in [Call -> Server]
    /\ Stop \notin Call
    /\ Sizes \subseteq Nat /\ MaxTools \in Nat
    /\ MaxFaults \in Nat /\ MaxReconnects \in Nat /\ MaxChanges \in Nat
    /\ Reloads \subseteq [keep : SUBSET Server, changed : SUBSET Server]
    /\ \A r \in Reloads : r.changed # {} /\ Server \ r.keep \subseteq r.changed

VARIABLES
    conns,        \* the servers in _connections
    worker,       \* _server_worker: where each one is
    queue,        \* connection.queue
    current,      \* connection.active_request, or Stop if there is none
    wanted,       \* connection.reconnect_requested
    interrupted,  \* connection.active_task is cancelled
    descriptors,  \* the number of connection.descriptors
    refresh,      \* connection.refresh_task: its list request
    answer,       \* what the server has answered to it
    offered,      \* external: the number of tools that the server has
    notice,       \* external: a tools/list_changed on its way
    call,         \* each call_tool_sync and its future
    reload,       \* _reload_specs
    closing,      \* _closed, _stop and the end of the loop
    awaited,      \* the workers that _stop gathers
    sent,         \* history: how often a call was sent to its server
    faults, reconnects, changes

workerVars == <<worker, queue, current, wanted, interrupted>>
catalogVars == <<descriptors, refresh, answer, offered, notice>>
bounds == <<faults, reconnects, changes>>
vars == <<conns, workerVars, catalogVars, call, reload, closing, awaited, sent, bounds>>

NoReload == [phase |-> "idle", todo |-> {}, waits |-> {}, keep |-> {}, replaced |-> {}]

Init ==
    /\ conns = Server
    /\ worker = [s \in Server |-> "connecting"]
    /\ queue = [s \in Server |-> <<>>]
    /\ current = [s \in Server |-> Stop]
    /\ wanted = [s \in Server |-> FALSE]
    /\ interrupted = [s \in Server |-> FALSE]
    /\ descriptors = [s \in Server |-> 0]
    /\ refresh = [s \in Server |-> "none"]
    /\ answer = [s \in Server |-> 0]
    /\ offered \in [Server -> Sizes]
    /\ notice = [s \in Server |-> FALSE]
    /\ call = [c \in Call |-> "idle"]
    /\ reload = NoReload
    /\ closing = "open" /\ awaited = {}
    /\ sent = [c \in Call |-> 0]
    /\ faults = 0 /\ reconnects = 0 /\ changes = 0

Closed == closing # "open"
Pending(c) == call[c] \in {"waiting", "leaving"}

\* The result of a call's future, which a caller that has left does not see.
Answered(c) == IF call[c] = "leaving" THEN "gone" ELSE "answered"

(***************************************************************************)
(* The threads' steps: a call is posted to the loop unless the runtime is  *)
(* closed; its caller leaves when the time is over.                        *)
(***************************************************************************)
Post(c) ==
    /\ call[c] = "idle" /\ ~Closed
    /\ ServerOf[c] \in conns /\ descriptors[ServerOf[c]] > 0
    /\ call' = [call EXCEPT ![c] = "posted"]
    /\ UNCHANGED <<conns, workerVars, catalogVars, reload, closing, awaited, sent, bounds>>

Leave(c) ==
    /\ call[c] = "waiting"
    /\ call' = [call EXCEPT ![c] = "leaving"]
    /\ UNCHANGED <<conns, workerVars, catalogVars, reload, closing, awaited, sent, bounds>>

Close ==
    /\ closing = "open" /\ closing' = "closed"
    /\ UNCHANGED <<conns, workerVars, catalogVars, call, reload, awaited, sent, bounds>>

(***************************************************************************)
(* The calls on the loop.                                                  *)
(***************************************************************************)
Enqueue(c) ==
    /\ call[c] = "posted"
    /\ IF ServerOf[c] \in conns
       THEN /\ queue' = [queue EXCEPT ![ServerOf[c]] = Append(@, c)]
            /\ call' = [call EXCEPT ![c] = "waiting"]
       ELSE /\ call' = [call EXCEPT ![c] = "answered"]
            /\ UNCHANGED queue
    /\ UNCHANGED <<conns, worker, current, wanted, interrupted, catalogVars, reload,
                   closing, awaited, sent, bounds>>

\* The future is cancelled, and the call as well if it is the active one.
CancelLeft(c) ==
    /\ call[c] = "leaving"
    /\ call' = [call EXCEPT ![c] = "gone"]
    /\ interrupted' =
          [s \in Server |-> interrupted[s] \/ (s \in conns /\ current[s] = c)]
    /\ UNCHANGED <<conns, worker, queue, current, wanted, catalogVars, reload, closing,
                   awaited, sent, bounds>>

CancelActive(s) ==
    /\ ~Closed /\ s \in conns /\ worker[s] = "calling" /\ ~interrupted[s]
    /\ interrupted' = [interrupted EXCEPT ![s] = TRUE]
    /\ UNCHANGED <<conns, worker, queue, current, wanted, catalogVars, call, reload,
                   closing, awaited, sent, bounds>>

RequestReconnect(s) ==
    /\ ~Closed /\ s \in conns
    /\ reconnects < MaxReconnects /\ reconnects' = reconnects + 1
    /\ wanted' = [wanted EXCEPT ![s] = TRUE]
    /\ interrupted' = [interrupted EXCEPT ![s] = worker[s] = "calling"]
    /\ UNCHANGED <<conns, worker, queue, current, catalogVars, call, reload, closing,
                   awaited, sent, faults, changes>>

(***************************************************************************)
(* A worker.  The loop of _server_worker and that of _serve_calls look at  *)
(* _closed before they go on; a request in hand is dealt with first.       *)
(***************************************************************************)
\* Mutant: the loops do not look at _closed.
OrEndedNever(next) == next

OrEnded(next) == IF Closed THEN "ended" ELSE next

\* The session is left: a list request on it gets no answer any more.
LeaveSession(s) ==
    refresh' = [refresh EXCEPT ![s] = IF @ = "asked" THEN "orphan" ELSE @]

\* The tools of these servers, a server's numbered up to the length of its list.
Tools(lengths, servers) == UNION {{s} \X (1 .. lengths[s]) : s \in servers}

\* Mutant: the tools of the server itself are counted, and not those of the others.
RoomBesideItself(s) == IF descriptors[s] < MaxTools THEN MaxTools - descriptors[s] ELSE 0

Room(s) ==
    LET others == Cardinality(Tools(descriptors, conns \ {s}))
    IN  IF others < MaxTools THEN MaxTools - others ELSE 0

Connect(s) ==
    /\ worker[s] = "connecting"
    /\ worker' = [worker EXCEPT ![s] = OrEnded("serving")]
    /\ descriptors' =
          [descriptors EXCEPT ![s] = IF offered[s] < Room(s) THEN offered[s] ELSE Room(s)]
    /\ notice' = [notice EXCEPT ![s] = FALSE]
    /\ UNCHANGED <<conns, queue, current, wanted, interrupted, refresh, answer, offered,
                   call, reload, closing, awaited, sent, bounds>>

ConnectFails(s) ==
    /\ worker[s] = "connecting" /\ faults < MaxFaults /\ faults' = faults + 1
    /\ worker' = [worker EXCEPT ![s] = "backoff"]
    /\ descriptors' = [descriptors EXCEPT ![s] = 0]
    /\ UNCHANGED <<conns, queue, current, wanted, interrupted, refresh, answer, offered,
                   notice, call, reload, closing, awaited, sent, reconnects, changes>>

\* A call is active only while its future is open; others are skipped.
Take(s) ==
    /\ worker[s] = "serving" /\ queue[s] # <<>>
    /\ queue' = [queue EXCEPT ![s] = Tail(@)]
    /\ LET c == Head(queue[s]) IN
       \/ /\ c = Stop
          /\ worker' = [worker EXCEPT ![s] = "ended"]
          /\ LeaveSession(s)
          /\ UNCHANGED <<current, sent>>
       \/ /\ c # Stop /\ Pending(c)
          /\ worker' = [worker EXCEPT ![s] = "calling"]
          /\ current' = [current EXCEPT ![s] = c]
          /\ sent' = [sent EXCEPT ![c] = @ + 1]
          /\ UNCHANGED refresh
       \/ /\ c # Stop /\ ~Pending(c)
          /\ worker' = [worker EXCEPT ![s] = OrEnded("serving")]
          /\ UNCHANGED <<current, sent, refresh>>
    /\ UNCHANGED <<conns, wanted, interrupted, descriptors, answer, offered, notice, call,
                   reload, closing, awaited, bounds>>

\* Mutant: a call taken together with a request to reconnect is not put back.
AfterReconnectLosing(q) == IF q = <<>> THEN {q} ELSE {q, Tail(q)}

\* What _next_request leaves of the queue when a reconnect is requested: if both waits
\* are over, a call goes back to the end of the queue and the sentinel is lost.
AfterReconnect(q) ==
    {q} \cup (IF q = <<>> THEN {}
              ELSE {IF Head(q) = Stop THEN Tail(q) ELSE Append(Tail(q), Head(q))})

Reconnect(s) ==
    /\ worker[s] \in {"serving", "backoff"} /\ wanted[s]
    /\ \E q \in AfterReconnect(queue[s]) : queue' = [queue EXCEPT ![s] = q]
    /\ wanted' = [wanted EXCEPT ![s] = FALSE]
    /\ worker' = [worker EXCEPT ![s] = OrEnded("connecting")]
    /\ LeaveSession(s)
    /\ UNCHANGED <<conns, current, interrupted, descriptors, answer, offered, notice, call,
                   reload, closing, awaited, sent, bounds>>

\* The active call ends: the server answers, the time is over, the transport fails, or
\* the task is cancelled.  It is never sent again.
ActiveEnds(s) ==
    /\ worker[s] = "calling"
    /\ call' = [call EXCEPT ![current[s]] = IF Pending(current[s]) THEN Answered(current[s]) ELSE @]
    /\ current' = [current EXCEPT ![s] = Stop]
    /\ interrupted' = [interrupted EXCEPT ![s] = FALSE]
    /\ UNCHANGED <<conns, descriptors, answer, offered, notice, reload, closing, awaited,
                   sent, reconnects, changes>>

StayInSession(s) ==
    /\ worker' = [worker EXCEPT ![s] = OrEnded("serving")]
    /\ UNCHANGED <<queue, wanted, refresh, faults>>

Reopen(s) ==
    /\ worker' = [worker EXCEPT ![s] = OrEnded("connecting")]
    /\ wanted' = [wanted EXCEPT ![s] = FALSE]
    /\ LeaveSession(s)
    /\ UNCHANGED queue

CallReturns(s) == ActiveEnds(s) /\ ~interrupted[s] /\ StayInSession(s)

CallCancelled(s) ==
    /\ ActiveEnds(s) /\ interrupted[s]
    /\ IF wanted[s] THEN Reopen(s) /\ UNCHANGED faults ELSE StayInSession(s)

\* Mutant: the call that failed is queued again.
CallFailsReplaying(s) ==
    /\ worker[s] = "calling" /\ faults < MaxFaults /\ faults' = faults + 1
    /\ worker' = [worker EXCEPT ![s] = OrEnded("connecting")]
    /\ wanted' = [wanted EXCEPT ![s] = FALSE]
    /\ LeaveSession(s)
    /\ queue' = [queue EXCEPT ![s] = Append(@, current[s])]
    /\ current' = [current EXCEPT ![s] = Stop]
    /\ interrupted' = [interrupted EXCEPT ![s] = FALSE]
    /\ UNCHANGED <<conns, descriptors, answer, offered, notice, call, reload, closing,
                   awaited, sent, reconnects, changes>>

CallFails(s) ==
    /\ ActiveEnds(s) /\ Reopen(s)
    /\ faults < MaxFaults /\ faults' = faults + 1

BackoffOver(s) ==
    /\ worker[s] = "backoff"
    /\ worker' = [worker EXCEPT ![s] = OrEnded("connecting")]
    /\ UNCHANGED <<conns, queue, current, wanted, interrupted, catalogVars, call, reload,
                   closing, awaited, sent, bounds>>

\* A call is answered as unavailable; the sentinel counts as the end of the wait.
BackoffRequest(s) ==
    /\ worker[s] = "backoff" /\ queue[s] # <<>>
    /\ queue' = [queue EXCEPT ![s] = Tail(@)]
    /\ worker' = [worker EXCEPT ![s] = OrEnded("connecting")]
    /\ LET c == Head(queue[s]) IN
       call' = IF c # Stop /\ Pending(c) THEN [call EXCEPT ![c] = Answered(c)] ELSE call
    /\ UNCHANGED <<conns, current, wanted, interrupted, catalogVars, reload, closing,
                   awaited, sent, bounds>>

(***************************************************************************)
(* The catalogue.  A notice that arrives while a refresh is alive is       *)
(* dropped (_message_handler).                                             *)
(***************************************************************************)
ToolsChange(s) ==
    /\ changes < MaxChanges /\ changes' = changes + 1
    /\ \E n \in Sizes : offered' = [offered EXCEPT ![s] = n]
    /\ notice' = [notice EXCEPT ![s] = TRUE]
    /\ UNCHANGED <<conns, workerVars, descriptors, refresh, answer, call, reload, closing,
                   awaited, sent, faults, reconnects>>

NoticeArrives(s) ==
    /\ notice[s] /\ worker[s] \in {"serving", "calling"}
    /\ notice' = [notice EXCEPT ![s] = FALSE]
    /\ refresh' = [refresh EXCEPT ![s] = IF @ = "none" /\ s \in conns THEN "asked" ELSE @]
    /\ UNCHANGED <<conns, workerVars, descriptors, answer, offered, call, reload, closing,
                   awaited, sent, bounds>>

ListAnswered(s) ==
    /\ refresh[s] = "asked"
    /\ refresh' = [refresh EXCEPT ![s] = "read"]
    /\ answer' = [answer EXCEPT ![s] = offered[s]]
    /\ UNCHANGED <<conns, workerVars, descriptors, offered, notice, call, reload, closing,
                   awaited, sent, bounds>>

\* A catalogue that does not fit is refused, and the one before stays.
Refreshed(s) ==
    /\ refresh[s] = "read"
    /\ refresh' = [refresh EXCEPT ![s] = "none"]
    /\ answer' = [answer EXCEPT ![s] = 0]
    /\ descriptors' = [descriptors EXCEPT ![s] = IF answer[s] <= Room(s) THEN answer[s] ELSE @]
    /\ UNCHANGED <<conns, workerVars, offered, notice, call, reload, closing, awaited, sent,
                   bounds>>

RefreshFails(s) ==
    /\ refresh[s] \in {"asked", "orphan"}
    /\ \/ refresh[s] = "orphan" /\ UNCHANGED faults
       \/ refresh[s] = "asked" /\ faults < MaxFaults /\ faults' = faults + 1
    /\ refresh' = [refresh EXCEPT ![s] = "none"]
    /\ UNCHANGED <<conns, workerVars, descriptors, answer, offered, notice, call, reload,
                   closing, awaited, sent, reconnects, changes>>

(***************************************************************************)
(* _reload_specs: the connections whose spec is new or gone are stopped    *)
(* one after the other, then the new specs are applied.                    *)
(***************************************************************************)
ReloadBegins ==
    /\ reload.phase = "idle" /\ ~Closed
    /\ \E r \in Reloads :
          reload' = [phase |-> "stopping", todo |-> r.changed, waits |-> {},
                     keep |-> r.keep, replaced |-> {}]
    /\ UNCHANGED <<conns, workerVars, catalogVars, call, closing, awaited, sent, bounds>>

StopWorkers(S) ==
    /\ refresh' = [s \in Server |-> IF s \in S THEN "none" ELSE refresh[s]]
    /\ answer' = [s \in Server |-> IF s \in S THEN 0 ELSE answer[s]]
    /\ interrupted' = [s \in Server |-> interrupted[s] \/ (s \in S /\ worker[s] = "calling")]
    /\ queue' = [s \in Server |-> IF s \in S THEN Append(queue[s], Stop) ELSE queue[s]]

ReloadStops(s) ==
    /\ reload.phase = "stopping" /\ s \in reload.todo
    /\ \A w \in reload.waits : worker[w] = "ended"
    /\ conns' = conns \ {s}
    /\ reload' = [reload EXCEPT !.todo = @ \ {s}, !.waits = {s}, !.replaced = @ \cup {s}]
    /\ StopWorkers({s})
    /\ UNCHANGED <<worker, current, wanted, descriptors, offered, notice, call, closing,
                   awaited, sent, bounds>>

ReloadApplies ==
    /\ reload.phase = "stopping" /\ reload.todo = {}
    /\ \A w \in reload.waits : worker[w] = "ended"
    /\ reload' = [reload EXCEPT !.phase = "applied", !.waits = {}]
    /\ conns' = reload.keep
    /\ LET new == reload.keep \ conns IN
       /\ worker' = [s \in Server |-> IF s \in new THEN OrEnded("connecting") ELSE worker[s]]
       /\ queue' = [s \in Server |-> IF s \in new THEN <<>> ELSE queue[s]]
       /\ wanted' = [s \in Server |-> wanted[s] /\ s \notin new]
       /\ descriptors' = [s \in Server |-> IF s \in new THEN 0 ELSE descriptors[s]]
    /\ UNCHANGED <<current, interrupted, refresh, answer, offered, notice, call, closing,
                   awaited, sent, bounds>>

\* The thread gives up: the task that gathers a worker is cancelled, and the worker too.
ReloadTimesOut ==
    /\ reload.phase = "stopping"
    /\ reload' = [reload EXCEPT !.phase = "failed", !.waits = {}]
    /\ worker' = [s \in Server |->
                    IF s \in reload.waits /\ worker[s] # "calling" THEN "ended" ELSE worker[s]]
    /\ interrupted' = [s \in Server |-> interrupted[s] \/
                                        (s \in reload.waits /\ worker[s] = "calling")]
    /\ UNCHANGED <<conns, queue, current, wanted, catalogVars, call, closing, awaited, sent,
                   bounds>>

(***************************************************************************)
(* _stop, and the end of the loop when all workers have ended.             *)
(***************************************************************************)
StopAll ==
    /\ closing = "closed" /\ closing' = "stopping"
    /\ awaited' = conns
    /\ StopWorkers(conns)
    /\ UNCHANGED <<conns, worker, current, wanted, descriptors, offered, notice, call,
                   reload, sent, bounds>>

LoopEnds ==
    /\ closing = "stopping" /\ \A s \in awaited : worker[s] = "ended"
    /\ closing' = "stopped"
    /\ UNCHANGED <<conns, workerVars, catalogVars, call, reload, awaited, sent, bounds>>

CallStep(c) == Enqueue(c) \/ CancelLeft(c)

EndActive(s) == CallReturns(s) \/ CallCancelled(s) \/ CallFails(s)

WorkerStep(s) ==
    Connect(s) \/ ConnectFails(s) \/ Take(s) \/ Reconnect(s) \/ EndActive(s)
    \/ BackoffOver(s) \/ BackoffRequest(s)

CatalogStep(s) == NoticeArrives(s) \/ ListAnswered(s) \/ Refreshed(s) \/ RefreshFails(s)

LoopStep ==
    \/ \E c \in Call : CallStep(c)
    \/ \E s \in Server : WorkerStep(s) \/ CatalogStep(s) \/ CancelActive(s)
                         \/ RequestReconnect(s) \/ ReloadStops(s)
    \/ ReloadBegins \/ ReloadApplies \/ ReloadTimesOut \/ StopAll \/ LoopEnds

Next ==
    \/ closing # "stopped" /\ LoopStep
    \/ \E c \in Call : Post(c) \/ Leave(c)
    \/ \E s \in Server : ToolsChange(s)
    \/ Close

Spec == Init /\ [][Next]_vars

Running(A) == closing # "stopped" /\ A

(***************************************************************************)
(* The loop runs what is ready; a server that does not answer is left when *)
(* the time of the wait is over.  Callers need not give up, and reload     *)
(* need not run out of time.                                               *)
(***************************************************************************)
FairSpec ==
    /\ Spec
    /\ \A c \in Call : WF_vars(Running(CallStep(c)))
    /\ \A s \in Server : WF_vars(Running(WorkerStep(s))) /\ WF_vars(Running(CatalogStep(s)))
    /\ WF_vars(Running(StopAll)) /\ WF_vars(Running(LoopEnds))
    /\ \A s \in Server : WF_vars(Running(ReloadStops(s)))
    /\ WF_vars(Running(ReloadApplies))

-----------------------------------------------------------------------------
TypeOK ==
    /\ conns \subseteq Server /\ awaited \subseteq Server
    /\ worker \in [Server -> {"connecting", "serving", "calling", "backoff", "ended"}]
    /\ queue \in [Server -> Seq(Call \cup {Stop})]
    /\ current \in [Server -> Call \cup {Stop}]
    /\ wanted \in [Server -> BOOLEAN] /\ interrupted \in [Server -> BOOLEAN]
    /\ descriptors \in [Server -> Nat]
    /\ refresh \in [Server -> {"none", "asked", "read", "orphan"}]
    /\ answer \in [Server -> Nat] /\ offered \in [Server -> Sizes]
    /\ notice \in [Server -> BOOLEAN]
    /\ call \in [Call -> {"idle", "posted", "waiting", "leaving", "gone", "answered"}]
    /\ reload.phase \in {"idle", "stopping", "applied", "failed"}
    /\ closing \in {"open", "closed", "stopping", "stopped"}
    /\ sent \in [Call -> Nat]
    /\ faults \in Nat /\ reconnects \in Nat /\ changes \in Nat

\* A call reaches its server at most once, through timeouts, failures of the transport,
\* reconnects that put it back into the queue, and reloads (_serve_calls,
\* _next_request: "do not replay the current call").
SentOnce == \A c \in Call : sent[c] <= 1

\* With any number of servers that connect, refresh and are replaced, the catalogue of
\* all of them holds at most MAX_TOOLS_TOTAL tools (_discover_tools).
CatalogueWithinLimit == Cardinality(Tools(descriptors, conns)) <= MaxTools

\* A caller need not wait for its own timeout: the runtime answers each call, also when
\* its server reconnects or backs off, unless the server is replaced or the runtime
\* closed (_serve_calls, _server_worker, _next_request).
CallsAnswered ==
    \A c \in Call :
        call[c] = "waiting"
        ~> (call[c] # "waiting" \/ Closed \/ ServerOf[c] \in reload.replaced)

\* After close each worker ends by itself, wherever it was: close does not need its
\* ten seconds (close, _stop, _server_worker).
CloseEndsWorkers == (closing = "stopping") ~> (closing = "stopped")

\* A server that is served and has changed its tools is listed with the new ones in the
\* end (_message_handler: tools/list_changed makes a new snapshot).
CatalogueCatchesUp ==
    \A s \in Server :
        (worker[s] = "serving" /\ descriptors[s] # offered[s])
        ~> (descriptors[s] = offered[s] \/ Closed)
=============================================================================
