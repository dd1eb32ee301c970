--------------------------- MODULE McpRuntimeProofs ---------------------------
(***************************************************************************)
(* A call is sent at most once, for any number of servers and calls and    *)
(* without a bound on failures, reconnects and changes.  The invariant     *)
(* says where a call that was not sent may be: it is in the queue of its   *)
(* own server, once, and only if it was posted there.  A call that is in   *)
(* no queue is never put into one again.                                   *)
(*                                                                         *)
(* The catalogue keeps within its limit for any number of servers that     *)
(* connect and refresh at the same time, because a server counts what the  *)
(* others hold in the step in which it writes its own tools (CatalogueInv, *)
(* CatalogueFits).                                                         *)
(***************************************************************************)
EXTENDS McpRuntime, FiniteSetTheorems, TLAPS

Elements(q) == {q[i] : i \in 1 .. Len(q)}

\* A call stands in a queue at most once; sentinels may be many.
OnceIn(q) == \A i, j \in 1 .. Len(q) : q[i] = q[j] /\ q[i] # Stop => i = j

QueueType == queue \in [Server -> Seq(Call \cup {Stop})]

CallType ==
    /\ call \in [Call -> {"idle", "posted", "waiting", "leaving", "gone", "answered"}]
    /\ sent \in [Call -> Nat]

Unposted(c) == call[c] \in {"idle", "posted"}

QueuedAreNew ==
    \A s \in Server : \A c \in Elements(queue[s]) \ {Stop} :
        sent[c] = 0 /\ ~Unposted(c) /\ ServerOf[c] = s

QueuedOnce == \A s \in Server : OnceIn(queue[s])

UnpostedAreNew == \A c \in Call : Unposted(c) => sent[c] = 0

SentInv ==
    /\ QueueType /\ CallType
    /\ QueuedAreNew /\ QueuedOnce /\ UnpostedAreNew /\ SentOnce

-----------------------------------------------------------------------------
\* The rest of a queue holds what is left, and not the call that was at its head
\* (_next_request: queue.get).
LEMMA RestOfQueue ==
    ASSUME NEW q \in Seq(Call \cup {Stop}), q # <<>>, OnceIn(q)
    PROVE  /\ Tail(q) \in Seq(Call \cup {Stop}) /\ Head(q) \in Elements(q)
           /\ Elements(q) \subseteq Call \cup {Stop}
           /\ Elements(Tail(q)) \subseteq Elements(q)
           /\ OnceIn(Tail(q))
           /\ Head(q) # Stop => Head(q) \notin Elements(Tail(q))
<1>1. Len(q) \in Nat /\ Len(q) > 0 /\ Tail(q) \in Seq(Call \cup {Stop})
      /\ Len(Tail(q)) = Len(q) - 1 /\ Head(q) = q[1]
      /\ \A i \in 1 .. Len(q) - 1 : Tail(q)[i] = q[i + 1]
  OBVIOUS
<1>2. \A i \in 1 .. Len(q) : q[i] \in Call \cup {Stop}
  OBVIOUS
<1>3. Head(q) \in Elements(q) /\ Elements(q) \subseteq Call \cup {Stop}
  BY <1>1, <1>2 DEF Elements
<1>4. Elements(Tail(q)) \subseteq Elements(q)
  BY <1>1 DEF Elements
<1>5. OnceIn(Tail(q))
  BY <1>1 DEF OnceIn
<1>6. Head(q) # Stop => Head(q) \notin Elements(Tail(q))
  BY <1>1 DEF OnceIn, Elements
<1> QED BY <1>1, <1>3, <1>4, <1>5, <1>6

\* At the end of a queue only the new element is added, and it stands there once if it
\* was not in the queue or is a sentinel (_enqueue_call, _stop, _next_request: queue.put).
LEMMA LongerQueue ==
    ASSUME NEW q \in Seq(Call \cup {Stop}), NEW c \in Call \cup {Stop}, OnceIn(q),
           c = Stop \/ c \notin Elements(q)
    PROVE  /\ Append(q, c) \in Seq(Call \cup {Stop})
           /\ Elements(Append(q, c)) \subseteq Elements(q) \cup {c}
           /\ OnceIn(Append(q, c))
<1>1. Len(q) \in Nat /\ Append(q, c) \in Seq(Call \cup {Stop})
      /\ Len(Append(q, c)) = Len(q) + 1 /\ Append(q, c)[Len(q) + 1] = c
      /\ \A i \in 1 .. Len(q) : Append(q, c)[i] = q[i]
  OBVIOUS
<1>2. Elements(Append(q, c)) \subseteq Elements(q) \cup {c}
  BY <1>1 DEF Elements
<1>3. OnceIn(Append(q, c))
  BY <1>1 DEF OnceIn, Elements
<1> QED BY <1>1, <1>2, <1>3

\* What a reconnect leaves of a queue is made of what was there (_next_request).
LEMMA QueueAfterReconnect ==
    ASSUME NEW q \in Seq(Call \cup {Stop}), OnceIn(q), NEW r \in AfterReconnect(q)
    PROVE  r \in Seq(Call \cup {Stop}) /\ Elements(r) \subseteq Elements(q) /\ OnceIn(r)
<1>1. CASE r = q
  BY <1>1
<1>2. CASE q # <<>> /\ Head(q) = Stop /\ r = Tail(q)
  BY <1>2, RestOfQueue
<1>3. CASE q # <<>> /\ Head(q) # Stop /\ r = Append(Tail(q), Head(q))
  <2>1. /\ Tail(q) \in Seq(Call \cup {Stop}) /\ Head(q) \in Elements(q)
        /\ Head(q) \in Call \cup {Stop} /\ Elements(Tail(q)) \subseteq Elements(q)
        /\ OnceIn(Tail(q)) /\ Head(q) \notin Elements(Tail(q))
    BY <1>3, RestOfQueue
  <2>2. /\ r \in Seq(Call \cup {Stop})
        /\ Elements(r) \subseteq Elements(Tail(q)) \cup {Head(q)} /\ OnceIn(r)
    BY <1>3, <2>1, LongerQueue
  <2> QED BY <2>1, <2>2
<1> QED BY <1>1, <1>2, <1>3 DEF AfterReconnect

-----------------------------------------------------------------------------
\* A step that sends nothing, posts nothing into a queue but sentinels, and takes no
\* call back to its beginning keeps the invariant.
LEMMA NothingNew ==
    ASSUME SentInv, UNCHANGED sent,
           call' \in [Call -> {"idle", "posted", "waiting", "leaving", "gone", "answered"}],
           \A c \in Call : Unposted(c)' => Unposted(c),
           queue' \in [Server -> Seq(Call \cup {Stop})],
           \A s \in Server : /\ OnceIn(queue'[s])
                             /\ Elements(queue'[s]) \subseteq Elements(queue[s]) \cup {Stop}
    PROVE  SentInv'
<1>1. QueueType' /\ CallType'
  BY DEF SentInv, QueueType, CallType
<1>2. QueuedAreNew'
  <2> SUFFICES ASSUME NEW s \in Server, NEW c \in Elements(queue'[s]), c # Stop
               PROVE  sent'[c] = 0 /\ ~Unposted(c)' /\ ServerOf[c] = s
    BY DEF QueuedAreNew
  <2>1. c \in Elements(queue[s]) /\ queue[s] \in Seq(Call \cup {Stop})
    BY DEF SentInv, QueueType
  <2>2. c \in Call
    BY <2>1 DEF Elements
  <2>3. sent[c] = 0 /\ ~Unposted(c) /\ ServerOf[c] = s
    BY <2>1 DEF SentInv, QueuedAreNew
  <2> QED BY <2>2, <2>3
<1>3. QueuedOnce'
  BY DEF QueuedOnce
<1>4. UnpostedAreNew' /\ SentOnce'
  BY DEF SentInv, UnpostedAreNew, SentOnce
<1> QED BY <1>1, <1>2, <1>3, <1>4 DEF SentInv

\* A posted call comes to its server's queue, in which it was not (_enqueue_call).
LEMMA EnqueueKeeps ==
    ASSUME SentInv, NEW c \in Call, Enqueue(c)
    PROVE  SentInv'
<1> DEFINE t == ServerOf[c]
<1>0. t \in Server /\ queue[t] \in Seq(Call \cup {Stop}) /\ OnceIn(queue[t])
  BY McpAssumption DEF SentInv, QueueType, QueuedOnce
<1>1. CASE t \notin conns
  <2>1. UNCHANGED <<sent, queue>> /\ call' = [call EXCEPT ![c] = "answered"]
    BY <1>1 DEF Enqueue
  <2>2. \A s \in Server : OnceIn(queue[s])
    BY DEF SentInv, QueuedOnce
  <2> QED BY <2>1, <2>2, NothingNew DEF SentInv, CallType, QueueType, Unposted
<1>2. CASE t \in conns
  <2>1. /\ call[c] = "posted" /\ UNCHANGED sent
        /\ queue' = [queue EXCEPT ![t] = Append(queue[t], c)]
        /\ call' = [call EXCEPT ![c] = "waiting"]
    BY <1>2 DEF Enqueue
  <2>2. sent[c] = 0 /\ c # Stop /\ \A s \in Server : c \notin Elements(queue[s])
    BY <2>1, McpAssumption DEF SentInv, UnpostedAreNew, QueuedAreNew, Unposted
  <2>3. /\ Append(queue[t], c) \in Seq(Call \cup {Stop})
        /\ Elements(Append(queue[t], c)) \subseteq Elements(queue[t]) \cup {c}
        /\ OnceIn(Append(queue[t], c))
    BY <1>0, <2>2, LongerQueue
  <2> HIDE DEF t
  <2>4. QueueType' /\ CallType'
    BY <2>1, <2>3, <1>0 DEF SentInv, QueueType, CallType
  <2>5. QueuedOnce'
    BY <2>1, <2>3, <1>0 DEF SentInv, QueuedOnce, QueueType
  <2>6. QueuedAreNew'
    <3> SUFFICES ASSUME NEW s \in Server, NEW d \in Elements(queue'[s]), d # Stop
                 PROVE  sent'[d] = 0 /\ ~Unposted(d)' /\ ServerOf[d] = s
      BY DEF QueuedAreNew
    <3>1. CASE d \in Elements(queue[s])
      <4>1. d \in Call
        BY <3>1 DEF Elements, SentInv, QueueType
      <4>2. sent[d] = 0 /\ ~Unposted(d) /\ ServerOf[d] = s
        BY <3>1 DEF SentInv, QueuedAreNew
      <4> QED BY <4>1, <4>2, <2>1 DEF Unposted, SentInv, CallType
    <3>2. CASE d \notin Elements(queue[s])
      <4>1. s = t /\ d = c
        BY <3>2, <2>1, <2>3, <1>0 DEF SentInv, QueueType
      <4> QED BY <4>1, <2>1, <2>2 DEF t, Unposted, SentInv, CallType
    <3> QED BY <3>1, <3>2
  <2>7. UnpostedAreNew' /\ SentOnce'
    BY <2>1 DEF SentInv, CallType, UnpostedAreNew, SentOnce, Unposted
  <2> QED BY <2>4, <2>5, <2>6, <2>7 DEF SentInv
<1> QED BY <1>1, <1>2

\* A call that is sent was never sent before, and is in no queue any more (_serve_calls).
LEMMA TakeKeeps ==
    ASSUME SentInv, NEW s \in Server, Take(s)
    PROVE  SentInv'
<1> DEFINE c == Head(queue[s])
<1>0. queue[s] \in Seq(Call \cup {Stop}) /\ OnceIn(queue[s]) /\ queue[s] # <<>>
  BY DEF SentInv, QueueType, QueuedOnce, Take
<1>1. /\ Tail(queue[s]) \in Seq(Call \cup {Stop}) /\ c \in Elements(queue[s])
      /\ Elements(queue[s]) \subseteq Call \cup {Stop}
      /\ Elements(Tail(queue[s])) \subseteq Elements(queue[s])
      /\ OnceIn(Tail(queue[s]))
      /\ c # Stop => c \notin Elements(Tail(queue[s]))
  BY <1>0, RestOfQueue
<1>2. UNCHANGED call /\ queue' = [queue EXCEPT ![s] = Tail(queue[s])]
  BY DEF Take
<1>3. /\ queue' \in [Server -> Seq(Call \cup {Stop})]
      /\ \A r \in Server : OnceIn(queue'[r]) /\ Elements(queue'[r]) \subseteq Elements(queue[r])
  BY <1>1, <1>2 DEF SentInv, QueueType, QueuedOnce
<1>4. CASE UNCHANGED sent
  BY <1>2, <1>3, <1>4, NothingNew DEF SentInv, CallType, Unposted
<1>5. CASE c # Stop /\ Pending(c) /\ sent' = [sent EXCEPT ![c] = @ + 1]
  <2>1. c \in Call /\ sent[c] = 0 /\ ~Unposted(c) /\ ServerOf[c] = s
    BY <1>1, <1>5 DEF SentInv, QueuedAreNew
  <2>2. \A r \in Server : c \notin Elements(queue'[r])
    <3> SUFFICES ASSUME NEW r \in Server, c \in Elements(queue'[r]) PROVE FALSE
      OBVIOUS
    <3>1. CASE r = s
      BY <3>1, <1>1, <1>2, <1>5 DEF SentInv, QueueType
    <3>2. CASE r # s
      <4>1. c \in Elements(queue[r]) \ {Stop}
        BY <1>3, <1>5
      <4> QED BY <4>1, <3>2, <2>1 DEF SentInv, QueuedAreNew
    <3> QED BY <3>1, <3>2
  <2> HIDE DEF c
  <2>3. QueueType' /\ CallType' /\ QueuedOnce'
    BY <1>2, <1>3, <1>5, <2>1 DEF SentInv, QueueType, CallType, QueuedOnce
  <2>4. QueuedAreNew'
    <3> SUFFICES ASSUME NEW r \in Server, NEW d \in Elements(queue'[r]), d # Stop
                 PROVE  sent'[d] = 0 /\ ~Unposted(d)' /\ ServerOf[d] = r
      BY DEF QueuedAreNew
    <3>1. d \in Elements(queue[r]) /\ d # c
      BY <1>3, <2>2
    <3>2. d \in Call
      BY <3>1 DEF Elements, SentInv, QueueType
    <3>3. sent[d] = 0 /\ ~Unposted(d) /\ ServerOf[d] = r
      BY <3>1 DEF SentInv, QueuedAreNew
    <3> QED BY <3>1, <3>2, <3>3, <1>2, <1>5 DEF Unposted, SentInv, CallType
  <2>5. UnpostedAreNew'
    BY <1>2, <1>5, <2>1 DEF SentInv, CallType, UnpostedAreNew, Unposted
  <2>6. SentOnce'
    BY <1>5, <2>1 DEF SentInv, CallType, SentOnce
  <2> QED BY <2>3, <2>4, <2>5, <2>6 DEF SentInv
<1> QED BY <1>4, <1>5 DEF Take

-----------------------------------------------------------------------------
LEMMA SentInit == Init => SentInv
<1> SUFFICES ASSUME Init PROVE SentInv
  OBVIOUS
<1>1. QueueType /\ CallType
  BY DEF Init, QueueType, CallType
<1>2. \A s \in Server : Elements(queue[s]) = {} /\ OnceIn(queue[s])
  BY DEF Init, Elements, OnceIn
<1>3. UnpostedAreNew /\ SentOnce
  BY DEF Init, UnpostedAreNew, SentOnce
<1> QED BY <1>1, <1>2, <1>3 DEF SentInv, QueuedAreNew, QueuedOnce

LEMMA SentStep ==
    ASSUME SentInv, [Next]_vars
    PROVE  SentInv'
<1>0. /\ \A s \in Server : queue[s] \in Seq(Call \cup {Stop}) /\ OnceIn(queue[s])
      /\ queue \in [Server -> Seq(Call \cup {Stop})]
      /\ call \in [Call -> {"idle", "posted", "waiting", "leaving", "gone", "answered"}]
  BY DEF SentInv, QueueType, QueuedOnce, CallType
<1>1. CASE UNCHANGED <<queue, call, sent>>
  BY <1>0, <1>1, NothingNew DEF Unposted
<1>2. ASSUME NEW c \in Call, Post(c) \/ Leave(c) \/ CancelLeft(c) PROVE SentInv'
  <2>1. UNCHANGED <<queue, sent>>
    BY <1>2 DEF Post, Leave, CancelLeft, workerVars
  <2>2. /\ call' \in [Call -> {"idle", "posted", "waiting", "leaving", "gone", "answered"}]
        /\ \A d \in Call : Unposted(d)' => Unposted(d)
    BY <1>0, <1>2 DEF Post, Leave, CancelLeft, Unposted
  <2> QED BY <1>0, <2>1, <2>2, NothingNew
<1>3. ASSUME NEW s \in Server, EndActive(s) PROVE SentInv'
  <2>1. UNCHANGED <<queue, sent>>
    BY <1>3 DEF EndActive, CallReturns, CallCancelled, CallFails, ActiveEnds, StayInSession,
               Reopen
  <2>2. call' = [call EXCEPT ![current[s]] =
                    IF Pending(current[s]) THEN Answered(current[s]) ELSE @]
    BY <1>3 DEF EndActive, CallReturns, CallCancelled, CallFails, ActiveEnds
  <2>3. /\ call' \in [Call -> {"idle", "posted", "waiting", "leaving", "gone", "answered"}]
        /\ \A d \in Call : Unposted(d)' => Unposted(d)
    BY <1>0, <2>2 DEF Pending, Answered, Unposted
  <2> QED BY <1>0, <2>1, <2>3, NothingNew
<1>4. ASSUME NEW s \in Server, Reconnect(s) PROVE SentInv'
  <2>1. PICK q \in AfterReconnect(queue[s]) : queue' = [queue EXCEPT ![s] = q]
    BY <1>4 DEF Reconnect
  <2>2. q \in Seq(Call \cup {Stop}) /\ Elements(q) \subseteq Elements(queue[s]) /\ OnceIn(q)
    BY <1>0, QueueAfterReconnect
  <2>3. UNCHANGED <<call, sent>>
    BY <1>4 DEF Reconnect
  <2>4. /\ queue' \in [Server -> Seq(Call \cup {Stop})]
        /\ \A r \in Server : OnceIn(queue'[r]) /\ Elements(queue'[r]) \subseteq Elements(queue[r])
    BY <1>0, <2>1, <2>2
  <2> QED BY <1>0, <2>3, <2>4, NothingNew DEF Unposted
<1>5. ASSUME NEW s \in Server, BackoffRequest(s) PROVE SentInv'
  <2>1. /\ Tail(queue[s]) \in Seq(Call \cup {Stop})
        /\ Elements(Tail(queue[s])) \subseteq Elements(queue[s])
        /\ OnceIn(Tail(queue[s]))
    BY <1>0, <1>5, RestOfQueue DEF BackoffRequest
  <2>2. queue' = [queue EXCEPT ![s] = Tail(queue[s])] /\ UNCHANGED sent
    BY <1>5 DEF BackoffRequest
  <2>3. /\ call' \in [Call -> {"idle", "posted", "waiting", "leaving", "gone", "answered"}]
        /\ \A d \in Call : Unposted(d)' => Unposted(d)
    BY <1>0, <1>5 DEF BackoffRequest, Pending, Answered, Unposted
  <2>4. /\ queue' \in [Server -> Seq(Call \cup {Stop})]
        /\ \A r \in Server : OnceIn(queue'[r]) /\ Elements(queue'[r]) \subseteq Elements(queue[r])
    BY <1>0, <2>1, <2>2
  <2> QED BY <2>2, <2>3, <2>4, NothingNew
<1>6. ASSUME NEW S, StopWorkers(S), UNCHANGED <<call, sent>> PROVE SentInv'
  <2>1. \A r \in Server : queue'[r] \in {queue[r], Append(queue[r], Stop)}
    BY <1>6 DEF StopWorkers
  <2>2. \A r \in Server : /\ Append(queue[r], Stop) \in Seq(Call \cup {Stop})
                          /\ Elements(Append(queue[r], Stop)) \subseteq Elements(queue[r]) \cup {Stop}
                          /\ OnceIn(Append(queue[r], Stop))
    BY <1>0, LongerQueue
  <2>3. /\ queue' \in [Server -> Seq(Call \cup {Stop})]
        /\ \A r \in Server : /\ OnceIn(queue'[r])
                             /\ Elements(queue'[r]) \subseteq Elements(queue[r]) \cup {Stop}
    <3>1. queue' = [r \in Server |-> IF r \in S THEN Append(queue[r], Stop) ELSE queue[r]]
      BY <1>6 DEF StopWorkers
    <3>2. queue' \in [Server -> Seq(Call \cup {Stop})]
      BY <3>1, <2>2, <1>0
    <3> QED BY <3>2, <2>1, <2>2, <1>0
  <2> QED BY <1>0, <1>6, <2>3, NothingNew DEF Unposted
<1>7. CASE ReloadApplies
  <2>1. UNCHANGED <<call, sent>>
        /\ \E new : queue' = [r \in Server |-> IF r \in new THEN <<>> ELSE queue[r]]
    BY <1>7 DEF ReloadApplies
  <2>2. <<>> \in Seq(Call \cup {Stop}) /\ OnceIn(<<>>) /\ Elements(<<>>) = {}
    BY DEF OnceIn, Elements
  <2>3. /\ queue' \in [Server -> Seq(Call \cup {Stop})]
        /\ \A r \in Server : OnceIn(queue'[r]) /\ Elements(queue'[r]) \subseteq Elements(queue[r])
    BY <1>0, <2>1, <2>2
  <2> QED BY <1>0, <2>1, <2>3, NothingNew DEF Unposted
<1>8. ASSUME NEW s \in Server, ReloadStops(s) PROVE SentInv'
  BY <1>6, <1>8 DEF ReloadStops
<1>9. CASE StopAll
  <2>1. StopWorkers(conns) /\ UNCHANGED <<call, sent>>
    BY <1>9 DEF StopAll
  <2> QED BY <1>6, <2>1
<1>10. ASSUME NEW s \in Server,
              Connect(s) \/ ConnectFails(s) \/ BackoffOver(s) \/ CatalogStep(s)
              \/ CancelActive(s) \/ RequestReconnect(s) \/ ToolsChange(s)
       PROVE  SentInv'
  <2>1. UNCHANGED <<queue, call, sent>>
    BY <1>10 DEF Connect, ConnectFails, BackoffOver, CatalogStep, NoticeArrives, ListAnswered,
                Refreshed, RefreshFails, CancelActive, RequestReconnect, ToolsChange, workerVars
  <2> QED BY <1>1, <2>1
<1>11. CASE ReloadBegins \/ ReloadTimesOut \/ LoopEnds \/ Close \/ UNCHANGED vars
  <2>1. UNCHANGED <<queue, call, sent>>
    BY <1>11 DEF ReloadBegins, ReloadTimesOut, LoopEnds, Close, workerVars, vars
  <2> QED BY <1>1, <2>1
<1>12. CASE LoopStep
  BY <1>2, <1>3, <1>4, <1>5, <1>7, <1>8, <1>9, <1>10, <1>11, <1>12, EnqueueKeeps, TakeKeeps
     DEF LoopStep, CallStep, WorkerStep
<1> QED BY <1>2, <1>10, <1>11, <1>12 DEF Next

\* A call reaches its server at most once, whatever fails, is cancelled or put back, for
\* any number of servers and calls (_serve_calls, _next_request).
THEOREM CallsAreSentOnce == Spec => []SentOnce
<1>1. Init => SentInv
  BY SentInit
<1>2. SentInv /\ [Next]_vars => SentInv'
  BY SentStep
<1>3. SentInv => SentOnce
  BY DEF SentInv
<1> QED BY <1>1, <1>2, <1>3, PTL DEF Spec

-----------------------------------------------------------------------------
(***************************************************************************)
(* The limit on the catalogue.  A server counts what the others have at    *)
(* the moment at which its own list is taken over, and nothing runs in     *)
(* between: so the limit holds from step to step.                          *)
(***************************************************************************)
\* A catalogue is finite, a server has as many tools in it as its list is long, and the
\* catalogue of all is that of the others and its own (connection.descriptors).
LEMMA CatalogueOfServers ==
    ASSUME NEW d \in [Server -> Nat], NEW S \in SUBSET Server
    PROVE  /\ IsFiniteSet(Tools(d, S)) /\ Cardinality(Tools(d, S)) \in Nat
           /\ \A s \in S : Cardinality(Tools(d, S)) = Cardinality(Tools(d, S \ {s})) + d[s]
<1>1. \A s \in Server : /\ IsFiniteSet({s} \X (1 .. d[s]))
                        /\ Cardinality({s} \X (1 .. d[s])) = d[s]
  <2> TAKE s \in Server
  <2>1. d[s] \in Nat /\ IsFiniteSet(1 .. d[s]) /\ Cardinality(1 .. d[s]) = d[s]
    BY FS_Interval
  <2>2. IsFiniteSet({s}) /\ Cardinality({s}) = 1
    BY FS_Singleton
  <2>3. IsFiniteSet({s} \X (1 .. d[s])) /\ Cardinality({s} \X (1 .. d[s])) = 1 * d[s]
    BY <2>1, <2>2, FS_Product
  <2> QED BY <2>1, <2>3
<1>2. ASSUME NEW T \in SUBSET Server PROVE IsFiniteSet(Tools(d, T))
  <2> DEFINE Lists == {{s} \X (1 .. d[s]) : s \in T}
             List == [s \in T |-> {s} \X (1 .. d[s])]
  <2>1. IsFiniteSet(T)
    BY McpAssumption, FS_Subset
  <2>2. List \in Surjection(T, Lists)
    BY DEF Surjection
  <2>3. IsFiniteSet(Lists)
    BY <2>1, <2>2, FS_Surjection
  <2>4. \A L \in Lists : IsFiniteSet(L)
    BY <1>1
  <2>5. IsFiniteSet(UNION Lists)
    BY <2>3, <2>4, FS_UNION
  <2> QED BY <2>5 DEF Tools
<1>3. ASSUME NEW s \in S
      PROVE  Cardinality(Tools(d, S)) = Cardinality(Tools(d, S \ {s})) + d[s]
  <2>1. Tools(d, S) = Tools(d, S \ {s}) \cup ({s} \X (1 .. d[s]))
    BY DEF Tools
  <2>2. Tools(d, S \ {s}) \cap ({s} \X (1 .. d[s])) = {}
    BY DEF Tools
  <2>3. IsFiniteSet(Tools(d, S \ {s})) /\ Cardinality(Tools(d, S \ {s})) \in Nat
    BY <1>2, FS_CardinalityType
  <2>4. Cardinality({}) = 0
    BY FS_EmptySet
  <2>5. Cardinality(Tools(d, S))
          = Cardinality(Tools(d, S \ {s})) + Cardinality({s} \X (1 .. d[s])) - Cardinality({})
    BY <1>1, <2>1, <2>2, <2>3, FS_Union
  <2>6. d[s] \in Nat /\ Cardinality({s} \X (1 .. d[s])) = d[s]
    BY <1>1
  <2> QED BY <2>3, <2>4, <2>5, <2>6
<1> QED BY <1>2, <1>3, FS_CardinalityType

\* Fewer servers, or shorter lists, make no more tools.
LEMMA SmallerCatalogue ==
    ASSUME NEW d \in [Server -> Nat], NEW e \in [Server -> Nat],
           NEW S \in SUBSET Server, NEW T \in SUBSET Server,
           \A s \in S : e[s] = 0 \/ (s \in T /\ e[s] = d[s])
    PROVE  Cardinality(Tools(e, S)) <= Cardinality(Tools(d, T))
<1>1. Tools(e, S) \subseteq Tools(d, T)
  <2> SUFFICES ASSUME NEW s \in S, NEW i \in 1 .. e[s] PROVE <<s, i>> \in Tools(d, T)
    BY DEF Tools
  <2>1. e[s] \in Nat /\ e[s] # 0
    OBVIOUS
  <2> QED BY <2>1 DEF Tools
<1> QED BY <1>1, CatalogueOfServers, FS_Subset

\* A list that fits into the room left by the others keeps the catalogue within the limit
\* (_discover_tools, _refresh_connection).
LEMMA RoomIsEnough ==
    ASSUME conns \subseteq Server, descriptors \in [Server -> Nat], CatalogueWithinLimit,
           NEW s \in Server, NEW n \in Nat, n <= Room(s)
    PROVE  Cardinality(Tools([descriptors EXCEPT ![s] = n], conns)) <= MaxTools
<1> DEFINE d == [descriptors EXCEPT ![s] = n]
<1>1. d \in [Server -> Nat] /\ d[s] = n /\ \A o \in Server \ {s} : d[o] = descriptors[o]
  OBVIOUS
<1> HIDE DEF d
<1>2. /\ Cardinality(Tools(descriptors, conns)) \in Nat
      /\ Cardinality(Tools(descriptors, conns)) <= MaxTools
      /\ MaxTools \in Nat
  BY CatalogueOfServers, McpAssumption DEF CatalogueWithinLimit
<1>3. CASE s \notin conns
  <2>1. Cardinality(Tools(d, conns)) <= Cardinality(Tools(descriptors, conns))
    BY <1>1, <1>3, SmallerCatalogue
  <2>2. Cardinality(Tools(d, conns)) \in Nat
    BY <1>1, CatalogueOfServers
  <2> QED BY <1>2, <2>1, <2>2 DEF d
<1>4. CASE s \in conns
  <2> DEFINE others == Cardinality(Tools(descriptors, conns \ {s}))
  <2>1. Cardinality(Tools(d, conns)) = Cardinality(Tools(d, conns \ {s})) + n
    BY <1>1, <1>4, CatalogueOfServers
  <2>2. Tools(d, conns \ {s}) = Tools(descriptors, conns \ {s})
    BY <1>1 DEF Tools
  <2>3. others \in Nat /\ others <= Cardinality(Tools(descriptors, conns))
    BY CatalogueOfServers, SmallerCatalogue
  <2>4. n <= IF others < MaxTools THEN MaxTools - others ELSE 0
    BY DEF Room
  <2> HIDE DEF others
  <2>5. Cardinality(Tools(d, conns)) = others + n
    BY <2>1, <2>2 DEF others
  <2>6. others + n <= MaxTools
    BY <1>2, <2>3, <2>4
  <2> QED BY <2>5, <2>6 DEF d
<1> QED BY <1>3, <1>4

CatalogueInv ==
    /\ conns \subseteq Server /\ reload.keep \subseteq Server
    /\ descriptors \in [Server -> Nat] /\ offered \in [Server -> Nat] /\ answer \in [Server -> Nat]
    /\ CatalogueWithinLimit

LEMMA CatalogueInit == Init => CatalogueInv
<1> SUFFICES ASSUME Init PROVE CatalogueInv
  OBVIOUS
<1>1. /\ conns \subseteq Server /\ reload.keep \subseteq Server
      /\ descriptors \in [Server -> Nat] /\ offered \in [Server -> Nat] /\ answer \in [Server -> Nat]
  BY McpAssumption DEF Init, NoReload
<1>2. \A s \in conns : 1 .. descriptors[s] = {}
  BY DEF Init
<1>3. Tools(descriptors, conns) = {}
  BY <1>2 DEF Tools
<1>4. CatalogueWithinLimit
  BY <1>3, FS_EmptySet, McpAssumption DEF CatalogueWithinLimit
<1> QED BY <1>1, <1>4 DEF CatalogueInv

LEMMA CatalogueStep ==
    ASSUME CatalogueInv, [Next]_vars
    PROVE  CatalogueInv'
<1>0. /\ conns \subseteq Server /\ reload.keep \subseteq Server
      /\ descriptors \in [Server -> Nat] /\ offered \in [Server -> Nat] /\ answer \in [Server -> Nat]
      /\ Cardinality(Tools(descriptors, conns)) \in Nat
      /\ Cardinality(Tools(descriptors, conns)) <= MaxTools
      /\ MaxTools \in Nat
  BY CatalogueOfServers, McpAssumption DEF CatalogueInv, CatalogueWithinLimit
\* The steps that publish no list.
<1>1. ASSUME UNCHANGED <<conns, descriptors>>, reload'.keep \subseteq Server,
             offered' \in [Server -> Nat], answer' \in [Server -> Nat]
      PROVE  CatalogueInv'
  BY <1>0, <1>1 DEF CatalogueInv, CatalogueWithinLimit
<1>2. CASE UNCHANGED <<conns, descriptors, reload, offered, answer>>
  BY <1>0, <1>1, <1>2
\* Those that do.
<1>3. ASSUME NEW s \in Server, NEW n \in Nat, n <= Room(s) \/ n = descriptors[s],
             descriptors' = [descriptors EXCEPT ![s] = n],
             UNCHANGED <<conns, reload, offered>>, answer' \in [Server -> Nat]
      PROVE  CatalogueInv'
  <2>1. CASE n = descriptors[s]
    BY <1>0, <1>1, <1>3, <2>1
  <2>2. CASE n <= Room(s)
    <3>1. Cardinality(Tools(descriptors', conns)) <= MaxTools
      BY <1>0, <1>3, <2>2, RoomIsEnough DEF CatalogueInv
    <3>2. descriptors' \in [Server -> Nat]
      BY <1>0, <1>3
    <3> QED BY <1>0, <1>3, <3>1, <3>2 DEF CatalogueInv, CatalogueWithinLimit
  <2> QED BY <1>3, <2>1, <2>2
<1>4. \A s \in Server : Room(s) \in Nat
  <2> TAKE s \in Server
  <2>1. Cardinality(Tools(descriptors, conns \ {s})) \in Nat
    BY <1>0, CatalogueOfServers
  <2> QED BY <1>0, <2>1 DEF Room
<1>5. ASSUME NEW s \in Server, Connect(s) PROVE CatalogueInv'
  <2> DEFINE n == IF offered[s] < Room(s) THEN offered[s] ELSE Room(s)
  <2>1. n \in Nat /\ n <= Room(s)
    BY <1>0, <1>4
  <2>2. /\ descriptors' = [descriptors EXCEPT ![s] = n]
        /\ UNCHANGED <<conns, reload, offered, answer>>
    BY <1>5 DEF Connect
  <2> HIDE DEF n
  <2> QED BY <1>0, <1>3, <2>1, <2>2
<1>6. ASSUME NEW s \in Server, ConnectFails(s) PROVE CatalogueInv'
  <2>1. /\ descriptors' = [descriptors EXCEPT ![s] = 0]
        /\ UNCHANGED <<conns, reload, offered, answer>>
    BY <1>6 DEF ConnectFails
  <2>2. 0 <= Room(s)
    BY <1>4
  <2>3. answer' \in [Server -> Nat]
    BY <1>0, <2>1
  <2> QED BY <1>3, <2>1, <2>2, <2>3
<1>7. ASSUME NEW s \in Server, Refreshed(s) PROVE CatalogueInv'
  <2> DEFINE n == IF answer[s] <= Room(s) THEN answer[s] ELSE descriptors[s]
  <2>1. n \in Nat /\ (n <= Room(s) \/ n = descriptors[s])
    BY <1>0, <1>4
  <2>2. /\ descriptors' = [descriptors EXCEPT ![s] = n]
        /\ UNCHANGED <<conns, reload, offered>>
        /\ answer' = [answer EXCEPT ![s] = 0]
    BY <1>7 DEF Refreshed
  <2>3. answer' \in [Server -> Nat]
    BY <1>0, <2>2
  <2> HIDE DEF n
  <2> QED BY <1>3, <2>1, <2>2, <2>3
\* A reload drops servers, or begins with new ones that have no list yet.
<1>8. ASSUME NEW s \in Server, ReloadStops(s) PROVE CatalogueInv'
  <2>1. /\ conns' = conns \ {s} /\ UNCHANGED <<descriptors, offered>>
        /\ reload'.keep = reload.keep
        /\ answer' \in [Server -> Nat]
    BY <1>0, <1>8 DEF ReloadStops, StopWorkers
  <2>2. Cardinality(Tools(descriptors, conns \ {s})) <= Cardinality(Tools(descriptors, conns))
    BY <1>0, SmallerCatalogue
  <2>3. Cardinality(Tools(descriptors, conns \ {s})) \in Nat
    BY <1>0, CatalogueOfServers
  <2> QED BY <1>0, <2>1, <2>2, <2>3 DEF CatalogueInv, CatalogueWithinLimit
<1>9. CASE ReloadApplies
  <2> DEFINE new == reload.keep \ conns
  <2>1. /\ conns' = reload.keep /\ UNCHANGED <<offered, answer>>
        /\ reload'.keep = reload.keep
        /\ descriptors' = [s \in Server |-> IF s \in new THEN 0 ELSE descriptors[s]]
    BY <1>9 DEF ReloadApplies
  <2>2. /\ descriptors' \in [Server -> Nat] /\ conns' \subseteq Server
        /\ \A s \in conns' : descriptors'[s] = 0 \/ (s \in conns /\ descriptors'[s] = descriptors[s])
    BY <1>0, <2>1
  <2>3. ASSUME NEW d \in [Server -> Nat], NEW S \in SUBSET Server,
               \A s \in S : d[s] = 0 \/ (s \in conns /\ d[s] = descriptors[s])
        PROVE  Cardinality(Tools(d, S)) <= MaxTools
    <3>1. Cardinality(Tools(d, S)) <= Cardinality(Tools(descriptors, conns))
      BY <1>0, <2>3, SmallerCatalogue
    <3>2. Cardinality(Tools(d, S)) \in Nat
      BY CatalogueOfServers
    <3> QED BY <1>0, <3>1, <3>2
  <2>4. Cardinality(Tools(descriptors', conns')) <= MaxTools
    BY <2>2, <2>3
  <2> QED BY <1>0, <2>1, <2>2, <2>4 DEF CatalogueInv, CatalogueWithinLimit
<1>10. CASE ReloadBegins
  <2>1. PICK r \in Reloads : reload'.keep = r.keep
    BY <1>10 DEF ReloadBegins
  <2>2. r.keep \subseteq Server
    BY McpAssumption
  <2> QED BY <1>0, <1>1, <1>10, <2>1, <2>2 DEF ReloadBegins, catalogVars
<1>11. CASE ReloadTimesOut \/ StopAll
  <2>1. CASE ReloadTimesOut
    <3>1. UNCHANGED <<conns, descriptors, offered, answer>> /\ reload'.keep = reload.keep
      BY <2>1 DEF ReloadTimesOut, catalogVars
    <3> QED BY <1>0, <1>1, <3>1
  <2>2. CASE StopAll
    <3>1. UNCHANGED <<conns, descriptors, offered, reload>>
          /\ answer' \in [Server -> Nat]
      BY <1>0, <2>2 DEF StopAll, StopWorkers
    <3> QED BY <1>0, <1>1, <3>1
  <2> QED BY <1>11, <2>1, <2>2
<1>12. ASSUME NEW s \in Server, ToolsChange(s) \/ ListAnswered(s) PROVE CatalogueInv'
  <2>1. UNCHANGED <<conns, descriptors, reload>>
    BY <1>12 DEF ToolsChange, ListAnswered
  <2>2. offered' \in [Server -> Nat] /\ answer' \in [Server -> Nat]
    BY <1>0, <1>12, McpAssumption DEF ToolsChange, ListAnswered
  <2> QED BY <1>0, <1>1, <2>1, <2>2
<1>13. ASSUME NEW s \in Server,
              \/ Take(s) \/ Reconnect(s) \/ EndActive(s) \/ BackoffOver(s) \/ BackoffRequest(s)
              \/ NoticeArrives(s) \/ RefreshFails(s) \/ CancelActive(s) \/ RequestReconnect(s)
       PROVE  CatalogueInv'
  BY <1>2, <1>13 DEF Take, Reconnect, EndActive, CallReturns, CallCancelled, CallFails, ActiveEnds,
     BackoffOver, BackoffRequest, NoticeArrives, RefreshFails, CancelActive, RequestReconnect,
     catalogVars
<1>14. ASSUME NEW c \in Call, CallStep(c) \/ Post(c) \/ Leave(c) PROVE CatalogueInv'
  BY <1>2, <1>14 DEF CallStep, Enqueue, CancelLeft, Post, Leave, catalogVars
<1>15. CASE LoopEnds \/ Close \/ UNCHANGED vars
  BY <1>2, <1>15 DEF LoopEnds, Close, vars, catalogVars
<1>16. CASE LoopStep
  BY <1>5, <1>6, <1>7, <1>8, <1>9, <1>10, <1>11, <1>12, <1>13, <1>14, <1>15, <1>16
     DEF LoopStep, WorkerStep, CatalogStep
<1> QED BY <1>12, <1>14, <1>15, <1>16 DEF Next

\* The servers' tools together never exceed the limit, for any number of servers whose lists
\* are fetched, change and are refreshed at once (_discover_tools, _refresh_connection).
THEOREM CatalogueFits == Spec => []CatalogueWithinLimit
<1>1. Init => CatalogueInv
  BY CatalogueInit
<1>2. CatalogueInv /\ [Next]_vars => CatalogueInv'
  BY CatalogueStep
<1>3. CatalogueInv => CatalogueWithinLimit
  BY DEF CatalogueInv
<1> QED BY <1>1, <1>2, <1>3, PTL DEF Spec
=============================================================================
