------------------------ MODULE WorkflowExecutionProofs ------------------------
(***************************************************************************)
(* Proofs about one run of a workflow: a node runs with its inputs, the    *)
(* final status tells what happened, side effects are started at most once *)
(* and one that may still be going on is recorded as unknown.  They rest   *)
(* on the order that validate_definition returns (WorkflowSortProofs): the *)
(* loop meets every node, each one once and after its sources.             *)
(***************************************************************************)
EXTENDS WorkflowExecution, FiniteSetTheorems, TLAPS

Order == INSTANCE WorkflowSortProofs WITH ordered <- order

Visiting == {"node", "wait", "status", "retry"}
Action(n) == graph.kind[n] = "action"

RunTypes ==
    /\ pos \in Nat \ {0} /\ attempt \in Nat \ {0}
    /\ phase \in {"sort", "close", "returned"} \cup Visiting
    /\ handler \in {"idle", "queued", "running"}
    /\ calls \in [Nodes -> Nat] /\ zombies \in [Nodes -> Nat]
    /\ status = [n \in Nodes |-> status[n]] /\ code = [n \in Nodes |-> code[n]]

\* Where the run's thread is: only a status condition retries, and never an action.
Place ==
    /\ handler # "idle" <=> phase = "wait"
    /\ phase \in Visiting => StatusValid(graph)
    /\ phase \in {"wait", "status", "retry"} => pos <= Last
    /\ phase \in {"status", "retry"} => graph.kind[Here] = "status"
    /\ phase = "retry" => graph.attempts[Here] > 1
    /\ phase = "wait" => /\ target \in Nodes
                         /\ target = Here \/ (graph.kind[Here] = "status" /\ ~Action(target))

\* What the loop has not reached yet was never started.
Ahead ==
    /\ phase = "sort" => \A n \in Nodes : calls[n] = 0
    /\ phase \in Visiting =>
          \A i \in pos .. Last : Action(order[i]) /\ (i = pos => phase # "wait") => calls[order[i]] = 0

\* The attempt of an action is its first one, and nothing of it was given up.
FirstAttempt ==
    phase = "wait" /\ Action(target) =>
        zombies[target] = 0 /\ calls[target] = (IF handler = "running" THEN 1 ELSE 0)

ZombiesWereCalled == \A n \in Nodes : Action(n) => zombies[n] <= calls[n]

RunInv ==
    /\ Order!SortInv
    /\ RunTypes /\ Place /\ Ahead /\ FirstAttempt /\ ZombiesWereCalled
    /\ EffectsOnce /\ UnfinishedActionIsUnknown

\* What the sorting loop leaves to the run: nodes of the graph, each one once.
LEMMA OrderFacts ==
  ASSUME Order!SortInv
  PROVE  /\ graph \in Graphs /\ Last \in Nat
         /\ \A i \in 1 .. Last : order[i] \in Nodes
         /\ \A i, j \in 1 .. Last : i # j => order[i] # order[j]
<1>1. graph \in Graphs /\ order \in Seq(Nodes) /\ Order!TakenOnce
  BY DEF Order!SortInv, Nodes
<1> QED BY <1>1 DEF Order!TakenOnce, Last

\* One more node is sorted.
LEMMA SortKeeps == Order!SortInv /\ Sort!Take => Order!SortInv'
<1>1. \A g : Order!GraphShape(g) <=> GraphShape(g)
  BY DEF Order!GraphShape, GraphShape, Order!IsFiniteSet, IsFiniteSet
<1>2. \A n : Sort!Targets(graph, n) = Order!Targets(graph, n)
  BY DEF Sort!Targets, Order!Targets, Sort!OutOf, Order!OutOf
<1>3. \A c, n : Sort!Cardinality(Sort!EdgesBetween(graph, c, n))
               = Order!Cardinality(Order!EdgesBetween(graph, c, n))
  BY DEF Sort!Cardinality, Order!Cardinality, Sort!EdgesBetween, Order!EdgesBetween
<1>4. \A c : Sort!Decrease(c) = Order!Decrease(c)
  BY <1>3 DEF Sort!Decrease, Order!Decrease
<1>5. \A c : Sort!NewlyReady(c) = Order!NewlyReady(c)
  BY <1>2, <1>4 DEF Sort!NewlyReady, Order!NewlyReady
<1>6. Sort!Take => Order!Take
  BY <1>4, <1>5 DEF Sort!Take, Order!Take
<1> QED BY <1>1, <1>6, Order!SortTake, ShapeAssumption

LEMMA SortBegins == Sort!Init => Order!SortInv
<1>1. \A g : Order!GraphShape(g) <=> GraphShape(g)
  BY DEF Order!GraphShape, GraphShape, Order!IsFiniteSet, IsFiniteSet
<1>2. \A n : Sort!Cardinality(Sort!Into(graph, n)) = Order!Cardinality(Order!Into(graph, n))
  BY DEF Sort!Cardinality, Order!Cardinality, Sort!Into, Order!Into
<1>3. Sort!Init => Order!Init
  BY <1>2 DEF Sort!Init, Order!Init
<1> QED BY <1>1, <1>3, Order!SortInit, ShapeAssumption

LEMMA SortRests == Order!SortInv /\ UNCHANGED sorting => Order!SortInv'
<1>1. \A g : Order!GraphShape(g) <=> GraphShape(g)
  BY DEF Order!GraphShape, GraphShape, Order!IsFiniteSet, IsFiniteSet
<1>2. UNCHANGED sorting => UNCHANGED Order!vars
  BY DEF sorting, Order!vars
<1> QED BY <1>1, <1>2, Order!SortStays, ShapeAssumption

\* A status condition never retries an action (StatusValid of validate_definition).
LEMMA WatchedIsHarmless ==
  ASSUME graph \in Graphs, StatusValid(graph), NEW n \in Nodes, graph.kind[n] = "status"
  PROVE  /\ graph.watch[n] \in Nodes
         /\ graph.attempts[n] > 1 => ~Action(graph.watch[n])
<1>1. n \in StatusNodes(graph)
  BY DEF StatusNodes, Nodes
<1>2. graph.watch[n] \in Sources(graph, n)
  BY <1>1 DEF StatusValid
<1>3. graph.watch[n] \in Nodes
  BY <1>2, ShapeAssumption DEF Sources, Into, GraphShape, Nodes
<1> QED BY <1>1, <1>3 DEF StatusValid, Action

LEMMA RunBegins == Init => RunInv
<1> SUFFICES ASSUME Init PROVE RunInv
  OBVIOUS
<1>1. Order!SortInv
  BY SortBegins DEF Init
<1> QED BY <1>1 DEF Init, RunInv, RunTypes, Place, Ahead, FirstAttempt, ZombiesWereCalled,
                    EffectsOnce, UnfinishedActionIsUnknown, Visiting

\* The run's own part of the invariant; the order is kept by SortKeeps and SortRests.
WalkInv ==
    /\ RunTypes /\ Place /\ Ahead /\ FirstAttempt /\ ZombiesWereCalled
    /\ EffectsOnce /\ UnfinishedActionIsUnknown

\* The steps that leave the loop, and those that only record something.
LEMMA EndsKeep ==
  ASSUME RunInv, UNCHANGED sorting,
         RejectDefinition \/ FinishRun \/ CancelSeen \/ ReturnRun \/ CancelRun \/ UNCHANGED vars
  PROVE  WalkInv'
<1>1. UNCHANGED <<graph, order>>
  BY DEF sorting
<1>2. CASE RejectDefinition \/ FinishRun \/ CancelSeen \/ ReturnRun
  BY <1>1, <1>2 DEF RejectDefinition, FinishRun, CancelSeen, ReturnRun, EndRun, WalkInv, RunInv,
     RunTypes, Place, Ahead, FirstAttempt, ZombiesWereCalled, EffectsOnce,
     UnfinishedActionIsUnknown, Visiting, Action, Here, Last, Nodes
<1>3. CASE CancelRun \/ UNCHANGED vars
  BY <1>1, <1>3, ZenonT(40) DEF CancelRun, vars, WalkInv, RunInv,
     RunTypes, Place, Ahead, FirstAttempt, ZombiesWereCalled, EffectsOnce,
     UnfinishedActionIsUnknown, Visiting, Action, Here, Last, Nodes
<1> QED BY <1>2, <1>3

\* Sorting, and the start of the run: nothing has been called.
LEMMA SortingKeeps ==
  ASSUME RunInv, SortNode \/ StartRun
  PROVE  WalkInv'
<1>1. graph' = graph /\ phase = "sort"
  BY DEF SortNode, StartRun, Sort!Take, sorting
<1>2. CASE SortNode
  BY <1>1, <1>2 DEF SortNode, WalkInv, RunInv, RunTypes, Place, Ahead, FirstAttempt,
     ZombiesWereCalled, EffectsOnce, UnfinishedActionIsUnknown, Visiting, Action, Nodes
<1>3. CASE StartRun
  <2>1. \A i \in 1 .. Last : order[i] \in Nodes
    BY OrderFacts DEF RunInv
  <2> QED BY <1>1, <1>3, <2>1 DEF StartRun, Accepted, WellFormed, sorting, WalkInv, RunInv, RunTypes,
     Place, Ahead, FirstAttempt, ZombiesWereCalled, EffectsOnce, UnfinishedActionIsUnknown,
     Visiting, Action, Nodes, Last, Here
<1> QED BY <1>2, <1>3

\* The loop goes on with its node, without a handler.
LEMMA VisitKeeps ==
  ASSUME RunInv, SkipNode \/ EnterNode \/ EvaluateStatus \/ RetryWatched
  PROVE  WalkInv'
<1>1. UNCHANGED <<graph, order, calls, zombies, code>> /\ Last' = Last /\ Nodes' = Nodes
  BY DEF SkipNode, EnterNode, EvaluateStatus, RetryWatched, sorting, Last, Nodes
<1>2. /\ phase \in Visiting \ {"wait"} /\ handler = "idle" /\ pos \in 1 .. Last
      /\ Last \in Nat /\ Here \in Nodes /\ StatusValid(graph) /\ graph \in Graphs
  BY OrderFacts DEF SkipNode, EnterNode, EvaluateStatus, RetryWatched, RunInv, Place, RunTypes,
     Visiting, Here
<1>3. Action(Here) => calls[Here] = 0 /\ zombies[Here] = 0
  BY <1>2 DEF RunInv, Ahead, Here, ZombiesWereCalled, RunTypes, Visiting
<1>4. CASE SkipNode
  <2>1. status' = [status EXCEPT ![Here] = "skipped"] /\ UNCHANGED <<target, handler>>
        /\ pos' = pos + 1 /\ phase' = "node" /\ attempt' = 1
    BY <1>4 DEF SkipNode, NextNode
  <2>2. UnfinishedActionIsUnknown'
    BY <1>1, <1>2, <1>3, <2>1 DEF UnfinishedActionIsUnknown, Action, RunInv, RunTypes
  <2> QED BY <1>1, <1>2, <2>1, <2>2 DEF WalkInv, RunInv, RunTypes, Place, Ahead, FirstAttempt,
       ZombiesWereCalled, EffectsOnce, Visiting, Action
<1>5. CASE EnterNode
  <2>1. /\ UNCHANGED <<pos, status>>
        /\ \/ /\ graph.kind[Here] = "status" /\ phase' = "status" /\ attempt' = 1
              /\ UNCHANGED <<target, handler>>
           \/ /\ target' = Here /\ attempt' = 1 /\ handler' = "queued" /\ phase' = "wait"
    BY <1>5 DEF EnterNode, Submit
  <2>2. Here' = Here
    BY <1>1, <2>1 DEF Here
  <2> QED BY <1>1, <1>2, <1>3, <2>1, <2>2 DEF WalkInv, RunInv, RunTypes, Place, Ahead,
       FirstAttempt, ZombiesWereCalled, EffectsOnce, UnfinishedActionIsUnknown, Visiting, Action
<1>6. CASE EvaluateStatus
  <2>1. /\ status' = [status EXCEPT ![Here] = "succeeded"] /\ UNCHANGED <<target, handler>>
        /\ graph.kind[Here] = "status"
        /\ \/ /\ attempt < graph.attempts[Here] /\ phase' = "retry" /\ UNCHANGED <<pos, attempt>>
           \/ /\ pos' = pos + 1 /\ phase' = "node" /\ attempt' = 1
    BY <1>6 DEF EvaluateStatus, NextNode, RunInv, Place
  <2>2. UnfinishedActionIsUnknown'
    BY <1>1, <1>2, <2>1 DEF UnfinishedActionIsUnknown, RunInv, RunTypes
  <2>3. graph.attempts[Here] \in Nat
    BY <1>2, <2>1 DEF StatusValid, StatusNodes, Nodes
  <2>4. UNCHANGED pos => Here' = Here
    BY <1>1 DEF Here
  <2>5. RunTypes'
    BY <1>1, <1>2, <2>1 DEF RunInv, RunTypes, Visiting
  <2>6. Place'
    BY <1>1, <1>2, <2>1, <2>3, <2>4 DEF RunInv, RunTypes, Place, Visiting
  <2>7. Ahead' /\ FirstAttempt'
    BY <1>1, <1>2, <1>3, <2>1 DEF RunInv, RunTypes, Ahead, FirstAttempt, Visiting, Action
  <2> QED BY <1>1, <2>2, <2>5, <2>6, <2>7 DEF WalkInv, RunInv, ZombiesWereCalled, EffectsOnce,
       Action
<1>7. CASE RetryWatched
  <2>1. /\ UNCHANGED <<pos, status>> /\ graph.kind[Here] = "status" /\ graph.attempts[Here] > 1
        /\ target' = graph.watch[Here] /\ attempt' = attempt + 1
        /\ handler' = "queued" /\ phase' = "wait" /\ phase = "retry"
    BY <1>7 DEF RetryWatched, Submit, RunInv, Place
  <2>2. target' \in Nodes /\ ~Action(target')
    BY <1>2, <2>1, WatchedIsHarmless
  <2>3. Here' = Here
    BY <1>1, <2>1 DEF Here
  <2> QED BY <1>1, <1>2, <2>1, <2>2, <2>3 DEF WalkInv, RunInv, RunTypes, Place, Ahead,
       FirstAttempt, ZombiesWereCalled, EffectsOnce, UnfinishedActionIsUnknown, Visiting, Action
<1> QED BY <1>4, <1>5, <1>6, <1>7

\* A binding that cannot be resolved marks a node as failed, which no action that may still
\* be going on minds: it has failed already.
LEMMA UnresolvedKeeps ==
  ASSUME RunInv, InputsUnresolved
  PROVE  WalkInv'
<1>1. UNCHANGED <<graph, order, pos, attempt, target, handler, code, calls, zombies>>
      /\ phase' = "close" /\ phase \in {"node", "retry"} /\ Nodes' = Nodes
  BY DEF InputsUnresolved, EndRun, sorting, Nodes
<1>2. \/ status' = status
      \/ \E n : status' = [status EXCEPT ![n] = "failed"]
  <2>1. CASE Unvisited = {} \/ \E n \in Nodes : status[n] = "failed"
    BY <2>1 DEF InputsUnresolved
  <2>2. CASE ~(Unvisited = {} \/ \E n \in Nodes : status[n] = "failed")
    BY <2>2 DEF InputsUnresolved
  <2> QED BY <2>1, <2>2
<1>3. UnfinishedActionIsUnknown'
  BY <1>1, <1>2 DEF UnfinishedActionIsUnknown, RunInv, RunTypes
<1>4. status' = [n \in Nodes |-> status'[n]]
  BY <1>2 DEF RunInv, RunTypes
<1> QED BY <1>1, <1>3, <1>4 DEF WalkInv, RunInv, RunTypes, Place, Ahead, FirstAttempt,
     ZombiesWereCalled, EffectsOnce, Visiting, Action

\* A worker takes the call: of an action, it is the first.
LEMMA StartKeeps ==
  ASSUME RunInv, HandlerStart
  PROVE  WalkInv'
<1>1. /\ UNCHANGED <<graph, order, pos, phase, attempt, target, status, code, zombies>>
      /\ handler = "queued" /\ handler' = "running"
      /\ calls' = [calls EXCEPT ![target] = @ + 1]
  BY DEF HandlerStart, sorting
<1>2. Nodes' = Nodes /\ Last' = Last /\ Here' = Here
  BY <1>1 DEF Nodes, Last, Here
<1>3. phase = "wait" /\ target \in Nodes /\ pos \in 1 .. Last
  BY <1>1 DEF RunInv, Place, RunTypes
<1>4. Last \in Nat /\ \A i, j \in 1 .. Last : i # j => order[i] # order[j]
  BY OrderFacts DEF RunInv
<1>5. calls' \in [Nodes -> Nat] /\ calls'[target] = calls[target] + 1
      /\ \A n \in Nodes \ {target} : calls'[n] = calls[n]
  BY <1>1, <1>3 DEF RunInv, RunTypes
<1>6. Action(target) => calls[target] = 0 /\ zombies[target] = 0 /\ target = Here
  BY <1>1, <1>3 DEF RunInv, FirstAttempt, Place, Action
<1>7. Ahead'
  <2> SUFFICES ASSUME NEW i \in pos .. Last, Action(order[i]), i # pos
               PROVE  calls'[order[i]] = 0
    BY <1>1, <1>2, <1>3 DEF Ahead, Action, Visiting
  <2>1. calls[order[i]] = 0
    BY <1>3 DEF RunInv, Ahead, Visiting
  <2>2. order[i] # target
    BY <1>3, <1>4, <1>6 DEF Here
  <2>3. order[i] \in Nodes
    BY <1>3, OrderFacts DEF RunInv
  <2> QED BY <1>5, <2>1, <2>2, <2>3
<1>8. EffectsOnce' /\ ZombiesWereCalled' /\ FirstAttempt'
  BY <1>1, <1>2, <1>3, <1>5, <1>6 DEF EffectsOnce, ZombiesWereCalled, FirstAttempt, Action, RunInv,
     RunTypes
<1>9. UnfinishedActionIsUnknown' /\ Place'
  BY <1>1, <1>2 DEF UnfinishedActionIsUnknown, Place, RunInv, Visiting, Action
<1> QED BY <1>1, <1>2, <1>5, <1>7, <1>8, <1>9 DEF WalkInv, RunInv, RunTypes

\* How an attempt ends: a success, a failure, or a timeout that leaves the handler behind.
HandlerEnds == HandlerSucceeds \/ HandlerFails \/ NodeTimeout

\* What the end of an attempt leaves of its status, and where the loop goes on.
Ended(c, z) ==
    /\ UNCHANGED <<graph, order, calls>>
    /\ zombies' = [zombies EXCEPT ![target] = @ + z]
    /\ code' = [code EXCEPT ![target] = c]
    /\ \E s \in {"succeeded", "failed"} :
          /\ status' = [status EXCEPT ![target] = s]
          /\ z = 1 => s = "failed" /\ (Action(target) => c = "unknown") /\ handler = "running"
    /\ \/ /\ target = Here /\ pos' = pos + 1 /\ phase' = "node" /\ attempt' = 1
          /\ handler' = "idle" /\ UNCHANGED target
       \/ /\ target # Here /\ phase' = "status" /\ handler' = "idle"
          /\ UNCHANGED <<pos, attempt, target>>
       \/ /\ target = Here /\ ~Action(target) /\ phase' = "wait" /\ handler' = "queued"
          /\ attempt' = attempt + 1 /\ UNCHANGED <<pos, target>>
       \/ phase' = "close" /\ handler' = "idle" /\ UNCHANGED <<pos, attempt, target>>

\* Every end of an attempt is one of these.
LEMMA AttemptEnds ==
  ASSUME RunInv, HandlerEnds
  PROVE  \E c, z : z \in {0, 1} /\ Ended(c, z)
<1>1. /\ UNCHANGED <<graph, order, calls>> /\ handler \in {"queued", "running"}
      /\ target \in Nodes /\ zombies \in [Nodes -> Nat]
  BY DEF HandlerEnds, HandlerSucceeds, HandlerFails, NodeTimeout, sorting, RunInv, RunTypes, Place
<1>2. zombies = [zombies EXCEPT ![target] = @ + 0]
  BY <1>1
<1>3. Action(target) => Attempts(target) = 1
  BY DEF Action, Attempts
<1>4. attempt \in Nat \ {0}
  BY DEF RunInv, RunTypes
<1>5. CASE HandlerSucceeds
  <2>1. Ended("none", 0)
    <3>1. /\ zombies' = zombies /\ code' = [code EXCEPT ![target] = "none"]
          /\ status' = [status EXCEPT ![target] = "succeeded"]
          /\ handler' = "idle" /\ UNCHANGED target
          /\ \/ target = Here /\ pos' = pos + 1 /\ phase' = "node" /\ attempt' = 1
             \/ target # Here /\ phase' = "status" /\ UNCHANGED <<pos, attempt>>
      BY <1>5 DEF HandlerSucceeds, NextNode
    <3> QED BY <1>1, <1>2, <3>1 DEF Ended
  <2> QED BY <2>1
<1>6. ASSUME NEW c, AttemptFailed(c), NEW z \in {0, 1},
             zombies' = [zombies EXCEPT ![target] = @ + z],
             z = 1 => (Action(target) => c = "unknown") /\ handler = "running"
      PROVE  Ended(c, z)
  <2>1. /\ status' = [status EXCEPT ![target] = "failed"]
        /\ code' = [code EXCEPT ![target] = c]
    BY <1>6 DEF AttemptFailed
  <2>2. CASE target # Here
    BY <1>1, <1>6, <2>1, <2>2 DEF AttemptFailed, Ended
  <2>3. CASE target = Here /\ attempt < Attempts(target) /\ c \in {"retryable", "timeout"}
    <3>1. ~Action(target)
      BY <1>3, <1>4, <2>3
    <3> QED BY <1>1, <1>6, <2>1, <2>3, <3>1 DEF AttemptFailed, Submit, Ended
  <2>4. CASE target = Here /\ ~(attempt < Attempts(target) /\ c \in {"retryable", "timeout"})
    BY <1>1, <1>6, <2>1, <2>4 DEF AttemptFailed, NextNode, EndRun, Ended
  <2> QED BY <2>2, <2>3, <2>4
<1>7. CASE HandlerFails
  <2>1. PICK c \in {"retryable", "permanent"} : AttemptFailed(c)
    BY <1>7 DEF HandlerFails
  <2>2. zombies' = [zombies EXCEPT ![target] = @ + 0]
    BY <1>7, <1>2 DEF HandlerFails
  <2> QED BY <1>6, <2>1, <2>2
<1>8. CASE NodeTimeout
  <2>1. AttemptFailed(TimeoutCode(target))
    BY <1>8 DEF NodeTimeout
  <2>2. Action(target) => TimeoutCode(target) = "unknown"
    BY DEF Action, TimeoutCode
  <2>3. CASE handler = "running"
    <3>1. zombies' = [zombies EXCEPT ![target] = @ + 1]
      BY <1>8, <2>3 DEF NodeTimeout
    <3> QED BY <1>6, <2>1, <2>2, <2>3, <3>1
  <2>4. CASE handler # "running"
    <3>1. zombies' = [zombies EXCEPT ![target] = @ + 0]
      BY <1>8, <1>2, <2>4 DEF NodeTimeout
    <3> QED BY <1>6, <2>1, <3>1
  <2> QED BY <2>3, <2>4
<1> QED BY <1>5, <1>7, <1>8 DEF HandlerEnds

\* A row that gets one new entry keeps its domain and its other entries.
LEMMA EntryChanges ==
  ASSUME NEW S, NEW f, f = [n \in S |-> f[n]], NEW m \in S, NEW v, NEW g,
         g = [f EXCEPT ![m] = v]
  PROVE  g = [n \in S |-> g[n]] /\ g[m] = v /\ \A n \in S \ {m} : g[n] = f[n]
<1>1. DOMAIN f = S
  OBVIOUS
<1>2. g = [n \in S |-> IF n = m THEN v ELSE f[n]]
  BY <1>1, Zenon
<1>3. \A n \in S : g[n] = IF n = m THEN v ELSE f[n]
  BY <1>2, Zenon
<1>4. g = [n \in S |-> g[n]]
  BY <1>2, Zenon
<1> QED BY <1>3, <1>4

\* The end of an attempt keeps the invariant.
LEMMA EndKeeps ==
  ASSUME RunInv, HandlerEnds
  PROVE  WalkInv'
<1>1. PICK c, z : z \in {0, 1} /\ Ended(c, z)
  BY AttemptEnds
<1>2. UNCHANGED <<graph, order, calls>> /\ Nodes' = Nodes /\ Last' = Last
  BY <1>1 DEF Ended, Nodes, Last
<1>3. /\ phase = "wait" /\ handler # "idle" /\ target \in Nodes
      /\ pos \in 1 .. Last /\ Last \in Nat /\ attempt \in Nat \ {0}
      /\ StatusValid(graph)
      /\ target # Here => graph.kind[Here] = "status" /\ ~Action(target)
      /\ Action(target) => zombies[target] = 0
  BY OrderFacts DEF HandlerEnds, HandlerSucceeds, HandlerFails, NodeTimeout, RunInv, RunTypes, Place,
     FirstAttempt, Visiting
<1>4. /\ zombies' = [zombies EXCEPT ![target] = @ + z] /\ zombies \in [Nodes -> Nat]
      /\ code' = [code EXCEPT ![target] = c] /\ code = [n \in Nodes |-> code[n]]
  BY <1>1 DEF Ended, RunInv, RunTypes
<1>5. PICK s : /\ status' = [status EXCEPT ![target] = s]
               /\ z = 1 => s = "failed" /\ (Action(target) => c = "unknown") /\ handler = "running"
  BY <1>1 DEF Ended
<1>6. /\ status' = [n \in Nodes |-> status'[n]] /\ code' = [n \in Nodes |-> code'[n]]
      /\ status'[target] = s /\ code'[target] = c /\ zombies'[target] = zombies[target] + z
      /\ \A n \in Nodes \ {target} : status'[n] = status[n] /\ code'[n] = code[n]
                                      /\ zombies'[n] = zombies[n]
  <2>1. status = [n \in Nodes |-> status[n]] /\ code = [n \in Nodes |-> code[n]]
    BY DEF RunInv, RunTypes
  <2>2. /\ status' = [n \in Nodes |-> status'[n]] /\ status'[target] = s
        /\ \A n \in Nodes \ {target} : status'[n] = status[n]
    <3>1. status' = [status EXCEPT ![target] = s] /\ target \in Nodes
      BY <1>3, <1>5
    <3> QED BY <2>1, <3>1, EntryChanges
  <2>3. /\ code' = [n \in Nodes |-> code'[n]] /\ code'[target] = c
        /\ \A n \in Nodes \ {target} : code'[n] = code[n]
    BY <1>3, <1>4, <2>1, EntryChanges
  <2>4. /\ zombies'[target] = zombies[target] + z
        /\ \A n \in Nodes \ {target} : zombies'[n] = zombies[n]
    BY <1>3, <1>4
  <2> QED BY <2>2, <2>3, <2>4
<1>7. UnfinishedActionIsUnknown'
  <2> SUFFICES ASSUME NEW n \in Nodes, Action(n), zombies'[n] > 0
               PROVE  status'[n] = "failed" /\ code'[n] = "unknown"
    BY <1>2 DEF UnfinishedActionIsUnknown, Action
  <2>1. CASE n = target
    <3>1. zombies[target] = 0
      BY <1>3, <2>1
    <3>2. zombies'[target] > 0
      BY <2>1
    <3>3. z = 1
      BY <1>1, <1>6, <3>1, <3>2
    <3> QED BY <1>5, <1>6, <2>1, <3>3
  <2>2. CASE n # target
    <3>1. zombies'[n] = zombies[n] /\ status'[n] = status[n] /\ code'[n] = code[n]
      BY <1>6, <2>2
    <3> QED BY <3>1 DEF RunInv, UnfinishedActionIsUnknown, Action
  <2> QED BY <2>1, <2>2
<1>8. ZombiesWereCalled'
  <2> SUFFICES ASSUME NEW n \in Nodes, Action(n) PROVE zombies'[n] <= calls[n]
    BY <1>2 DEF ZombiesWereCalled, Action
  <2>1. CASE n = target /\ z = 1
    <3>1. calls[n] = 1 /\ zombies'[n] = 1
      <4>1. Action(target) /\ handler = "running"
        BY <1>5, <2>1
      <4>2. zombies[target] = 0 /\ calls[target] = 1
        BY <1>3, <4>1 DEF RunInv, FirstAttempt
      <4> QED BY <1>6, <2>1, <4>2
    <3> QED BY <3>1
  <2>2. CASE n # target \/ z = 0
    <3>1. zombies'[n] = zombies[n]
      BY <1>3, <1>4, <1>6, <2>2
    <3> QED BY <3>1 DEF RunInv, ZombiesWereCalled
  <2> QED BY <1>1, <2>1, <2>2
<1>9. RunTypes'
  <2>1. zombies' \in [Nodes -> Nat]
    BY <1>1, <1>3, <1>4
  <2>2. status' = [n \in Nodes |-> status'[n]] /\ code' = [n \in Nodes |-> code'[n]]
    BY <1>6
  <2>3. /\ pos' \in Nat \ {0} /\ attempt' \in Nat \ {0} /\ handler' \in {"idle", "queued"}
        /\ phase' \in {"node", "status", "wait", "close"}
    BY <1>1, <1>3 DEF Ended
  <2> QED BY <1>2, <2>1, <2>2, <2>3 DEF RunInv, RunTypes, Visiting
<1>10. UNCHANGED pos => Here' = Here
  BY <1>2 DEF Here
<1>11. Place'
  BY <1>1, <1>2, <1>3, <1>10 DEF Ended, RunInv, Place, Visiting, Action
<1>12. Ahead'
  <2>1. \A i \in pos .. Last : i # pos => (Action(order[i]) => calls[order[i]] = 0)
    BY <1>3 DEF RunInv, Ahead, Visiting
  <2>2. phase' = "status" => ~Action(order[pos])
    BY <1>1, <1>3 DEF Ended, Action, Here
  <2>3. CASE phase' = "node"
    <3>1. pos' = pos + 1
      BY <1>1, <2>3 DEF Ended
    <3> QED BY <1>2, <1>3, <2>1, <2>3, <3>1 DEF Ahead, Action
  <2>4. CASE phase' \in {"status", "wait"}
    <3>1. pos' = pos
      BY <1>1, <2>4 DEF Ended
    <3> QED BY <1>2, <1>3, <2>1, <2>2, <2>4, <3>1 DEF Ahead, Action
  <2>5. CASE phase' = "close"
    BY <2>5 DEF Ahead, Visiting
  <2> QED BY <1>1, <2>3, <2>4, <2>5 DEF Ended
<1>13. FirstAttempt'
  BY <1>1, <1>2 DEF Ended, FirstAttempt, Action
<1>14. EffectsOnce'
  BY <1>2 DEF RunInv, EffectsOnce
<1> QED BY <1>7, <1>8, <1>9, <1>11, <1>12, <1>13, <1>14 DEF WalkInv

\* A handler that was given up returns: one less is behind.
LEMMA ZombieKeeps ==
  ASSUME RunInv, ZombieReturns
  PROVE  WalkInv'
<1>1. PICK m \in Nodes : zombies[m] > 0 /\ zombies' = [zombies EXCEPT ![m] = @ - 1]
  BY DEF ZombieReturns
<1>2. /\ UNCHANGED <<graph, order, pos, phase, attempt, target, handler, status, code, calls>>
      /\ Nodes' = Nodes /\ Last' = Last /\ Here' = Here
  BY DEF ZombieReturns, sorting, Nodes, Last, Here
<1>3. zombies \in [Nodes -> Nat]
  BY DEF RunInv, RunTypes
<1>4. zombies' \in [Nodes -> Nat] /\ \A n \in Nodes : zombies'[n] <= zombies[n]
  BY <1>1, <1>3
<1>5. RunTypes' /\ Place' /\ Ahead' /\ EffectsOnce'
  BY <1>2, <1>4 DEF RunInv, RunTypes, Place, Ahead, EffectsOnce, Action, Visiting
<1>6. FirstAttempt'
  <2> SUFFICES ASSUME phase = "wait", Action(target)
               PROVE  zombies'[target] = 0
    BY <1>2 DEF RunInv, FirstAttempt, Action
  <2>1. target \in Nodes /\ zombies[target] = 0
    BY DEF RunInv, FirstAttempt, Place
  <2> QED BY <1>3, <1>4, <2>1
<1>7. ZombiesWereCalled'
  <2> SUFFICES ASSUME NEW n \in Nodes, Action(n) PROVE zombies'[n] <= calls[n]
    BY <1>2 DEF ZombiesWereCalled, Action
  <2>1. zombies[n] <= calls[n] /\ calls[n] \in Nat
    BY DEF RunInv, ZombiesWereCalled, RunTypes
  <2> QED BY <1>3, <1>4, <2>1
<1>8. UnfinishedActionIsUnknown'
  <2> SUFFICES ASSUME NEW n \in Nodes, Action(n), zombies'[n] > 0
               PROVE  status[n] = "failed" /\ code[n] = "unknown"
    BY <1>2 DEF UnfinishedActionIsUnknown, Action
  <2>1. zombies[n] > 0
    BY <1>3, <1>4
  <2> QED BY <2>1 DEF RunInv, UnfinishedActionIsUnknown, Action
<1> QED BY <1>5, <1>6, <1>7, <1>8 DEF WalkInv

\* Every step keeps the order and the walk.
LEMMA RunStep == RunInv /\ [Next]_vars => RunInv'
<1> SUFFICES ASSUME RunInv, [Next]_vars PROVE RunInv'
  OBVIOUS
<1>1. Order!SortInv'
  <2>1. SortNode \/ UNCHANGED sorting
    BY DEF Next, RunThread, RejectDefinition, StartRun, FinishRun, CancelSeen, SkipNode, EnterNode,
       EvaluateStatus, RetryWatched, InputsUnresolved, ReturnRun, HandlerStart, HandlerSucceeds,
       HandlerFails, NodeTimeout, ZombieReturns, CancelRun, Done, vars
  <2> QED BY <2>1, SortKeeps, SortRests DEF SortNode, RunInv
<1>2. ASSUME SortNode \/ StartRun PROVE WalkInv'
  BY <1>2, SortingKeeps
<1>3. ASSUME SkipNode \/ EnterNode \/ EvaluateStatus \/ RetryWatched PROVE WalkInv'
  BY <1>3, VisitKeeps
<1>4. ASSUME InputsUnresolved PROVE WalkInv'
  BY <1>4, UnresolvedKeeps
<1>5. ASSUME HandlerStart PROVE WalkInv'
  BY <1>5, StartKeeps
<1>6. ASSUME HandlerEnds PROVE WalkInv'
  BY <1>6, EndKeeps
<1>7. ASSUME ZombieReturns PROVE WalkInv'
  BY <1>7, ZombieKeeps
<1>8. ASSUME RejectDefinition \/ FinishRun \/ CancelSeen \/ ReturnRun \/ CancelRun \/ UNCHANGED vars
      PROVE  WalkInv'
  <2>1. UNCHANGED sorting
    BY <1>8 DEF RejectDefinition, FinishRun, CancelSeen, ReturnRun, CancelRun, vars
  <2> QED BY <1>8, <2>1, EndsKeep
<1>9. WalkInv'
  BY <1>2, <1>3, <1>4, <1>5, <1>6, <1>7, <1>8 DEF Next, RunThread, HandlerEnds, Done
<1> QED BY <1>1, <1>9 DEF RunInv, WalkInv

\* The handler of an action is started once at most, in a graph of any shape, on a pool of
\* any size and whatever times out, fails or is retried (WorkflowExecutor.execute, run_attempt).
THEOREM EffectsHappenOnce == Spec => []EffectsOnce
<1>1. RunInv => EffectsOnce
  BY DEF RunInv
<1> QED BY <1>1, RunBegins, RunStep, PTL DEF Spec

\* An action that the run gave up on and that still holds a worker is recorded as failed
\* with an unknown outcome (run_attempt, on_node_failed).
THEOREM UnfinishedStaysUnknown == Spec => []UnfinishedActionIsUnknown
<1>1. RunInv => UnfinishedActionIsUnknown
  BY DEF RunInv
<1> QED BY <1>1, RunBegins, RunStep, PTL DEF Spec

(***************************************************************************)
(* What the loop knows of the nodes before and after it: the statuses and  *)
(* results that a node was decided on stay as they were.                   *)
(***************************************************************************)
Values == \A n \in Nodes : status[n] \in {"none", "succeeded", "failed", "skipped"}

\* The order is complete when the run starts, and the run is going on while the loop is.
Begun ==
    /\ phase = "sort" => run = "none" /\ pos = 1 /\ \A n \in Nodes : status[n] = "none"
    /\ phase \in Visiting => /\ run = "running" /\ BranchesValid(graph)
                             /\ \A n \in Nodes : \E i \in 1 .. Last : order[i] = n
    /\ run \in Terminal => phase \in {"close", "returned"}

\* Every node before the current one has a status, and none after it.
Decided ==
    phase \in Visiting => \A i \in 1 .. Last :
        i < pos \/ (i = pos /\ phase = "retry") => status[order[i]] # "none"
Untouched ==
    phase \in Visiting => \A i \in pos .. Last :
        (i = pos => phase = "node") => calls[order[i]] = 0 /\ status[order[i]] = "none"

\* The current node was entered with its inputs; a status condition retries what it watches.
Entered ==
    /\ phase \in {"wait", "status", "retry"} => InputsTaken(Here)
    /\ phase = "wait" =>
          \/ target = Here
          \/ target = graph.watch[Here] /\ graph.attempts[Here] > 1 /\ graph.kind[Here] = "status"

\* While the loop goes on, only nodes that a status condition looks at have failed.
Tolerated ==
    phase \in Visiting => \A n \in Nodes :
        status[n] = "failed" => n \in Controlled(graph) \/ (phase = "wait" /\ target = n /\ n = Here)

DataInv ==
    /\ result = [n \in Nodes |-> result[n]]
    /\ Values /\ Begun /\ Decided /\ Untouched /\ Entered /\ Tolerated
    /\ RanWithInputs /\ FinalStatusHonest

\* The order of the nodes of a definition that is accepted leaves none out.
LEMMA OrderComplete ==
  ASSUME Order!SortInv, Len(order) = Cardinality(Nodes)
  PROVE  \A n \in Nodes : \E i \in 1 .. Last : order[i] = n
<1>1. IsFiniteSet(Nodes)
  BY OrderFacts, ShapeAssumption DEF GraphShape, Nodes
<1>2. order \in [1 .. Last -> Nodes]
  BY DEF Order!SortInv, Nodes, Last
<1>3. order \in Injection(1 .. Last, Nodes)
  BY <1>2, OrderFacts DEF Injection, IsInjective
<1>4. Cardinality(1 .. Last) = Last
  <2>1. Last \in Nat
    BY OrderFacts
  <2> QED BY <2>1, FS_Interval
<1>5. order \in Surjection(1 .. Last, Nodes)
  BY <1>1, <1>3, <1>4, FS_Injection DEF Last
<1> QED BY <1>5 DEF Surjection

\* Sources come first in the run's order too.
LEMMA OrderSources ==
  ASSUME Order!SortInv, NEW j \in 1 .. Last, NEW e \in Into(graph, order[j])
  PROVE  \E i \in 1 .. Last : i < j /\ order[i] = e.src
<1>1. Into(graph, order[j]) = Order!Into(graph, order[j])
  BY DEF Into, Order!Into
<1>2. PICK i \in 1 .. j - 1 : order[i] = e.src
  BY <1>1 DEF Order!SortInv, Order!SourcesFirst, Last
<1>3. Last \in Nat
  BY OrderFacts
<1> QED BY <1>2, <1>3

\* No node that ran, nor the current one, has an edge from the current one.
LEMMA NothingBehind ==
  ASSUME RunInv, DataInv, phase \in Visiting, pos <= Last,
         NEW n \in Nodes, Ran(n) \/ n = Here, NEW e \in Into(graph, n)
  PROVE  e.src # Here
<1> SUFFICES ASSUME e.src = Here PROVE FALSE
  OBVIOUS
<1>1. PICK j \in 1 .. Last : order[j] = n
  BY DEF DataInv, Begun
<1>2. PICK i \in 1 .. Last : i < j /\ order[i] = e.src
  BY <1>1, OrderSources DEF RunInv
<1>3. pos \in 1 .. Last /\ Last \in Nat
  BY OrderFacts DEF RunInv, RunTypes
<1>4. i = pos
  BY <1>2, <1>3, OrderFacts DEF RunInv, Here
<1>5. n # Here
  BY <1>1, <1>2, <1>3, <1>4, OrderFacts DEF RunInv, Here
<1>6. calls[n] = 0 /\ status[n] = "none"
  BY <1>1, <1>2, <1>3, <1>4 DEF DataInv, Untouched
<1> QED BY <1>5, <1>6 DEF Ran

\* A node keeps its inputs if only nodes without an edge to it change.
LEMMA InputsStay ==
  ASSUME graph' = graph, NEW n, InputsTaken(n),
         \A e \in Into(graph, n) :
            /\ status'[e.src] = status[e.src] \/ (graph.kind[n] = "status" /\ graph.watch[n] = e.src)
            /\ IsCondition(graph, e.src) => result'[e.src] = result[e.src]
  PROVE  InputsTaken(n)'
BY DEF InputsTaken

LEMMA DataBegins == Init => DataInv
BY DEF Init, DataInv, Values, Begun, Decided, Untouched, Entered, Tolerated, RanWithInputs, Ran,
   FinalStatusHonest, Visiting, Terminal

\* The end of an edge into a node is a node.
LEMMA SourceIsNode ==
  ASSUME RunInv, NEW n, NEW e \in Into(graph, n)
  PROVE  e.src \in Nodes
BY OrderFacts, ShapeAssumption DEF RunInv, GraphShape, Into, Nodes

\* What is recorded of the current node takes no input from a node that ran, nor from itself.
LEMMA RecordHere ==
  ASSUME RunInv, DataInv, phase \in Visiting, pos <= Last, graph' = graph, calls' = calls,
         NEW m, m = Here, \A n \in Nodes \ {m} : status'[n] = status[n] /\ result'[n] = result[n]
  PROVE  /\ \A n \in Nodes : (Ran(n) \/ n = m) /\ InputsTaken(n) => InputsTaken(n)'
         /\ (Ran(m)' => Ran(m) \/ InputsTaken(m)) => RanWithInputs'
<1>1. ASSUME NEW n \in Nodes, Ran(n) \/ n = m, InputsTaken(n) PROVE InputsTaken(n)'
  <2>1. ASSUME NEW e \in Into(graph, n)
        PROVE  status'[e.src] = status[e.src] /\ result'[e.src] = result[e.src]
    BY <1>1, NothingBehind, SourceIsNode
  <2> QED BY <1>1, <2>1, InputsStay
<1>2. ASSUME Ran(m)' => Ran(m) \/ InputsTaken(m), NEW n \in Nodes \ Retried(graph), Ran(n)'
      PROVE  InputsTaken(n)'
  <2>1. CASE n = m
    <3>1. InputsTaken(n)
      BY <1>2, <2>1 DEF DataInv, RanWithInputs
    <3> QED BY <1>1, <2>1, <3>1
  <2>2. CASE n # m
    <3>1. Ran(n)
      BY <1>2, <2>2 DEF Ran
    <3>2. InputsTaken(n)
      BY <3>1 DEF DataInv, RanWithInputs
    <3> QED BY <1>1, <3>1, <3>2
  <2> QED BY <2>1, <2>2
<1>3. Nodes' = Nodes /\ Retried(graph)' = Retried(graph)
  BY DEF Nodes, Retried, StatusNodes
<1> QED BY <1>1, <1>2, <1>3 DEF RanWithInputs

\* Sorting; the rejection of a definition, which leaves no trace; and the start of the run.
LEMMA SortingData ==
  ASSUME RunInv, DataInv, SortNode \/ RejectDefinition \/ StartRun
  PROVE  DataInv'
<1>1. /\ graph' = graph /\ phase = "sort" /\ Nodes' = Nodes
      /\ UNCHANGED <<pos, status, result, calls, target>>
  BY DEF SortNode, RejectDefinition, StartRun, Sort!Take, sorting, Nodes
<1>2. \A n \in Nodes : calls[n] = 0 /\ status[n] = "none"
  BY <1>1 DEF DataInv, Begun, RunInv, Ahead
<1>3. RanWithInputs'
  BY <1>1, <1>2 DEF RanWithInputs, Ran
<1>4. CASE SortNode \/ RejectDefinition
  BY <1>1, <1>2, <1>3, <1>4 DEF SortNode, RejectDefinition, DataInv, Values, Begun, Decided,
     Untouched, Entered, Tolerated, FinalStatusHonest, Visiting, Terminal
<1>5. CASE StartRun
  <2>1. /\ order' = order /\ run' = "running" /\ phase' = "node" /\ pos' = pos /\ pos \in Nat \ {0}
        /\ Len(order) = Cardinality(Nodes) /\ BranchesValid(graph)
    BY <1>5 DEF StartRun, Accepted, WellFormed, sorting, RunInv, RunTypes
  <2>2. Last' = Last /\ \A i \in 1 .. Last : order[i] \in Nodes
    BY <2>1, OrderFacts DEF RunInv, Last
  <2>3. \A n \in Nodes : \E i \in 1 .. Last : order[i] = n
    BY <2>1, OrderComplete DEF RunInv
  <2>4. pos = 1
    BY <1>1 DEF DataInv, Begun
  <2>5. Decided' /\ Untouched'
    BY <1>1, <1>2, <2>1, <2>2, <2>4 DEF Decided, Untouched
  <2>6. Begun' /\ Values' /\ Entered' /\ Tolerated' /\ FinalStatusHonest'
    BY <1>1, <1>2, <2>1, <2>2, <2>3 DEF Begun, Values, Entered, Tolerated, FinalStatusHonest,
       Terminal, DataInv
  <2> QED BY <1>1, <1>3, <2>5, <2>6 DEF DataInv
<1> QED BY <1>4, <1>5

\* The loop goes on with its node, without a handler.
LEMMA VisitData ==
  ASSUME RunInv, DataInv, SkipNode \/ EnterNode \/ EvaluateStatus \/ RetryWatched
  PROVE  DataInv'
<1>1. UNCHANGED <<graph, order, calls, run>> /\ Last' = Last /\ Nodes' = Nodes
  BY DEF SkipNode, EnterNode, EvaluateStatus, RetryWatched, sorting, Last, Nodes
<1>2. /\ phase \in Visiting \ {"wait"} /\ pos \in 1 .. Last /\ run = "running"
      /\ Last \in Nat /\ Here \in Nodes /\ StatusValid(graph) /\ graph \in Graphs
      /\ \A i, j \in 1 .. Last : i # j => order[i] # order[j]
      /\ \A i \in 1 .. Last : order[i] \in Nodes
  BY OrderFacts DEF SkipNode, EnterNode, EvaluateStatus, RetryWatched, RunInv, Place, RunTypes,
     Visiting, Here, DataInv, Begun
<1>3. /\ status = [n \in Nodes |-> status[n]] /\ result = [n \in Nodes |-> result[n]]
  BY DEF RunInv, RunTypes, DataInv
<1>4. FinalStatusHonest' /\ Begun'
  <2>1. phase' \in Visiting
    BY DEF SkipNode, EnterNode, EvaluateStatus, RetryWatched, NextNode, Submit, Visiting
  <2> QED BY <1>1, <1>2, <2>1 DEF FinalStatusHonest, Begun, DataInv, Visiting, Terminal
<1>5. PICK m : m = Here
  OBVIOUS
<1>6. CASE SkipNode
  <2>1. /\ status' = [status EXCEPT ![m] = "skipped"] /\ result' = result
        /\ pos' = pos + 1 /\ phase' = "node" /\ phase = "node"
    BY <1>5, <1>6 DEF SkipNode, NextNode
  <2>2. status'[m] = "skipped" /\ \A n \in Nodes \ {m} : status'[n] = status[n]
    BY <1>2, <1>3, <1>5, <2>1, EntryChanges
  <2>3. calls[m] = 0
    BY <1>2, <1>5, <2>1 DEF DataInv, Untouched, Here
  <2>4. RanWithInputs'
    <3>1. ~Ran(m)'
      BY <1>1, <2>2, <2>3 DEF Ran
    <3> QED BY <1>1, <1>2, <1>5, <2>1, <2>2, <3>1, RecordHere
  <2>5. Values' /\ Tolerated'
    BY <1>1, <1>2, <2>1, <2>2 DEF Values, Tolerated, DataInv, Visiting
  <2>6. Decided' /\ Untouched'
    <3>1. ASSUME NEW i \in 1 .. Last, i < pos + 1 PROVE status'[order[i]] # "none"
      BY <1>2, <1>5, <2>2, <3>1 DEF Here, DataInv, Decided, Visiting
    <3>2. ASSUME NEW i \in pos + 1 .. Last
          PROVE  calls[order[i]] = 0 /\ status'[order[i]] = "none"
      BY <1>2, <1>5, <2>2, <3>2 DEF Here, DataInv, Untouched, Visiting
    <3> QED BY <1>1, <1>2, <2>1, <3>1, <3>2 DEF Decided, Untouched
  <2> QED BY <1>1, <1>3, <1>4, <2>1, <2>4, <2>5, <2>6 DEF DataInv, Entered
<1>7. CASE EnterNode
  <2>1. /\ UNCHANGED <<pos, status, result>> /\ phase = "node" /\ ~Skipped(Here)
        /\ \/ phase' = "status"
           \/ phase' = "wait" /\ target' = Here
    BY <1>7 DEF EnterNode, Submit
  <2>2. Here' = Here
    BY <1>1, <2>1 DEF Here
  <2>3. InputsTaken(Here)
    <3> SUFFICES ASSUME NEW e \in Into(graph, Here)
                 PROVE  /\ \/ status[e.src] = "succeeded"
                           \/ graph.kind[Here] = "status" /\ graph.watch[Here] = e.src
                        /\ IsCondition(graph, e.src) =>
                              e.branch = (IF result[e.src] = "true" THEN "true" ELSE "false")
      BY DEF InputsTaken
    <3>1. PICK i \in 1 .. Last : i < pos /\ order[i] = e.src
      BY <1>2, OrderSources DEF RunInv, Here
    <3>2. status[e.src] \in {"succeeded", "failed", "skipped"}
      BY <1>2, <3>1 DEF DataInv, Decided, Values
    <3> QED BY <2>1, <3>2 DEF Skipped
  <2>4. RanWithInputs' /\ InputsTaken(Here)' /\ Values'
    BY <1>1, <2>1, <2>2, <2>3
       DEF RanWithInputs, Ran, InputsTaken, Values, DataInv, StatusNodes, Retried
  <2>5. Decided' /\ Untouched' /\ Tolerated'
    BY <1>1, <1>2, <2>1 DEF Decided, Untouched, Tolerated, DataInv, Visiting
  <2>6. Entered'
    BY <2>1, <2>2, <2>4 DEF Entered
  <2> QED BY <1>1, <1>3, <1>4, <2>1, <2>4, <2>5, <2>6 DEF DataInv
<1>8. CASE EvaluateStatus
  <2>1. /\ \E r : result' = [result EXCEPT ![m] = r]
        /\ status' = [status EXCEPT ![m] = "succeeded"] /\ phase = "status"
        /\ \/ phase' = "retry" /\ pos' = pos
           \/ phase' = "node" /\ pos' = pos + 1
    BY <1>5, <1>8 DEF EvaluateStatus, NextNode
  <2>2. status'[m] = "succeeded" /\ \A n \in Nodes \ {m} : status'[n] = status[n]
    BY <1>2, <1>3, <1>5, <2>1, EntryChanges
  <2>3. PICK r : result' = [result EXCEPT ![m] = r]
    BY <2>1
  <2>4. /\ result' = [n \in Nodes |-> result'[n]]
        /\ \A n \in Nodes \ {m} : result'[n] = result[n]
    BY <1>2, <1>3, <1>5, <2>3, EntryChanges
  <2>5. InputsTaken(m)
    BY <1>5, <2>1 DEF DataInv, Entered
  <2>6. RanWithInputs' /\ InputsTaken(m)'
    BY <1>1, <1>2, <1>5, <2>2, <2>4, <2>5, RecordHere
  <2>7. Values' /\ Tolerated'
    BY <1>1, <1>2, <2>1, <2>2 DEF Values, Tolerated, DataInv, Visiting
  <2>8. Decided' /\ Untouched'
    <3>1. ASSUME NEW i \in 1 .. Last, i <= pos PROVE status'[order[i]] # "none"
      BY <1>2, <1>5, <2>2, <3>1 DEF Here, DataInv, Decided, Visiting
    <3>2. ASSUME NEW i \in pos + 1 .. Last
          PROVE  calls[order[i]] = 0 /\ status'[order[i]] = "none"
      BY <1>2, <1>5, <2>2, <3>2 DEF Here, DataInv, Untouched, Visiting
    <3> QED BY <1>1, <1>2, <2>1, <3>1, <3>2 DEF Decided, Untouched
  <2>9. Entered'
    <3>1. pos' = pos => Here' = m
      BY <1>1, <1>5 DEF Here
    <3>2. pos' = pos => InputsTaken(Here)'
      BY <1>1, <2>6, <3>1 DEF InputsTaken
    <3> QED BY <1>2, <2>1, <3>2 DEF Entered
  <2> QED BY <1>1, <1>4, <2>4, <2>6, <2>7, <2>8, <2>9 DEF DataInv
<1>9. CASE RetryWatched
  <2>1. /\ UNCHANGED <<pos, status, result>> /\ phase = "retry" /\ phase' = "wait"
        /\ target' = graph.watch[Here] /\ graph.attempts[Here] > 1 /\ graph.kind[Here] = "status"
    BY <1>9 DEF RetryWatched, Submit, RunInv, Place
  <2>2. Here' = Here
    BY <1>1, <2>1 DEF Here
  <2>3. InputsTaken(Here)
    BY <2>1 DEF DataInv, Entered
  <2>4. RanWithInputs' /\ InputsTaken(Here)' /\ Values'
    BY <1>1, <2>1, <2>2, <2>3
       DEF RanWithInputs, Ran, InputsTaken, Values, DataInv, StatusNodes, Retried
  <2>5. Decided' /\ Untouched' /\ Tolerated'
    BY <1>1, <1>2, <2>1 DEF Decided, Untouched, Tolerated, DataInv, Visiting
  <2>6. Entered'
    BY <1>1, <2>1, <2>2, <2>4 DEF Entered
  <2> QED BY <1>1, <1>3, <1>4, <2>1, <2>4, <2>5, <2>6 DEF DataInv
<1> QED BY <1>6, <1>7, <1>8, <1>9

\* The steps that change no status; the end of the loop is where the final status is computed.
LEMMA RestData ==
  ASSUME RunInv, DataInv,
         FinishRun \/ CancelSeen \/ ReturnRun \/ CancelRun \/ ZombieReturns \/ UNCHANGED vars
  PROVE  DataInv'
<1>1. UNCHANGED <<graph, order, calls, status, result, pos, target>> /\ Last' = Last
      /\ Nodes' = Nodes /\ Here' = Here
  BY DEF FinishRun, CancelSeen, ReturnRun, CancelRun, ZombieReturns, vars, sorting, EndRun, Last,
     Nodes, Here
<1>2. RanWithInputs' /\ Values'
  BY <1>1 DEF RanWithInputs, Ran, InputsTaken, Values, DataInv, Retried, StatusNodes
<1>3. CASE FinishRun
  <2>1. /\ phase = "node" /\ pos > Last /\ phase' = "close" /\ run' = FinalStatus
        /\ Last \in Nat /\ pos \in Nat
    BY <1>3, OrderFacts DEF FinishRun, EndRun, RunInv, RunTypes
  <2>2. \A n \in Nodes : status[n] \in {"succeeded", "failed", "skipped"}
    <3> TAKE n \in Nodes
    <3>1. PICK i \in 1 .. Last : order[i] = n
      BY <2>1 DEF DataInv, Begun, Visiting
    <3>2. i < pos
      BY <2>1
    <3>3. status[n] # "none"
      BY <2>1, <3>1, <3>2 DEF DataInv, Decided, Visiting
    <3> QED BY <3>3 DEF DataInv, Values
  <2>3. \A n \in Nodes : status[n] = "failed" => n \in Controlled(graph)
    BY <2>1 DEF DataInv, Tolerated, Visiting
  <2>4. FinalStatusHonest'
    BY <1>1, <2>1, <2>2, <2>3 DEF FinalStatusHonest, FinalStatus
  <2> QED BY <1>1, <1>2, <2>1, <2>4 DEF DataInv, Begun, Decided, Untouched, Entered, Tolerated,
       Visiting, Terminal
<1>4. CASE CancelSeen
  <2>1. phase' = "close" /\ run' = "cancelled"
    BY <1>4 DEF CancelSeen, EndRun
  <2> QED BY <1>1, <1>2, <2>1 DEF DataInv, Begun, Decided, Untouched, Entered, Tolerated,
       Visiting, Terminal, FinalStatusHonest
<1>5. CASE ReturnRun
  <2>1. phase' = "returned" /\ run' = run
    BY <1>5 DEF ReturnRun
  <2> QED BY <1>1, <1>2, <2>1 DEF DataInv, Begun, Decided, Untouched, Entered, Tolerated,
       Visiting, Terminal, FinalStatusHonest
<1>6. CASE CancelRun \/ ZombieReturns \/ UNCHANGED vars
  <2>1. phase' = phase /\ run' = run
    BY <1>6 DEF CancelRun, ZombieReturns, vars
  <2> QED BY <1>1, <1>2, <2>1 DEF DataInv, Begun, Decided, Untouched, Entered, Tolerated,
       FinalStatusHonest, InputsTaken
<1> QED BY <1>3, <1>4, <1>5, <1>6

\* A worker takes the call: of a node with its inputs, or of one that is retried.
LEMMA StartData ==
  ASSUME RunInv, DataInv, HandlerStart
  PROVE  DataInv'
<1>1. /\ UNCHANGED <<graph, order, run, pos, phase, target, status, result>>
      /\ calls' = [calls EXCEPT ![target] = @ + 1] /\ phase = "wait"
  BY DEF HandlerStart, sorting, RunInv, Place
<1>2. Nodes' = Nodes /\ Last' = Last /\ Here' = Here
  BY <1>1 DEF Nodes, Last, Here
<1>3. /\ pos \in 1 .. Last /\ Last \in Nat /\ StatusValid(graph)
      /\ \A i, j \in 1 .. Last : i # j => order[i] # order[j]
      /\ \A i \in 1 .. Last : order[i] \in Nodes
  BY <1>1, OrderFacts DEF RunInv, Place, RunTypes, Visiting
<1>4. Here \in Nodes
  BY <1>3 DEF Here
<1>5. target # Here => target \in Retried(graph)
  BY <1>1, <1>4 DEF DataInv, Entered, Retried, StatusNodes, Nodes
<1>6. \A n \in Nodes \ {target} : calls'[n] = calls[n]
  BY <1>1 DEF RunInv, RunTypes
<1>7. RanWithInputs'
  <2> SUFFICES ASSUME NEW n \in Nodes \ Retried(graph), Ran(n)' PROVE InputsTaken(n)'
    BY <1>1, <1>2 DEF RanWithInputs, Retried, StatusNodes
  <2>1. CASE n = target
    BY <1>1, <1>5, <2>1 DEF DataInv, Entered, InputsTaken
  <2>2. CASE n # target
    BY <1>1, <1>6, <2>2 DEF DataInv, RanWithInputs, Ran, InputsTaken
  <2> QED BY <2>1, <2>2
<1>8. Untouched'
  <2> SUFFICES ASSUME NEW i \in pos .. Last, i # pos
               PROVE  calls'[order[i]] = 0 /\ status[order[i]] = "none"
    BY <1>1, <1>2 DEF Untouched
  <2>1. calls[order[i]] = 0 /\ status[order[i]] = "none"
    BY <1>1 DEF DataInv, Untouched, Visiting
  <2>2. order[i] # target
    <3>1. CASE target = Here
      BY <1>3, <3>1 DEF Here
    <3>2. CASE target # Here
      <4>1. target \in Sources(graph, Here)
        <5>1. target = graph.watch[Here] /\ graph.kind[Here] = "status"
          BY <1>1, <3>2 DEF DataInv, Entered
        <5>2. Here \in StatusNodes(graph)
          BY <1>4, <5>1 DEF StatusNodes, Nodes
        <5> QED BY <1>3, <5>1, <5>2 DEF StatusValid
      <4>2. PICK e \in Into(graph, Here) : e.src = target
        BY <4>1 DEF Sources
      <4>3. PICK j \in 1 .. Last : j < pos /\ order[j] = target
        BY <1>3, <4>2, OrderSources DEF RunInv, Here
      <4>4. status[target] # "none"
        BY <1>1, <4>3 DEF DataInv, Decided, Visiting
      <4> QED BY <2>1, <4>4
    <3> QED BY <3>1, <3>2
  <2> QED BY <1>3, <1>6, <2>1, <2>2
<1>9. Values' /\ Begun' /\ Decided' /\ Entered' /\ Tolerated' /\ FinalStatusHonest'
  BY <1>1, <1>2 DEF DataInv, Values, Begun, Decided, Entered, Tolerated, FinalStatusHonest,
     InputsTaken
<1> QED BY <1>1, <1>2, <1>7, <1>8, <1>9 DEF DataInv

\* A binding that cannot be resolved ends the run: some node is reported as failed.  In a retry
\* it is the one after the status condition, which has nodes behind it.
LEMMA UnresolvedData ==
  ASSUME RunInv, DataInv, InputsUnresolved
  PROVE  DataInv'
<1>1. /\ UNCHANGED <<graph, order, pos, calls, result>> /\ phase' = "close" /\ run' = "failed"
      /\ \/ phase = "node" /\ pos <= Last
         \/ phase = "retry"
      /\ Nodes' = Nodes /\ Last' = Last
  BY DEF InputsUnresolved, EndRun, sorting, Nodes, Last
<1>2. /\ pos \in 1 .. Last /\ Last \in Nat /\ Here \in Nodes /\ BranchesValid(graph)
      /\ \A i, j \in 1 .. Last : i # j => order[i] # order[j]
      /\ \A i \in 1 .. Last : order[i] \in Nodes
      /\ status = [n \in Nodes |-> status[n]]
  BY <1>1, OrderFacts DEF RunInv, Place, RunTypes, Visiting, DataInv, Begun, Here
<1>3. PICK f \in 1 .. Last : f \in Unvisited /\ \A j \in Unvisited : f <= j
  <2>1. CASE phase = "node"
    <3>1. pos \in Unvisited
      BY <1>1, <1>2, <2>1 DEF Unvisited, DataInv, Untouched, Visiting
    <3>2. \A j \in Unvisited : pos <= j
      BY <1>2, <2>1 DEF Unvisited, DataInv, Decided, Visiting
    <3> QED BY <1>2, <3>1, <3>2
  <2>2. CASE phase = "retry"
    <3>1. graph.kind[Here] = "status"
      BY <2>2 DEF RunInv, Place
    <3>2. PICK e \in graph.edges : e.src = Here
      <4>1. Here \in graph.nodes /\ IsCondition(graph, Here)
        BY <1>2, <3>1 DEF IsCondition, Nodes
      <4>2. {e.branch : e \in OutOf(graph, Here)} = {"true", "false"}
        BY <1>2, <4>1 DEF BranchesValid
      <4>3. OutOf(graph, Here) # {}
        BY <4>2
      <4> QED BY <4>3 DEF OutOf
    <3>3. e.tgt \in Nodes /\ e \in Into(graph, e.tgt)
      BY OrderFacts, ShapeAssumption DEF RunInv, GraphShape, Into, Nodes
    <3>4. PICK j \in 1 .. Last : order[j] = e.tgt
      BY <2>2, <3>3 DEF DataInv, Begun, Visiting
    <3>5. PICK i \in 1 .. Last : i < j /\ order[i] = Here
      BY <3>2, <3>3, <3>4, OrderSources DEF RunInv
    <3>6. i = pos
      BY <1>2, <3>5 DEF Here
    <3>7. pos + 1 \in 1 .. Last
      BY <1>2, <3>5, <3>6
    <3>8. pos + 1 \in Unvisited
      BY <1>2, <2>2, <3>7 DEF Unvisited, DataInv, Untouched, Visiting
    <3>9. \A j2 \in Unvisited : pos + 1 <= j2
      BY <1>2, <2>2 DEF Unvisited, DataInv, Decided, Visiting
    <3> QED BY <3>7, <3>8, <3>9
  <2> QED BY <1>1, <2>1, <2>2
<1>4. \/ status' = status /\ \E n \in Nodes : status[n] = "failed"
      \/ status' = [status EXCEPT ![order[f]] = "failed"]
  <2>1. CASE \E n \in Nodes : status[n] = "failed"
    BY <2>1 DEF InputsUnresolved
  <2>2. CASE ~ \E n \in Nodes : status[n] = "failed"
    <3>1. (CHOOSE i \in Unvisited : \A j \in Unvisited : i <= j) = f
      <4> DEFINE first == CHOOSE i \in Unvisited : \A j \in Unvisited : i <= j
      <4>1. first \in Unvisited /\ \A j \in Unvisited : first <= j
        BY <1>3
      <4>2. first \in 1 .. Last
        BY <4>1 DEF Unvisited
      <4> QED BY <1>2, <1>3, <4>1, <4>2
    <3>2. Unvisited # {}
      BY <1>3
    <3> QED BY <2>2, <3>1, <3>2 DEF InputsUnresolved
  <2> QED BY <2>1, <2>2
<1>5. status[order[f]] = "none" /\ order[f] \in Nodes
  BY <1>2, <1>3 DEF Unvisited
<1>6. ASSUME status' = [status EXCEPT ![order[f]] = "failed"]
      PROVE  status'[order[f]] = "failed" /\ \A n \in Nodes \ {order[f]} : status'[n] = status[n]
  BY <1>2, <1>5, <1>6, EntryChanges
<1>7. RanWithInputs'
  <2> SUFFICES ASSUME NEW n \in Nodes \ Retried(graph), Ran(n)' PROVE InputsTaken(n)'
    BY <1>1 DEF RanWithInputs, Retried, StatusNodes
  <2>1. Ran(n)
    BY <1>1, <1>4, <1>6 DEF Ran
  <2>2. InputsTaken(n)
    BY <2>1 DEF DataInv, RanWithInputs
  <2>3. ASSUME NEW e \in Into(graph, n)
        PROVE  status'[e.src] = status[e.src] \/ (graph.kind[n] = "status" /\ graph.watch[n] = e.src)
    <3>1. CASE e.src = order[f]
      BY <1>5, <2>2, <2>3, <3>1 DEF InputsTaken
    <3>2. CASE e.src # order[f]
      BY <1>4, <1>6, <2>3, <3>2, SourceIsNode
    <3> QED BY <3>1, <3>2
  <2> QED BY <1>1, <2>2, <2>3, InputsStay
<1>8. Values' /\ FinalStatusHonest'
  BY <1>1, <1>4, <1>5, <1>6 DEF Values, FinalStatusHonest, DataInv
<1> QED BY <1>1, <1>7, <1>8 DEF DataInv, Begun, Decided, Untouched, Entered, Tolerated, Visiting,
     Terminal

\* What the end of an attempt records, and where the loop goes on.
LEMMA AttemptRecorded ==
  ASSUME RunInv, DataInv, HandlerEnds
  PROVE  \E s \in {"succeeded", "failed"} :
            /\ status' = [status EXCEPT ![target] = s]
            /\ \/ result' = result
               \/ graph.kind[target] = "condition" /\ \E r : result' = [result EXCEPT ![target] = r]
            /\ \/ /\ target = Here /\ phase' = "node" /\ pos' = pos + 1 /\ run' = run
                  /\ s = "failed" => target \in Controlled(graph)
               \/ target # Here /\ phase' = "status" /\ UNCHANGED <<pos, run>>
               \/ target = Here /\ phase' = "wait" /\ UNCHANGED <<pos, run, target>>
               \/ target = Here /\ s = "failed" /\ phase' = "close" /\ run' = "failed"
<1>1. CASE HandlerSucceeds
  BY <1>1 DEF HandlerSucceeds, NextNode
<1>2. ASSUME NEW c, AttemptFailed(c), result' = result
      PROVE  /\ status' = [status EXCEPT ![target] = "failed"]
             /\ \/ /\ target = Here /\ phase' = "node" /\ pos' = pos + 1 /\ run' = run
                   /\ target \in Controlled(graph)
                \/ target # Here /\ phase' = "status" /\ UNCHANGED <<pos, run>>
                \/ target = Here /\ phase' = "wait" /\ UNCHANGED <<pos, run, target>>
                \/ target = Here /\ phase' = "close" /\ run' = "failed"
  BY <1>2 DEF AttemptFailed, Submit, NextNode, EndRun
<1>3. CASE HandlerFails \/ NodeTimeout
  <2>1. result' = result /\ \E c : AttemptFailed(c)
    BY <1>3 DEF HandlerFails, NodeTimeout
  <2> QED BY <1>2, <2>1
<1> QED BY <1>1, <1>3 DEF HandlerEnds

\* The end of an attempt: of the current node, or of the one that it retries, which nothing else
\* takes an input from.
LEMMA EndData ==
  ASSUME RunInv, DataInv, HandlerEnds
  PROVE  DataInv'
<1>1. UNCHANGED <<graph, order, calls>> /\ phase = "wait" /\ Nodes' = Nodes /\ Last' = Last
  BY DEF HandlerEnds, HandlerSucceeds, HandlerFails, NodeTimeout, sorting, RunInv, Place, Nodes, Last
<1>2. /\ pos \in 1 .. Last /\ Last \in Nat /\ Here \in Nodes /\ StatusValid(graph)
      /\ BranchesValid(graph) /\ target \in Nodes /\ run = "running"
      /\ \A i, j \in 1 .. Last : i # j => order[i] # order[j]
      /\ \A i \in 1 .. Last : order[i] \in Nodes
      /\ status = [n \in Nodes |-> status[n]] /\ result = [n \in Nodes |-> result[n]]
  BY <1>1, OrderFacts DEF RunInv, Place, RunTypes, Visiting, DataInv, Begun, Here
<1>3. PICK m : m = Here
  OBVIOUS
<1>4. PICK t : t = target
  OBVIOUS
<1>5. PICK s \in {"succeeded", "failed"} :
        /\ status' = [status EXCEPT ![t] = s]
        /\ \/ result' = result
           \/ graph.kind[t] = "condition" /\ \E r : result' = [result EXCEPT ![t] = r]
        /\ \/ /\ t = m /\ phase' = "node" /\ pos' = pos + 1 /\ run' = run
              /\ s = "failed" => t \in Controlled(graph)
           \/ t # m /\ phase' = "status" /\ UNCHANGED <<pos, run>>
           \/ t = m /\ phase' = "wait" /\ UNCHANGED <<pos, run, target>>
           \/ t = m /\ s = "failed" /\ phase' = "close" /\ run' = "failed"
  BY <1>3, <1>4, AttemptRecorded
<1>6. status'[t] = s /\ \A n \in Nodes \ {t} : status'[n] = status[n]
  BY <1>2, <1>4, <1>5, EntryChanges
<1>7. /\ result' = [n \in Nodes |-> result'[n]]
      /\ \A n \in Nodes \ {t} : result'[n] = result[n]
      /\ graph.kind[t] # "condition" => result' = result
  <2>1. CASE result' = result
    BY <1>2, <2>1
  <2>2. CASE result' # result
    <3>1. PICK r : graph.kind[t] = "condition" /\ result' = [result EXCEPT ![t] = r]
      BY <1>5, <2>2
    <3> QED BY <1>2, <1>4, <3>1, EntryChanges
  <2> QED BY <2>1, <2>2
<1>8. t # m => /\ t = graph.watch[m] /\ graph.kind[m] = "status" /\ m \in StatusNodes(graph)
               /\ t \in Sources(graph, m) /\ graph.kind[t] \in {"query", "pure"}
               /\ Targets(graph, t) = {m} /\ t \in Controlled(graph)
  <2> SUFFICES ASSUME t # m
               PROVE  /\ t = graph.watch[m] /\ graph.kind[m] = "status" /\ m \in StatusNodes(graph)
                      /\ t \in Sources(graph, m) /\ graph.kind[t] \in {"query", "pure"}
                      /\ Targets(graph, t) = {m} /\ t \in Controlled(graph)
    OBVIOUS
  <2>1. t = graph.watch[m] /\ graph.kind[m] = "status" /\ graph.attempts[m] > 1
    BY <1>1, <1>3, <1>4 DEF DataInv, Entered
  <2>2. m \in StatusNodes(graph)
    BY <1>2, <1>3, <2>1 DEF StatusNodes, Nodes
  <2> QED BY <1>2, <2>1, <2>2 DEF StatusValid, Controlled
<1>9. /\ \A n \in Nodes : (Ran(n) \/ n = m) /\ InputsTaken(n) => InputsTaken(n)'
      /\ RanWithInputs'
  <2>1. CASE t = m
    <3>1. InputsTaken(m)
      BY <1>1, <1>3 DEF DataInv, Entered
    <3> QED BY <1>1, <1>2, <1>3, <1>6, <1>7, <2>1, <3>1, RecordHere DEF Visiting
  <2>2. CASE t # m
    <3>1. ASSUME NEW n \in Nodes, InputsTaken(n) PROVE InputsTaken(n)'
      <4>1. ASSUME NEW e \in Into(graph, n), e.src = t
            PROVE  graph.kind[n] = "status" /\ graph.watch[n] = t
        <5>1. n \in Targets(graph, t)
          BY <4>1 DEF Targets, OutOf, Into
        <5> QED BY <1>8, <2>2, <5>1
      <4>2. result' = result
        BY <1>7, <1>8, <2>2
      <4>3. ASSUME NEW e \in Into(graph, n)
            PROVE  /\ \/ status'[e.src] = status[e.src]
                      \/ graph.kind[n] = "status" /\ graph.watch[n] = e.src
                   /\ IsCondition(graph, e.src) => result'[e.src] = result[e.src]
        BY <1>6, <4>1, <4>2, <4>3, SourceIsNode
      <4> QED BY <1>1, <3>1, <4>3, InputsStay
    <3>2. ASSUME NEW n \in Nodes \ Retried(graph), Ran(n)' PROVE InputsTaken(n)'
      <4>1. Ran(n)
        BY <1>1, <1>6, <1>8, <2>2, <3>2 DEF Ran
      <4>2. InputsTaken(n)
        BY <4>1 DEF DataInv, RanWithInputs
      <4> QED BY <3>1, <4>2
    <3>3. RanWithInputs'
      BY <1>1, <3>2 DEF RanWithInputs, Retried, StatusNodes
    <3> QED BY <3>1, <3>3
  <2> QED BY <2>1, <2>2
<1>10. \A i \in pos + 1 .. Last : order[i] # t
  <2> SUFFICES ASSUME NEW i \in pos + 1 .. Last PROVE order[i] # t
    OBVIOUS
  <2>1. CASE t = m
    BY <1>2, <1>3, <2>1 DEF Here
  <2>2. CASE t # m
    <3>1. PICK e \in Into(graph, m) : e.src = t
      BY <1>8, <2>2 DEF Sources
    <3>2. PICK j \in 1 .. Last : j < pos /\ order[j] = t
      BY <1>2, <1>3, <3>1, OrderSources DEF RunInv, Here
    <3> QED BY <1>2, <3>2
  <2> QED BY <2>1, <2>2
<1>11. Values'
  BY <1>1, <1>5, <1>6 DEF Values, DataInv
<1>12. Begun'
  BY <1>1, <1>2, <1>5 DEF Begun, DataInv, Visiting, Terminal
<1>13. Decided'
  <2> SUFFICES ASSUME phase' \in Visiting, NEW i \in 1 .. Last,
                      i < pos' \/ (i = pos' /\ phase' = "retry")
               PROVE  status'[order[i]] # "none"
    BY <1>1 DEF Decided
  <2>1. i < pos \/ (i = pos /\ t = m)
    BY <1>2, <1>5 DEF Visiting
  <2>2. CASE order[i] = t
    BY <1>5, <1>6, <2>2
  <2>3. CASE order[i] # t
    <3>1. i < pos
      BY <1>3, <2>1, <2>3 DEF Here
    <3> QED BY <1>1, <1>2, <1>6, <2>3, <3>1 DEF DataInv, Decided, Visiting
  <2> QED BY <2>2, <2>3
<1>14. Untouched'
  <2> SUFFICES ASSUME phase' \in Visiting, NEW i \in pos' .. Last, i = pos' => phase' = "node"
               PROVE  calls[order[i]] = 0 /\ status'[order[i]] = "none"
    BY <1>1 DEF Untouched
  <2>1. i \in pos + 1 .. Last
    BY <1>2, <1>5 DEF Visiting
  <2>2. calls[order[i]] = 0 /\ status[order[i]] = "none"
    BY <1>1, <1>2, <2>1 DEF DataInv, Untouched, Visiting
  <2> QED BY <1>2, <1>6, <1>10, <2>1, <2>2
<1>15. Entered'
  <2>1. CASE pos' = pos /\ phase' \in {"status", "wait"}
    <3>1. InputsTaken(m)'
      BY <1>1, <1>2, <1>3, <1>9 DEF DataInv, Entered
    <3>2. Here' = m
      BY <1>1, <1>3, <2>1 DEF Here
    <3>3. InputsTaken(Here)'
      BY <3>1, <3>2 DEF InputsTaken
    <3>4. phase' = "wait" => target' = Here'
      BY <1>4, <1>5, <2>1, <3>2
    <3> QED BY <2>1, <3>3, <3>4 DEF Entered
  <2>2. CASE phase' \in {"node", "close"}
    BY <2>2 DEF Entered
  <2> QED BY <1>5, <2>1, <2>2
<1>16. Tolerated'
  <2> SUFFICES ASSUME phase' \in Visiting, NEW n \in Nodes, status'[n] = "failed"
               PROVE  n \in Controlled(graph) \/ (phase' = "wait" /\ target' = n /\ n = Here')
    BY <1>1 DEF Tolerated, Controlled, StatusNodes
  <2>1. CASE n = t
    <3>1. CASE phase' = "wait"
      <4>1. Here' = m
        BY <1>1, <1>3, <1>5, <3>1 DEF Here
      <4> QED BY <1>4, <1>5, <2>1, <3>1, <4>1
    <3>2. CASE phase' # "wait"
      BY <1>5, <1>6, <1>8, <2>1, <3>2 DEF Visiting
    <3> QED BY <3>1, <3>2
  <2>2. CASE n # t
    BY <1>1, <1>4, <1>6, <2>2 DEF DataInv, Tolerated, Visiting
  <2> QED BY <2>1, <2>2
<1>17. FinalStatusHonest'
  BY <1>1, <1>2, <1>4, <1>5, <1>6 DEF FinalStatusHonest
<1> QED BY <1>1, <1>7, <1>9, <1>11, <1>12, <1>13, <1>14, <1>15, <1>16, <1>17 DEF DataInv

\* Every step keeps what the loop knows.
LEMMA DataStep == RunInv /\ DataInv /\ [Next]_vars => DataInv'
<1> SUFFICES ASSUME RunInv, DataInv, [Next]_vars PROVE DataInv'
  OBVIOUS
<1>1. ASSUME SortNode \/ RejectDefinition \/ StartRun PROVE DataInv'
  BY <1>1, SortingData
<1>2. ASSUME SkipNode \/ EnterNode \/ EvaluateStatus \/ RetryWatched PROVE DataInv'
  BY <1>2, VisitData
<1>3. ASSUME InputsUnresolved PROVE DataInv'
  BY <1>3, UnresolvedData
<1>4. ASSUME HandlerStart PROVE DataInv'
  BY <1>4, StartData
<1>5. ASSUME HandlerEnds PROVE DataInv'
  BY <1>5, EndData
<1>6. ASSUME FinishRun \/ CancelSeen \/ ReturnRun \/ CancelRun \/ ZombieReturns \/ UNCHANGED vars
      PROVE  DataInv'
  BY <1>6, RestData
<1> QED BY <1>1, <1>2, <1>3, <1>4, <1>5, <1>6 DEF Next, RunThread, HandlerEnds, Done

\* The order in which the run visits its nodes has the source of each edge first
\* (validate_definition).
THEOREM VisitsSourcesFirst == Spec => []SourcesFirst
<1>1. RunInv => SourcesFirst
  <2>1. \A n : Order!Into(graph, n) = Sort!Into(graph, n)
    BY DEF Order!Into, Sort!Into
  <2> QED BY <2>1 DEF RunInv, Order!SortInv, SourcesFirst, Sort!SourcesFirst, Order!SourcesFirst
<1> QED BY <1>1, RunBegins, RunStep, PTL DEF Spec

\* A definition of any shape is rejected for a cycle exactly if it has one: when the sort is over,
\* nodes are left if and only if some node reaches itself (validate_definition).
THEOREM CyclesAreFound == Spec => []CycleFound
<1>1. \A g : Order!GraphShape(g) <=> GraphShape(g)
  BY DEF Order!GraphShape, GraphShape, Order!IsFiniteSet, IsFiniteSet
<1>2. Order!SortInv => Order!CycleFound
  BY <1>1, Order!SortFindsCycles, ShapeAssumption
<1>3. \A g, n : Order!Targets(g, n) = Sort!Targets(g, n)
  BY DEF Order!Targets, Sort!Targets, Order!OutOf, Sort!OutOf
<1>4. \A g, n, S : Order!ClosedFrom(g, n, S) <=> Sort!ClosedFrom(g, n, S)
  BY <1>3 DEF Order!ClosedFrom, Sort!ClosedFrom
<1>5. \A g : Order!Acyclic(g) <=> Sort!Acyclic(g)
  BY <1>4 DEF Order!Acyclic, Sort!Acyclic, Order!Reach, Sort!Reach
<1>6. Order!Cardinality(graph.nodes) = Sort!Cardinality(graph.nodes)
  BY DEF Order!Cardinality, Sort!Cardinality
<1>7. RunInv => CycleFound
  BY <1>2, <1>5, <1>6 DEF RunInv, CycleFound, Sort!CycleFound, Order!CycleFound
<1> QED BY <1>7, RunBegins, RunStep, PTL DEF Spec

\* A node that no status condition retries runs with all of its inputs: in a graph of any shape,
\* whatever was retried before it and is retried after it.
THEOREM RunsWithInputs == Spec => []RanWithInputs
<1>1. DataInv => RanWithInputs
  BY DEF DataInv
<1> QED BY <1>1, RunBegins, RunStep, DataBegins, DataStep, PTL DEF Spec

\* The final status of a run agrees with the statuses of its nodes, also if the run ends because
\* of an input that cannot be resolved.
THEOREM FinalStatusTells == Spec => []FinalStatusHonest
<1>1. DataInv => FinalStatusHonest
  BY DEF DataInv
<1> QED BY <1>1, RunBegins, RunStep, DataBegins, DataStep, PTL DEF Spec
=============================================================================
