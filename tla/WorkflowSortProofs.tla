-------------------------- MODULE WorkflowSortProofs --------------------------
(***************************************************************************)
(* The sorting loop of validate_definition orders every graph correctly:   *)
(* sources come first and no node is taken twice, for graphs of any size,  *)
(* with parallel edges and with cycles.                                    *)
(***************************************************************************)
EXTENDS WorkflowSort, FiniteSetTheorems, TLAPS

Taken == SeqElements(ordered)

\* The edges into n that still count in its in-degree.
Pending(n) == {e \in Into(graph, n) : e.src \notin Taken}

\* The in-degree counts the pending edges: without it, nothing says why a ready node may be
\* taken.
Counted == \A n \in graph.nodes : indegree[n] = Cardinality(Pending(n))

\* No node that may be taken is forgotten: what is left at the end has pending edges.
AllReady == \A n \in graph.nodes \ Taken : indegree[n] = 0 => n \in ready

SortInv ==
    /\ graph \in Graphs
    /\ ordered \in Seq(graph.nodes)
    /\ ready \subseteq graph.nodes \ Taken
    /\ indegree = [n \in graph.nodes |-> indegree[n]]
    /\ Counted
    /\ \A n \in ready : indegree[n] = 0
    /\ AllReady
    /\ SourcesFirst
    /\ TakenOnce

\* The elements of a sequence that has grown by one.
LEMMA AppendElements ==
  ASSUME NEW S, NEW s \in Seq(S), NEW x \in S
  PROVE  SeqElements(Append(s, x)) = SeqElements(s) \cup {x}
<1> DEFINE t == Append(s, x)
<1>1. Len(t) = Len(s) + 1 /\ t[Len(s) + 1] = x /\ \A i \in 1 .. Len(s) : t[i] = s[i]
  OBVIOUS
<1>2. Len(s) \in Nat
  OBVIOUS
<1>3. ASSUME NEW y \in SeqElements(t) PROVE y \in SeqElements(s) \cup {x}
  BY <1>1, <1>2, <1>3 DEF SeqElements
<1>4. ASSUME NEW y \in SeqElements(s) \cup {x} PROVE y \in SeqElements(t)
  <2>1. CASE y = x
    <3>1. Len(s) + 1 \in 1 .. Len(t)
      BY <1>1, <1>2
    <3>2. QED
      BY <2>1, <3>1, <1>1 DEF SeqElements
  <2>2. CASE y \in SeqElements(s)
    BY <2>2, <1>1, <1>2 DEF SeqElements
  <2>3. QED
    BY <1>4, <2>1, <2>2
<1>5. QED
  BY <1>3, <1>4

\* A node whose in-degree is zero has no pending edge.
LEMMA NothingPending ==
  ASSUME graph \in Graphs, Counted, NEW n \in graph.nodes, indegree[n] = 0
  PROVE  Pending(n) = {}
<1>1. IsFiniteSet(graph.edges)
  BY ShapeAssumption DEF GraphShape
<1>2. IsFiniteSet(Pending(n))
  <2>1. Pending(n) \subseteq graph.edges
    BY DEF Pending, Into
  <2>2. QED
    BY <1>1, <2>1, FS_Subset
<1>3. Cardinality(Pending(n)) = 0
  BY DEF Counted
<1>4. QED
  BY <1>2, <1>3, FS_EmptySet

\* The invariant holds at the start.
LEMMA SortInit == Init => SortInv
<1> SUFFICES ASSUME Init PROVE SortInv
  OBVIOUS
<1>1. graph \in Graphs /\ ordered = <<>>
  BY DEF Init
<1>2. Len(ordered) = 0 /\ Taken = {} /\ ordered \in Seq(graph.nodes)
  BY <1>1 DEF Taken, SeqElements
<1>3. \A n \in graph.nodes : Pending(n) = Into(graph, n)
  BY <1>2 DEF Pending
<1>4. Counted
  BY <1>3 DEF Counted, Init
<1>5. SourcesFirst /\ TakenOnce
  BY <1>2 DEF SourcesFirst, TakenOnce
<1>6. AllReady
  BY DEF AllReady, Init
<1>7. QED
  BY <1>1, <1>2, <1>4, <1>5, <1>6 DEF SortInv, Init

\* Taking a node keeps the invariant.
LEMMA SortTake == SortInv /\ Take => SortInv'
<1> SUFFICES ASSUME SortInv, Take PROVE SortInv'
  OBVIOUS
<1>1. PICK c \in ready : /\ ordered' = Append(ordered, c)
                         /\ indegree' = Decrease(c)
                         /\ ready' = (ready \ {c}) \cup NewlyReady(c)
                         /\ graph' = graph
  BY DEF Take
<1>2. /\ graph \in Graphs /\ ordered \in Seq(graph.nodes) /\ Counted
      /\ ready \subseteq graph.nodes \ Taken
      /\ \A n \in ready : indegree[n] = 0
      /\ AllReady /\ SourcesFirst /\ TakenOnce
  BY DEF SortInv
<1>3. c \in graph.nodes /\ c \notin Taken /\ indegree[c] = 0
  BY <1>1, <1>2
<1>4. Pending(c) = {}
  BY <1>2, <1>3, NothingPending
<1>5. ordered' \in Seq(graph.nodes) /\ Taken' = Taken \cup {c}
  BY <1>1, <1>2, <1>3, AppendElements DEF Taken
<1>6. /\ Len(ordered) \in Nat /\ Len(ordered') = Len(ordered) + 1
      /\ ordered'[Len(ordered) + 1] = c
      /\ \A i \in 1 .. Len(ordered) : ordered'[i] = ordered[i]
  BY <1>1, <1>2
<1>7. IsFiniteSet(graph.edges)
  BY <1>2, ShapeAssumption DEF GraphShape
<1>8. Counted'
  <2> SUFFICES ASSUME NEW n \in graph.nodes
               PROVE  indegree'[n] = Cardinality(Pending(n)')
    BY <1>1 DEF Counted
  <2> DEFINE B == EdgesBetween(graph, c, n)
  <2>1. B \subseteq Pending(n)
    BY <1>3 DEF EdgesBetween, Pending, Into
  <2>2. Pending(n)' = Pending(n) \ B
    BY <1>1, <1>5 DEF Pending, EdgesBetween, Into
  <2>3. IsFiniteSet(Pending(n))
    <3>1. Pending(n) \subseteq graph.edges
      BY DEF Pending, Into
    <3>2. QED
      BY <1>7, <3>1, FS_Subset
  <2>4. Cardinality(Pending(n) \ B) = Cardinality(Pending(n)) - Cardinality(Pending(n) \cap B)
    BY <2>3, FS_Difference
  <2>5. Pending(n) \cap B = B
    BY <2>1
  <2>6. indegree'[n] = indegree[n] - Cardinality(B)
    BY <1>1 DEF Decrease
  <2>7. QED
    BY <2>2, <2>4, <2>5, <2>6, <1>2 DEF Counted
<1>9. \A n \in ready' : n \in graph.nodes /\ indegree'[n] = 0
  <2> SUFFICES ASSUME NEW n \in ready' PROVE n \in graph.nodes /\ indegree'[n] = 0
    OBVIOUS
  <2>1. CASE n \in NewlyReady(c)
    <3>1. n \in graph.nodes
      BY <2>1, <1>2, ShapeAssumption DEF NewlyReady, Targets, OutOf, GraphShape
    <3>2. QED
      BY <2>1, <3>1, <1>1 DEF NewlyReady
  <2>2. CASE n \in ready
    <3>1. n \in graph.nodes /\ indegree[n] = 0
      BY <2>2, <1>2
    <3>2. Pending(n) = {}
      BY <1>2, <3>1, NothingPending
    <3>3. EdgesBetween(graph, c, n) = {}
      BY <3>2, <1>3 DEF EdgesBetween, Pending, Into
    <3>4. indegree'[n] = indegree[n] - Cardinality(EdgesBetween(graph, c, n))
      BY <1>1, <3>1 DEF Decrease
    <3>5. QED
      BY <3>1, <3>3, <3>4, FS_EmptySet
  <2>3. QED
    BY <2>1, <2>2, <1>1
<1>10. ready' \cap Taken' = {}
  <2> SUFFICES ASSUME NEW n \in ready', n \in Taken' PROVE FALSE
    OBVIOUS
  <2>1. CASE n \in ready \ {c}
    BY <2>1, <1>2, <1>5
  <2>2. CASE n \in NewlyReady(c)
    <3>1. PICK e \in graph.edges : e.src = c /\ e.tgt = n
      BY <2>2 DEF NewlyReady, Targets, OutOf
    <3>2. CASE n = c
      <4>1. e \in Pending(c)
        BY <3>1, <3>2, <1>3 DEF Pending, Into
      <4>2. QED
        BY <4>1, <1>4
    <3>3. CASE n \in Taken
      <4>1. PICK j \in 1 .. Len(ordered) : n = ordered[j]
        BY <3>3 DEF Taken, SeqElements
      <4>2. e \in Into(graph, ordered[j])
        BY <3>1, <4>1 DEF Into
      <4>3. PICK i \in 1 .. j - 1 : ordered[i] = c
        BY <4>1, <4>2, <3>1, <1>2 DEF SourcesFirst
      <4>4. c \in Taken
        BY <4>3, <4>1, <1>6 DEF Taken, SeqElements
      <4>5. QED
        BY <4>4, <1>3
    <3>4. QED
      BY <3>2, <3>3, <1>5
  <2>3. QED
    BY <2>1, <2>2, <1>1
<1>11. SourcesFirst'
  <2> SUFFICES ASSUME NEW j \in 1 .. Len(ordered'), NEW e \in Into(graph, ordered'[j])
               PROVE  \E i \in 1 .. j - 1 : ordered'[i] = e.src
    BY <1>1 DEF SourcesFirst
  <2>1. CASE j \in 1 .. Len(ordered)
    <3>1. PICK i \in 1 .. j - 1 : ordered[i] = e.src
      BY <2>1, <1>2, <1>6 DEF SourcesFirst
    <3>2. QED
      BY <3>1, <2>1, <1>6
  <2>2. CASE j = Len(ordered) + 1
    <3>1. e \in Into(graph, c)
      BY <2>2, <1>6
    <3>2. e.src \in Taken
      BY <3>1, <1>4 DEF Pending
    <3>3. PICK i \in 1 .. Len(ordered) : ordered[i] = e.src
      BY <3>2 DEF Taken, SeqElements
    <3>4. QED
      BY <3>3, <2>2, <1>6
  <2>3. QED
    BY <2>1, <2>2, <1>6
<1>12. TakenOnce'
  <2> SUFFICES ASSUME NEW i \in 1 .. Len(ordered'), NEW j \in 1 .. Len(ordered'), i < j
               PROVE  ordered'[i] # ordered'[j]
    BY <1>6 DEF TakenOnce
  <2>1. CASE j \in 1 .. Len(ordered)
    BY <2>1, <1>2, <1>6 DEF TakenOnce
  <2>2. CASE j = Len(ordered) + 1
    <3>1. i \in 1 .. Len(ordered) /\ ordered'[i] = ordered[i]
      BY <2>2, <1>6
    <3>2. ordered[i] \in Taken
      BY <3>1 DEF Taken, SeqElements
    <3>3. QED
      BY <3>1, <3>2, <2>2, <1>3, <1>6
  <2>3. QED
    BY <2>1, <2>2, <1>6
<1>13. indegree' = [n \in graph.nodes |-> indegree'[n]]
  BY <1>1 DEF Decrease
<1>14. AllReady'
  <2> SUFFICES ASSUME NEW n \in graph.nodes \ Taken', indegree'[n] = 0 PROVE n \in ready'
    BY <1>1 DEF AllReady
  <2>1. n # c /\ n \notin Taken
    BY <1>5
  <2>2. CASE n \in Targets(graph, c)
    BY <2>2, <1>1 DEF NewlyReady
  <2>3. CASE n \notin Targets(graph, c)
    <3>1. EdgesBetween(graph, c, n) = {}
      BY <2>3 DEF EdgesBetween, Targets, OutOf
    <3>2. indegree'[n] = indegree[n] - Cardinality(EdgesBetween(graph, c, n))
      BY <1>1 DEF Decrease
    <3>3. indegree[n] \in Int
      <4>1. Pending(n) \subseteq graph.edges
        BY DEF Pending, Into
      <4>2. IsFiniteSet(Pending(n)) /\ indegree[n] = Cardinality(Pending(n))
        BY <1>2, <1>7, <4>1, FS_Subset DEF Counted
      <4>3. QED
        BY <4>2, FS_CardinalityType
    <3>4. indegree[n] = 0
      BY <3>1, <3>2, <3>3, FS_EmptySet
    <3>5. QED
      BY <3>4, <2>1, <1>1, <1>2 DEF AllReady
  <2>4. QED
    BY <2>2, <2>3
<1>15. QED
  BY <1>1, <1>2, <1>5, <1>8, <1>9, <1>10, <1>11, <1>12, <1>13, <1>14 DEF SortInv

\* The end of the loop keeps it.
LEMMA SortStays == SortInv /\ UNCHANGED vars => SortInv'
<1> SUFFICES ASSUME SortInv, UNCHANGED vars PROVE SortInv'
  OBVIOUS
<1>1. graph' = graph /\ indegree' = indegree /\ ready' = ready /\ ordered' = ordered
  BY DEF vars
<1>2. Taken' = Taken /\ \A n : Pending(n)' = Pending(n)
  BY <1>1 DEF Taken, Pending
<1>3. Counted'
  BY <1>1, <1>2 DEF SortInv, Counted
<1>4. SourcesFirst' /\ TakenOnce' /\ AllReady'
  BY <1>1, <1>2 DEF SortInv, SourcesFirst, TakenOnce, AllReady
<1>5. QED
  BY <1>1, <1>2, <1>3, <1>4 DEF SortInv

\* The loop leaves every graph in an order with all sources first (validate_definition's
\* return value, which WorkflowExecutor.execute walks), and takes no node twice.
THEOREM SortedSourcesFirst == Spec => [](SourcesFirst /\ TakenOnce)
<1>1. SortInv /\ [Next]_vars => SortInv'
  BY SortStays, SortTake DEF Next, Stop
<1>2. SortInv => SourcesFirst /\ TakenOnce
  BY DEF SortInv
<1>3. QED
  BY SortInit, <1>1, <1>2, PTL DEF Spec

-----------------------------------------------------------------------------
(***************************************************************************)
(* The end of the loop tells exactly the graphs with a cycle: if it has    *)
(* taken every node, what a node reaches comes after it; if not, each node *)
(* left has a source that is left as well, so that sources of sources come *)
(* round to a node again.                                                  *)
(***************************************************************************)
\* What a node reaches contains its targets, their targets, and so on.
LEMMA ReachIsClosed ==
  ASSUME NEW g, GraphShape(g), NEW n \in g.nodes
  PROVE  /\ \A m \in Targets(g, n) : m \in Reach(g, n)
         /\ \A m \in Reach(g, n) : \A k \in Reach(g, m) : k \in Reach(g, n)
<1>1. \A m \in Targets(g, n) : m \in g.nodes
  BY DEF Targets, OutOf, GraphShape
<1>2. \A m \in Targets(g, n) : m \in Reach(g, n)
  BY <1>1 DEF Reach, ClosedFrom
<1>3. ASSUME NEW m \in Reach(g, n), NEW k \in Reach(g, m) PROVE k \in Reach(g, n)
  <2>1. k \in g.nodes
    BY DEF Reach
  <2>2. ASSUME NEW S \in SUBSET g.nodes, ClosedFrom(g, n, S) PROVE k \in S
    <3>1. m \in S
      BY <2>2 DEF Reach
    <3>2. ClosedFrom(g, m, S)
      BY <2>2, <3>1 DEF ClosedFrom
    <3>3. QED
      BY <3>2 DEF Reach
  <2>3. QED
    BY <2>1, <2>2 DEF Reach
<1>4. QED
  BY <1>2, <1>3

\* A graph whose nodes are all taken has no cycle.
LEMMA SortedIsAcyclic ==
  ASSUME SortInv, Taken = graph.nodes
  PROVE  Acyclic(graph)
<1> SUFFICES ASSUME NEW n \in graph.nodes, n \in Reach(graph, n) PROVE FALSE
  BY DEF Acyclic
<1>1. SourcesFirst /\ TakenOnce /\ Len(ordered) \in Nat /\ GraphShape(graph)
  BY ShapeAssumption DEF SortInv
<1>2. PICK j \in 1 .. Len(ordered) : ordered[j] = n
  BY DEF Taken, SeqElements
<1> DEFINE After(i) == {ordered[k] : k \in i + 1 .. Len(ordered)}
<1>3. ASSUME NEW i \in 1 .. Len(ordered), NEW m \in Targets(graph, ordered[i])
      PROVE  m \in After(i)
  <2>1. PICK e \in graph.edges : e.src = ordered[i] /\ e.tgt = m
    BY DEF Targets, OutOf
  <2>2. m \in graph.nodes
    BY <1>1, <2>1 DEF GraphShape
  <2>3. PICK q \in 1 .. Len(ordered) : ordered[q] = m
    BY <2>2 DEF Taken, SeqElements
  <2>4. e \in Into(graph, ordered[q])
    BY <2>1, <2>3 DEF Into
  <2>5. PICK p \in 1 .. q - 1 : ordered[p] = ordered[i]
    BY <1>1, <2>1, <2>3, <2>4 DEF SourcesFirst
  <2>6. p = i
    BY <1>1, <2>3, <2>5 DEF TakenOnce
  <2>7. q \in i + 1 .. Len(ordered)
    BY <1>1, <2>3, <2>5, <2>6
  <2>8. QED
    BY <2>3, <2>7
<1>4. ClosedFrom(graph, n, After(j))
  <2>1. Targets(graph, n) \subseteq After(j)
    BY <1>2, <1>3
  <2>2. ASSUME NEW m \in After(j) PROVE Targets(graph, m) \subseteq After(j)
    <3>1. PICK i \in j + 1 .. Len(ordered) : ordered[i] = m
      OBVIOUS
    <3>2. i \in 1 .. Len(ordered) /\ After(i) \subseteq After(j)
      BY <1>1, <1>2, <3>1
    <3>3. QED
      BY <1>3, <3>1, <3>2
  <2>3. QED
    BY <2>1, <2>2 DEF ClosedFrom
<1>5. After(j) \subseteq graph.nodes
  BY <1>1, <1>2 DEF Taken, SeqElements
<1>6. n \in After(j)
  BY <1>4, <1>5 DEF Reach
<1>7. PICK i \in j + 1 .. Len(ordered) : ordered[i] = n
  BY <1>6
<1>8. QED
  BY <1>1, <1>2, <1>7 DEF TakenOnce

\* When nothing is ready, a node that is left has a source that is left.
LEMMA LeftHasSource ==
  ASSUME SortInv, ready = {}, NEW n \in graph.nodes \ Taken
  PROVE  \E s \in graph.nodes \ Taken : n \in Targets(graph, s)
<1>1. graph \in Graphs /\ Counted /\ AllReady /\ GraphShape(graph)
  BY ShapeAssumption DEF SortInv
<1>2. indegree[n] # 0
  BY <1>1 DEF AllReady
<1>3. Pending(n) # {}
  BY <1>1, <1>2, FS_EmptySet DEF Counted
<1>4. PICK e \in graph.edges : e.tgt = n /\ e.src \notin Taken
  BY <1>3 DEF Pending, Into
<1>5. e.src \in graph.nodes
  BY <1>1, <1>4 DEF GraphShape
<1>6. QED
  BY <1>4, <1>5 DEF Targets, OutOf

\* Nodes that are left mean a cycle: among the sets of nodes from which one that is left is
\* reached, a least one would be greater than that of its source.
LEMMA LeftIsCyclic ==
  ASSUME SortInv, ready = {}, Taken # graph.nodes
  PROVE  ~Acyclic(graph)
<1> SUFFICES ASSUME Acyclic(graph) PROVE FALSE
  OBVIOUS
<1>1. GraphShape(graph) /\ IsFiniteSet(graph.nodes) /\ Taken \subseteq graph.nodes
  BY ShapeAssumption DEF SortInv, GraphShape, Taken, SeqElements
<1> DEFINE Left == graph.nodes \ Taken
           Before(n) == {m \in graph.nodes : n \in Reach(graph, m)}
           Sets == {Before(n) : n \in Left}
<1>2. Sets # {} /\ Sets \subseteq FiniteSubsetsOf(graph.nodes)
  <2>1. FiniteSubsetsOf(graph.nodes) = SUBSET graph.nodes
    BY <1>1, FS_FiniteSubsetsOfFinite
  <2>2. Left # {}
    BY <1>1
  <2>3. \A n : Before(n) \in SUBSET graph.nodes
    OBVIOUS
  <2> HIDE DEF Before, Left
  <2>4. Sets # {} /\ \A B \in Sets : B \in SUBSET graph.nodes
    BY <2>2, <2>3
  <2>5. QED
    BY <2>1, <2>4
<1>3. PICK A \in Sets : \A B \in Sets : <<B, A>> \notin StrictSubsetOrdering(graph.nodes)
  <2> HIDE DEF Sets
  <2>1. IsWellFoundedOn(StrictSubsetOrdering(graph.nodes), FiniteSubsetsOf(graph.nodes))
    BY FS_StrictSubsetOrderingWellFounded
  <2>2. QED
    BY <1>2, <2>1, WFMin
<1>4. PICK n \in Left : A = Before(n)
  OBVIOUS
<1>5. PICK s \in Left : n \in Targets(graph, s)
  BY <1>4, LeftHasSource
<1>6. n \in Reach(graph, s)
  BY <1>1, <1>5, ReachIsClosed
<1>7. Before(s) \subseteq Before(n)
  BY <1>1, <1>6, ReachIsClosed
<1>8. s \in Before(n) /\ s \notin Before(s)
  BY <1>6 DEF Acyclic
<1>9. <<Before(s), Before(n)>> \in StrictSubsetOrdering(graph.nodes)
  BY <1>7, <1>8 DEF StrictSubsetOrdering
<1>10. QED
  BY <1>3, <1>4, <1>9

\* As many nodes are in the list as have been taken.
LEMMA TakenCount ==
  ASSUME SortInv
  PROVE  Len(ordered) = Cardinality(graph.nodes) <=> Taken = graph.nodes
<1>1. /\ ordered \in Seq(graph.nodes) /\ Len(ordered) \in Nat /\ TakenOnce
      /\ IsFiniteSet(graph.nodes)
  BY ShapeAssumption DEF SortInv, GraphShape
<1>2. Taken \subseteq graph.nodes
  BY <1>1 DEF Taken, SeqElements
<1>3. ordered \in Bijection(1 .. Len(ordered), Taken)
  <2>1. ordered \in [1 .. Len(ordered) -> Taken]
    BY <1>1 DEF Taken, SeqElements
  <2>2. \A i, j \in 1 .. Len(ordered) : ordered[i] = ordered[j] => i = j
    BY <1>1 DEF TakenOnce
  <2>3. \A n \in Taken : \E i \in 1 .. Len(ordered) : ordered[i] = n
    BY DEF Taken, SeqElements
  <2>4. QED
    BY <2>1, <2>2, <2>3 DEF Bijection, Injection, IsInjective, Surjection
<1>4. IsFiniteSet(1 .. Len(ordered)) /\ Cardinality(1 .. Len(ordered)) = Len(ordered)
  <2>1. \A n \in Nat : IsFiniteSet(1 .. n) /\ Cardinality(1 .. n) = n
    BY FS_Interval
  <2>2. QED
    BY <1>1, <2>1
<1>5. Cardinality(Taken) = Len(ordered)
  BY <1>3, <1>4, FS_Bijection DEF ExistsBijection
<1>6. Cardinality(graph.nodes) = Cardinality(Taken) => graph.nodes = Taken
  BY <1>1, <1>2, FS_Subset
<1>7. QED
  BY <1>5, <1>6

LEMMA SortFindsCycles == SortInv => CycleFound
<1>1. ASSUME SortInv, ready = {}
      PROVE  Len(ordered) = Cardinality(graph.nodes) <=> Acyclic(graph)
  BY <1>1, TakenCount, SortedIsAcyclic, LeftIsCyclic
<1>2. QED
  BY <1>1 DEF CycleFound

\* For graphs of any size, with parallel edges and loops: the sort leaves nodes over exactly
\* if some node reaches itself (WORKFLOW_GRAPH_CYCLE in validate_definition).
THEOREM SortTellsCycles == Spec => []CycleFound
<1>1. SortInv /\ [Next]_vars => SortInv'
  BY SortStays, SortTake DEF Next, Stop
<1>2. QED
  BY SortInit, <1>1, SortFindsCycles, PTL DEF Spec
===============================================================================
