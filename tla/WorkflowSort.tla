----------------------------- MODULE WorkflowSort -----------------------------
(***************************************************************************)
(* The loop at the end of validate_definition (agent/workflows/catalog.py) *)
(* that sorts the nodes of a definition with in-degrees and finds out      *)
(* about cycles.  The ready list is kept sorted, so it is modelled as a    *)
(* set whose least element is taken.                                       *)
(***************************************************************************)
EXTENDS WorkflowGraph

VARIABLES
    graph,
    indegree,   \* node -> edges into it whose source is not ordered yet
    ready,      \* the ready list
    ordered     \* the nodes taken so far

vars == <<graph, indegree, ready, ordered>>

Init ==
    /\ graph \in Graphs
    /\ indegree = [n \in graph.nodes |-> Cardinality(Into(graph, n))]
    /\ ready = {n \in graph.nodes : indegree[n] = 0}
    /\ ordered = <<>>

EdgesBetween(g, s, t) == {e \in g.edges : e.src = s /\ e.tgt = t}

\* Mutant: a target is counted once even if both branches of a condition lead to it.
DecreaseOnce(c) ==
    [n \in graph.nodes |-> indegree[n] - IF n \in Targets(graph, c) THEN 1 ELSE 0]

Decrease(c) ==
    [n \in graph.nodes |-> indegree[n] - Cardinality(EdgesBetween(graph, c, n))]

\* Mutant: a node becomes ready as soon as its in-degree has been decreased.
ReadyAtOnce(c) == {n \in Targets(graph, c) : n \notin SeqElements(ordered)}

NewlyReady(c) == {n \in Targets(graph, c) : Decrease(c)[n] = 0}

Take ==
    \E c \in ready :
        /\ \A k \in ready : c <= k
        /\ ordered' = Append(ordered, c)
        /\ indegree' = Decrease(c)
        /\ ready' = (ready \ {c}) \cup NewlyReady(c)
        /\ UNCHANGED graph

Stop == ready = {} /\ UNCHANGED vars

Next == Take \/ Stop

Spec == Init /\ [][Next]_vars

-----------------------------------------------------------------------------
\* Reference definition of a cycle: some node reaches itself along the edges.  What a node
\* reaches is the least set with its targets and the targets of every element.
ClosedFrom(g, n, S) == Targets(g, n) \subseteq S /\ \A m \in S : Targets(g, m) \subseteq S
Reach(g, n) == {m \in g.nodes : \A S \in SUBSET g.nodes : ClosedFrom(g, n, S) => m \in S}
Acyclic(g) == \A n \in g.nodes : n \notin Reach(g, n)

\* A node is only taken after the sources of all edges into it, so the executor never reads an
\* output that a later node produces.
SourcesFirst ==
    \A j \in 1 .. Len(ordered) : \A e \in Into(graph, ordered[j]) :
        \E i \in 1 .. j - 1 : ordered[i] = e.src

\* No node is taken twice.
TakenOnce == \A i, j \in 1 .. Len(ordered) : i # j => ordered[i] # ordered[j]

\* WORKFLOW_GRAPH_CYCLE is raised for exactly the graphs with a cycle.
CycleFound == ready = {} => (Len(ordered) = Cardinality(graph.nodes) <=> Acyclic(graph))
===============================================================================
