---------------------------- MODULE WorkflowGraph ----------------------------
(***************************************************************************)
(* The graph of a workflow definition and what validate_definition         *)
(* (agent/workflows/catalog.py) accepts and returns.  Node ids are numbers *)
(* so that they sort; a graph is a record                                  *)
(*   nodes    1 .. n                                                       *)
(*   kind     node -> kind ("status" is a condition with check_mode status)*)
(*   edges    set of [src, tgt, branch]                                    *)
(*   watch    status node -> the node whose status it checks               *)
(*   attempts node -> max_attempts: of the retry a status node makes, of   *)
(*            the retry_policy of a query, 1 for every other node          *)
(***************************************************************************)
EXTENDS Integers, Sequences, FiniteSets

CONSTANT Graphs     \* the definitions that reach validate_definition, cyclic ones too

GraphShape(g) ==
    /\ g.nodes \subseteq Int /\ IsFiniteSet(g.nodes) /\ IsFiniteSet(g.edges)
    /\ \A e \in g.edges : e.src \in g.nodes /\ e.tgt \in g.nodes

ASSUME ShapeAssumption == \A g \in Graphs : GraphShape(g)

\* "pure" stands for llm_transform and template, "action" for mcp_action and the mail, QQ
\* and Weixin notifications.
Kinds == {"trigger", "query", "pure", "action", "condition", "status"}
Branches == {"none", "true", "false"}
IsCondition(g, n) == g.kind[n] \in {"condition", "status"}

Into(g, n) == {e \in g.edges : e.tgt = n}
OutOf(g, n) == {e \in g.edges : e.src = n}
Targets(g, n) == {e.tgt : e \in OutOf(g, n)}
Sources(g, n) == {e.src : e \in Into(g, n)}

StatusNodes(g) == {n \in g.nodes : g.kind[n] = "status"}

\* The nodes some status condition looks at (status_controllers of the executor).
Controlled(g) == {g.watch[n] : n \in StatusNodes(g)}

SeqElements(s) == {s[i] : i \in 1 .. Len(s)}

\* Edges leave a condition once per branch, and no other node has branches.
BranchesValid(g) ==
    \A n \in g.nodes :
        IF IsCondition(g, n)
        THEN /\ {e.branch : e \in OutOf(g, n)} = {"true", "false"}
             /\ Cardinality(OutOf(g, n)) = 2
        ELSE \A e \in OutOf(g, n) : e.branch = "none"

\* A status condition checks a direct upstream node; what it retries has no side effect and
\* flows only into it.
StatusValid(g) ==
    \A n \in StatusNodes(g) :
        /\ g.watch[n] \in Sources(g, n)
        /\ g.attempts[n] \in 1 .. 5
        /\ g.attempts[n] > 1 => /\ g.kind[g.watch[n]] \in {"query", "pure"}
                                /\ Targets(g, g.watch[n]) = {n}

\* What is checked before the nodes are sorted.
WellFormed(g) ==
    /\ Cardinality({n \in g.nodes : g.kind[n] = "trigger"}) = 1
    /\ \A n \in g.nodes : g.kind[n] # "trigger" => Into(g, n) # {}
    /\ BranchesValid(g)
    /\ StatusValid(g)
=============================================================================
