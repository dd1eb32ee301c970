------------------------- MODULE MCWorkflowExecution -------------------------
(* Small workflow definitions for TLC. *)
EXTENDS WorkflowExecution

Edge(s, t) == [src |-> s, tgt |-> t, branch |-> "none"]
If(s, t) == [src |-> s, tgt |-> t, branch |-> "true"]
Else(s, t) == [src |-> s, tgt |-> t, branch |-> "false"]

\* A definition of the nodes 1 .. Len(kind); none of them watches or retries.
Definition(kind, edges) ==
    [nodes |-> DOMAIN kind, kind |-> kind, edges |-> edges,
     watch |-> [n \in DOMAIN kind |-> 1], attempts |-> [n \in DOMAIN kind |-> 1]]

\* trigger, query with retries, action
Chain == [Definition(<<"trigger", "query", "action">>, {Edge(1, 2), Edge(2, 3)})
          EXCEPT !.attempts[2] = 3]

\* two branches that join again
Diamond == Definition(<<"trigger", "pure", "action", "action">>,
                      {Edge(1, 2), Edge(1, 3), Edge(2, 4), Edge(3, 4)})

\* a value condition with an action in each branch, one of them followed by a message
Choice == Definition(<<"trigger", "condition", "action", "action", "pure">>,
                     {Edge(1, 2), If(2, 3), Else(2, 4), Edge(3, 5)})

\* a query retried by a status condition, with a fallback
Guarded == [Definition(<<"trigger", "query", "status", "action", "action">>,
                       {Edge(1, 2), Edge(2, 3), If(3, 4), Else(3, 5)})
            EXCEPT !.watch[3] = 2, !.attempts[3] = 3, !.attempts[2] = 2]

\* such a query in a branch of a value condition: it is retried also if the other branch is taken
Branched == [Definition(<<"trigger", "condition", "query", "status", "action", "action">>,
                        {Edge(1, 2), If(2, 3), Else(2, 6), Edge(3, 4), If(4, 5), Else(4, 6)})
             EXCEPT !.watch[4] = 3, !.attempts[4] = 2]

\* a status condition that only looks at an action
Watched == [Definition(<<"trigger", "action", "status", "action", "pure">>,
                       {Edge(1, 2), Edge(2, 3), If(3, 4), Else(3, 5)})
            EXCEPT !.watch[3] = 2]

\* Every graph of three nodes, also the cyclic ones, and every one whose first node is a
\* condition: both of its branches may lead to the same node.
Three == 1 .. 3
Plain(pairs) == Definition(<<"trigger", "pure", "query">>, {Edge(p[1], p[2]) : p \in pairs})
Branching(yes, no, pairs) ==
    [Plain(pairs) EXCEPT !.kind[1] = "condition", !.edges = @ \cup {If(1, yes), Else(1, no)}]
ThreeNodes ==
    {Plain(pairs) : pairs \in SUBSET (Three \X Three)}
    \cup {Branching(yes, no, pairs) :
             yes \in Three, no \in Three, pairs \in SUBSET ({2, 3} \X Three)}

Definitions == {Chain, Diamond, Choice, Guarded, Branched, Watched} \cup ThreeNodes
==============================================================================
