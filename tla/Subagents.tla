------------------------------ MODULE Subagents ------------------------------
(***************************************************************************)
(* BoundedSubagentCoordinator.run_batch and its child threads.  A parent   *)
(* turn hands a batch of tasks to a pool and polls until each task has an  *)
(* answer: the child's own result, "timed_out", or "cancelled" with the    *)
(* turn.  A child that has been given up keeps its thread and its lease of *)
(* the workspace until its loop looks at its token.  The turns here are    *)
(* those of one actor: they share a workspace and therefore its lane.      *)
(*                                                                         *)
(* There is no clock: a child's timeout may pass at any poll.  A batch     *)
(* that the validation rejects changes nothing and is not a step.          *)
(***************************************************************************)
EXTENDS Naturals, Sequences, SequencesExt

CONSTANTS
    Turn,         \* parent turns of one actor
    Task,
    ModeOf,       \* the workspace mode of each task's profile
    MaxParallel,  \* max_parallel
    MaxTasks,     \* max_tasks_per_call
    MaxBatches,   \* max_batches_per_parent_turn
    MaxChildren,  \* max_subagents_per_parent_turn
    MaxCalls      \* the tool calls that max_tool_iterations leaves a child

ASSUME SubagentsAssumption ==
    /\ IsFiniteSet(Task)
    /\ ModeOf \in [Task -> {"shared_readonly", "shared_exclusive", "worktree"}]
    /\ {MaxParallel, MaxTasks, MaxBatches, MaxChildren} \subseteq Nat \ {0}
    /\ MaxCalls \in Nat

VARIABLES
    batches,  \* the requests of each turn, each a sequence of tasks
    stopped,  \* the parent's cancellation token
    stage,    \* where the child is, from "queued" to "done" or "dropped"
    token,    \* the child's cancellation token
    calls,    \* the tool calls of the child that got past the look at its token
    late,     \* history: the tools that began when the child was given up already
    outcome,  \* what the child's thread ends with
    answer,   \* what run_batch returns for the child
    tree,     \* the child's worktree: "none", "clean", "changed" or "removed"
    readers, writers, waiting

Child == Turn \X (1 .. MaxBatches) \X Task
Exclusive(c) == ModeOf[c[3]] = "shared_exclusive"
InWorktree(c) == ModeOf[c[3]] = "worktree"

INSTANCE WorkspaceLanes WITH Holder <- Child, Writer <- Exclusive

parentVars == <<batches, stopped>>
childVars == <<stage, token, calls, late, outcome, tree>>
laneVars == <<readers, writers, waiting>>
vars == <<parentVars, childVars, answer, laneVars>>

Init ==
    /\ batches = [t \in Turn |-> <<>>]
    /\ stopped = [t \in Turn |-> FALSE]
    /\ stage = [c \in Child |-> "none"]
    /\ token = [c \in Child |-> FALSE]
    /\ calls = [c \in Child |-> 0]
    /\ late = [c \in Child |-> 0]
    /\ outcome = [c \in Child |-> "none"]
    /\ answer = [c \in Child |-> "none"]
    /\ tree = [c \in Child |-> "none"]
    /\ LaneInit

Members(t, b) == {c \in Child : c[1] = t /\ c[2] = b /\ stage[c] # "none"}
Unanswered(t) == {c \in Child : c[1] = t /\ stage[c] # "none" /\ answer[c] = "none"}
InBatch(t) == Unanswered(t) # {}

\* A child is in a tool call, has a lease, has a thread; its batch has answered without it.
InCall(c) == stage[c] \in {"checked", "tool"}
HasLease(c) == stage[c] \in {"tree", "loop", "leaving"} \/ InCall(c)
Started(c) == stage[c] = "lane" \/ HasLease(c)
GivenUp(c) == answer[c] \in {"cancelled", "timed_out"}

(***************************************************************************)
(* The parent turn.                                                        *)
(***************************************************************************)

ChildCount(t) == Cardinality({c \in Child : c[1] = t /\ stage[c] # "none"})

\* _validate_request; a child has no coordinator, so only parents ask.
Accepts(t, request) ==
    /\ Len(batches[t]) < MaxBatches
    /\ Len(request) \in 1 .. MaxTasks
    /\ ChildCount(t) + Len(request) <= MaxChildren
    /\ IsInjective(request)

\* run_batch up to the executor: each child of the batch is submitted, in order.
Delegate(t, request) ==
    /\ ~InBatch(t) /\ ~stopped[t]
    /\ Accepts(t, request)
    /\ batches' = [batches EXCEPT ![t] = Append(@, request)]
    /\ stage' = [c \in Child |->
                    IF c[1] = t /\ c[2] = Len(batches[t]) + 1 /\ Contains(request, c[3])
                    THEN "queued" ELSE stage[c]]
    /\ UNCHANGED <<stopped, token, calls, late, outcome, tree, answer, laneVars>>

Stop(t) ==
    /\ ~stopped[t]
    /\ stopped' = [stopped EXCEPT ![t] = TRUE]
    /\ UNCHANGED <<batches, childVars, answer, laneVars>>

\* Mutant: the children are answered for, and not told.
GiveUpSilently(tokens, unfinished, status) ==
    /\ answer' = [c \in Child |-> IF c \in unfinished THEN status ELSE answer[c]]
    /\ UNCHANGED <<parentVars, childVars, laneVars>>

\* What the coordinator does with children it gives up: each token is set, and a
\* future that no thread has taken is cancelled.
GiveUp(tokens, unfinished, status) ==
    /\ token' = [c \in Child |-> token[c] \/ c \in tokens]
    /\ stage' = [c \in Child |-> IF c \in unfinished /\ stage[c] = "queued"
                                 THEN "dropped" ELSE stage[c]]
    /\ answer' = [c \in Child |-> IF c \in unfinished THEN status ELSE answer[c]]
    /\ UNCHANGED <<parentVars, calls, late, outcome, tree, laneVars>>

\* The three things a poll of run_batch may find: the parent was stopped, ...
PollCancelled(t) ==
    /\ InBatch(t) /\ stopped[t]
    /\ GiveUp(Members(t, Len(batches[t])), Unanswered(t), "cancelled")

\* Mutant: the time of a child that still waits for a thread or the lane does not count.
PollTimeoutOfRunning(c) ==
    /\ answer[c] = "none" /\ HasLease(c)
    /\ GiveUp({c}, {c}, "timed_out")
\* Mutant: children that have their answer time out too.
PollTimeoutOfAnswered(c) ==
    /\ stage[c] # "none" /\ answer[c] # "timed_out" /\ InBatch(c[1])
    /\ GiveUp({c}, {c}, "timed_out")
\* ... a child, even a finished one, is out of time, ...
PollTimeout(c) ==
    /\ answer[c] = "none" /\ stage[c] # "none"
    /\ GiveUp({c}, {c}, "timed_out")

\* ... or a child is done.
Collect(c) ==
    /\ answer[c] = "none" /\ stage[c] = "done"
    /\ answer' = [answer EXCEPT ![c] = outcome[c]]
    /\ UNCHANGED <<parentVars, childVars, laneVars>>

(***************************************************************************)
(* The children.                                                           *)
(***************************************************************************)

\* The pool has one thread for each task, MaxParallel at most, and takes the tasks in
\* their order.
NextQueued(t, b) ==
    LET queued == SelectSeq(batches[t][b], LAMBDA k : stage[<<t, b, k>>] = "queued")
    IN  {<<t, b, k>> : k \in IF queued = <<>> THEN {} ELSE {Head(queued)}}

StartChild(c) ==
    /\ stage[c] = "queued"
    /\ c \in NextQueued(c[1], c[2])
    /\ Cardinality({d \in Members(c[1], c[2]) : Started(d)}) < MaxParallel
    /\ stage' = [stage EXCEPT ![c] = "lane"]
    /\ token' = [token EXCEPT ![c] = @ \/ stopped[c[1]]]
    /\ Arrive(c)
    /\ UNCHANGED <<parentVars, calls, late, outcome, tree, answer>>

AcquireLane(c) ==
    /\ stage[c] = "lane"
    /\ stage' = [stage EXCEPT ![c] = IF InWorktree(c) THEN "tree" ELSE "loop"]
    /\ Enter(c)
    /\ UNCHANGED <<parentVars, token, calls, late, outcome, tree, answer>>

\* Mutant: the lane stays taken when Git fails.
CreateWorktreeLeaking(c) ==
    /\ stage[c] = "tree"
    /\ \/ /\ tree' = [tree EXCEPT ![c] = "clean"]
          /\ stage' = [stage EXCEPT ![c] = "loop"]
          /\ UNCHANGED <<outcome, laneVars>>
       \/ /\ stage' = [stage EXCEPT ![c] = "done"]
          /\ outcome' = [outcome EXCEPT ![c] = "failed"]
          /\ UNCHANGED <<tree, laneVars>>
    /\ UNCHANGED <<parentVars, token, calls, late, answer>>

CreateWorktree(c) ==
    /\ stage[c] = "tree"
    /\ \/ /\ tree' = [tree EXCEPT ![c] = "clean"]
          /\ stage' = [stage EXCEPT ![c] = "loop"]
          /\ UNCHANGED <<outcome, laneVars>>
       \/ /\ stage' = [stage EXCEPT ![c] = "done"]
          /\ outcome' = [outcome EXCEPT ![c] = "failed"]
          /\ Leave(c)
          /\ UNCHANGED tree
    /\ UNCHANGED <<parentVars, token, calls, late, answer>>

\* The child's AgentLoop looks at its token before each tool call ...
CheckToken(c) ==
    /\ stage[c] = "loop" /\ ~token[c] /\ calls[c] < MaxCalls
    /\ stage' = [stage EXCEPT ![c] = "checked"]
    /\ calls' = [calls EXCEPT ![c] = @ + 1]
    /\ UNCHANGED <<parentVars, token, late, outcome, tree, answer, laneVars>>

\* ... and then at hooks, the policy and a confirmation that may take its time: they refuse
\* the call, or raise, ...
RefuseTool(c) ==
    /\ stage[c] = "checked"
    /\ \/ stage' = [stage EXCEPT ![c] = "loop"] /\ UNCHANGED outcome
       \/ /\ stage' = [stage EXCEPT ![c] = "leaving"]
          /\ outcome' = [outcome EXCEPT ![c] = "failed"]
    /\ UNCHANGED <<parentVars, token, calls, late, tree, answer, laneVars>>
\* ... or let it through, with no further look at the token ...
BeginTool(c) ==
    /\ stage[c] = "checked"
    /\ stage' = [stage EXCEPT ![c] = "tool"]
    /\ late' = IF GivenUp(c) THEN [late EXCEPT ![c] = @ + 1] ELSE late
    /\ UNCHANGED <<parentVars, token, calls, outcome, tree, answer, laneVars>>

\* ... before or in the tool.
EndTool(c) ==
    /\ stage[c] = "tool"
    /\ stage' = [stage EXCEPT ![c] = "loop"]
    /\ tree' \in {tree, [tree EXCEPT ![c] = IF InWorktree(c) THEN "changed" ELSE @]}
    /\ UNCHANGED <<parentVars, token, calls, late, outcome, answer, laneVars>>

\* run_turn returns, also if the token is set after its last look at it, or raises; a
\* worktree that Git cannot summarise is a failure too.
EndLoop(c) ==
    /\ stage[c] = "loop"
    /\ stage' = [stage EXCEPT ![c] = "leaving"]
    /\ \E o \in {"completed", "failed"} \cup (IF token[c] THEN {"cancelled"} ELSE {}) :
          outcome' = [outcome EXCEPT ![c] = o]
    /\ UNCHANGED <<parentVars, token, calls, late, tree, answer, laneVars>>

\* WorkspaceLease.release: an unchanged worktree goes, and the lane is left even when
\* Git fails, which turns whatever the child had into a failure.
Release(c) ==
    /\ stage[c] = "leaving"
    /\ stage' = [stage EXCEPT ![c] = "done"]
    /\ Leave(c)
    /\ \/ /\ tree' = [tree EXCEPT ![c] = IF @ = "clean" THEN "removed" ELSE @]
          /\ UNCHANGED outcome
       \/ /\ InWorktree(c)
          /\ outcome' = [outcome EXCEPT ![c] = "failed"]
          /\ UNCHANGED tree
    /\ UNCHANGED <<parentVars, token, calls, late, answer>>

(***************************************************************************)
(* The specification.                                                      *)
(***************************************************************************)

Request == SetToAllKPermutations(Task)

Coordinate(t) ==
    \/ PollCancelled(t)
    \/ \E c \in Child : c[1] = t /\ (PollTimeout(c) \/ Collect(c))

ChildStep(c) ==
    \/ StartChild(c) \/ AcquireLane(c) \/ CreateWorktree(c)
    \/ CheckToken(c) \/ EndLoop(c) \/ Release(c)
ToolStep(c) == RefuseTool(c) \/ BeginTool(c) \/ EndTool(c)

Next ==
    \/ \E t \in Turn : Stop(t) \/ \E request \in Request : Delegate(t, request)
    \/ \E t \in Turn : Coordinate(t)
    \/ \E c \in Child : ChildStep(c) \/ ToolStep(c)

Spec == Init /\ [][Next]_vars

\* The coordinator polls with a timeout of 50 ms and knows each child's deadline, so it
\* goes on.  A child's thread goes on too, but a tool, or who is to confirm it, may hang.
FairSpec ==
    /\ Spec
    /\ \A t \in Turn : WF_vars(Coordinate(t))
    /\ \A c \in Child : WF_vars(ChildStep(c))

(***************************************************************************)
(* Correctness.                                                            *)
(***************************************************************************)

TypeOK ==
    /\ batches \in [Turn -> Seq(Seq(Task))]
    /\ stopped \in [Turn -> BOOLEAN]
    /\ stage \in [Child -> {"none", "queued", "dropped", "lane", "tree", "loop", "checked",
                            "tool", "leaving", "done"}]
    /\ token \in [Child -> BOOLEAN]
    /\ calls \in [Child -> 0 .. MaxCalls]
    /\ late \in [Child -> Nat]
    /\ outcome \in [Child -> {"none", "completed", "failed", "cancelled"}]
    /\ answer \in [Child -> {"none", "completed", "failed", "cancelled", "timed_out"}]
    /\ tree \in [Child -> {"none", "clean", "changed", "removed"}]
    /\ readers \subseteq Child /\ writers \subseteq Child /\ waiting \subseteq Child

\* A child that works in the shared workspace exclusively works there alone, also beside
\* children that their batch has given up (_WorkspaceLane, WorkspaceManager.acquire).
ExclusiveIsAlone ==
    \A c, d \in Child : HasLease(c) /\ HasLease(d) /\ c # d => ~Exclusive(c)

\* The answers are final, and a child that is reported as completed or failed has given
\* its lease back and will not touch the workspace behind its parent's back; a worktree
\* with changes outlives it (run_batch, WorkspaceLease.release).
AnswersAreFinal ==
    [][\A c \in Child :
         /\ answer[c] # "none" => answer'[c] = answer[c]
         /\ answer[c] \in {"completed", "failed"} => UNCHANGED <<stage[c], tree[c]>>
         /\ tree[c] = "changed" => tree'[c] = "changed"]_vars

\* A child that its batch has given up, with the turn or for its time, gets no thread and passes
\* no further look at its token, so that it begins one more tool at most, whose look it had
\* passed.  It may still take its lease and create its worktree (run_batch, _run_child).
AbandonedBeginsOneTool ==
    [][\A c \in Child : GivenUp(c) =>
         /\ stage'[c] = "lane" => stage[c] = "lane"
         /\ calls'[c] = calls[c]
         /\ late'[c] <= 1]_vars

\* run_batch returns, with an answer for each task, also when a child hangs in a tool and
\* others wait for its thread or its lease.
BatchReturns == \A t \in Turn : InBatch(t) ~> ~InBatch(t)

\* If no call hangs, each child that got a thread gives it and its lease back: neither
\* the lane, nor a failure of Git, nor an abandoned child blocks those that wait.
LeasesReturned ==
    (\A c \in Child : []<>~InCall(c)) =>
        \A c \in Child : Started(c) ~> stage[c] = "done"
=============================================================================
