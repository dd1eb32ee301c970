--------------------------- MODULE SubagentsProofs ---------------------------
(***************************************************************************)
(* Subagents for any number of turns, tasks, threads and batches: who      *)
(* writes in the shared workspace is alone there, and a child that was     *)
(* given up, or has an answer, does no more than it may.                   *)
(***************************************************************************)
EXTENDS Subagents, FiniteSetTheorems, TLAPS

Stages == {"none", "queued", "dropped", "lane", "tree", "loop", "checked", "tool",
           "leaving", "done"}
Outcomes == {"none", "completed", "failed", "cancelled"}

ChildTypes ==
    /\ batches \in [Turn -> Seq(Seq(Task))]
    /\ stage \in [Child -> Stages]
    /\ token \in [Child -> BOOLEAN]
    /\ calls \in [Child -> 0 .. MaxCalls]
    /\ late \in [Child -> Nat]
    /\ outcome \in [Child -> Outcomes]
    /\ answer \in [Child -> Outcomes \cup {"timed_out"}]
    /\ tree \in [Child -> {"none", "clean", "changed", "removed"}]

-----------------------------------------------------------------------------
(***************************************************************************)
(* The lane.  That a child holds the lane is more than that it has its     *)
(* lease: without LeaseBooked nothing says that the sets of the lane know  *)
(* of every child that works.                                              *)
(***************************************************************************)
LeaseBooked ==
    \A c \in Child : HasLease(c) => IF Exclusive(c) THEN writers = {c} ELSE c \in readers

LaneInv ==
    /\ stage \in [Child -> Stages]
    /\ LeaseBooked
    /\ writers = {} \/ readers = {}

\* The three steps by which the lane changes hands.
LaneStep(c) ==
    \/ /\ stage[c] = "lane" /\ Enter(c)
       /\ stage' \in {[stage EXCEPT ![c] = "tree"], [stage EXCEPT ![c] = "loop"]}
    \/ Leave(c) /\ stage' = [stage EXCEPT ![c] = "done"]

\* All others leave the holders and the leases as they are.
LeasesStay ==
    /\ stage' \in [Child -> Stages] /\ UNCHANGED <<readers, writers>>
    /\ \A c \in Child : HasLease(c)' => HasLease(c)

LEMMA LaneKept ==
    ASSUME LaneInv, LeasesStay \/ \E c \in Child : LaneStep(c)
    PROVE  LaneInv'
<1>1. CASE LeasesStay
  BY <1>1 DEF LaneInv, LeasesStay, LeaseBooked
<1>2. ASSUME NEW c \in Child, LaneStep(c) PROVE LaneInv'
  <2>1. stage' \in [Child -> Stages]
    BY <1>2 DEF LaneInv, LaneStep, Stages
  <2>2. \A d \in Child \ {c} : HasLease(d)' => HasLease(d)
    BY <1>2 DEF LaneInv, LaneStep, HasLease, InCall
  <2>3. CASE Enter(c) /\ Exclusive(c)
    <3>1. \A d \in Child : ~HasLease(d)
      BY <2>3 DEF Enter, LaneInv, LeaseBooked
    <3> QED BY <2>1, <2>2, <2>3, <3>1 DEF Enter, LaneInv, LeaseBooked
  <2>4. CASE Enter(c) /\ ~Exclusive(c)
    BY <2>1, <2>2, <2>4 DEF Enter, LaneInv, LeaseBooked
  <2>5. CASE Leave(c) /\ stage' = [stage EXCEPT ![c] = "done"]
    <3>1. ~HasLease(c)'
      BY <2>5 DEF LaneInv, HasLease, InCall
    <3> QED BY <2>1, <2>2, <2>5, <3>1 DEF Leave, LaneInv, LeaseBooked
  <2> QED BY <1>2, <2>3, <2>4, <2>5 DEF LaneStep
<1> QED BY <1>1, <1>2

LEMMA NextIsLaneStep ==
    ASSUME stage \in [Child -> Stages], [Next]_vars
    PROVE  LeasesStay \/ \E c \in Child : LaneStep(c)
<1>1. CASE UNCHANGED vars
  BY <1>1 DEF vars, childVars, laneVars, LeasesStay, HasLease, InCall
<1>2. ASSUME NEW t \in Turn, Stop(t) PROVE LeasesStay
  BY <1>2 DEF Stop, childVars, laneVars, LeasesStay, HasLease, InCall
<1>3. ASSUME NEW t \in Turn, NEW request \in Request, Delegate(t, request) PROVE LeasesStay
  BY <1>3 DEF Delegate, laneVars, LeasesStay, HasLease, InCall, Stages
<1>4. ASSUME NEW T, NEW U, NEW status, GiveUp(T, U, status) PROVE LeasesStay
  BY <1>4 DEF GiveUp, laneVars, LeasesStay, HasLease, InCall, Stages
<1>5. ASSUME NEW c \in Child, Collect(c) PROVE LeasesStay
  BY <1>5 DEF Collect, childVars, laneVars, LeasesStay, HasLease, InCall
<1>6. ASSUME NEW c \in Child, StartChild(c) PROVE LeasesStay
  BY <1>6 DEF StartChild, Arrive, LeasesStay, HasLease, InCall, Stages
<1>7. ASSUME NEW c \in Child, CheckToken(c) \/ EndLoop(c) \/ ToolStep(c) PROVE LeasesStay
  BY <1>7 DEF CheckToken, EndLoop, ToolStep, RefuseTool, BeginTool, EndTool, laneVars,
              LeasesStay, HasLease, InCall, Stages
<1>8. ASSUME NEW c \in Child, AcquireLane(c) \/ Release(c) PROVE LaneStep(c)
  BY <1>8 DEF AcquireLane, Release, LaneStep
<1>9. ASSUME NEW c \in Child, CreateWorktree(c) PROVE LeasesStay \/ LaneStep(c)
  BY <1>9 DEF CreateWorktree, LaneStep, laneVars, LeasesStay, HasLease, InCall, Stages
<1>10. ASSUME NEW t \in Turn, Coordinate(t) PROVE LeasesStay
  BY <1>4, <1>5, <1>10 DEF Coordinate, PollCancelled, PollTimeout
<1>11. ASSUME NEW c \in Child, ChildStep(c) \/ ToolStep(c) PROVE LeasesStay \/ LaneStep(c)
  BY <1>6, <1>7, <1>8, <1>9, <1>11 DEF ChildStep
<1> QED BY <1>1, <1>2, <1>3, <1>10, <1>11 DEF Next

\* A child with an exclusive lease of the shared workspace is the only one with a lease,
\* for any number of children, batches and turns (_WorkspaceLane, WorkspaceManager).
THEOREM WritersAreAlone == Spec => []ExclusiveIsAlone
<1>1. Init => LaneInv
  BY DEF Init, LaneInit, LaneInv, LeaseBooked, HasLease, InCall, Stages
<1>2. LaneInv /\ [Next]_vars => LaneInv'
  BY LaneKept, NextIsLaneStep DEF LaneInv
<1>3. LaneInv => ExclusiveIsAlone
  BY DEF LaneInv, LeaseBooked, ExclusiveIsAlone
<1> QED BY <1>1, <1>2, <1>3, PTL DEF Spec

-----------------------------------------------------------------------------
(***************************************************************************)
(* The answers.  A poll answers for the children of the newest batch only, *)
(* so the others must have their answers before a batch begins; and an     *)
(* answer says what became of the child: it is over, or it has been told.  *)
(***************************************************************************)
Answered(c) == answer[c] # "none"

\* Batches follow each other: who has no answer is in the newest.
BatchesInTurn ==
    \A c \in Child :
        stage[c] # "none" => /\ c[2] <= Len(batches[c[1]])
                             /\ ~Answered(c) => c[2] = Len(batches[c[1]])

AnswersTold ==
    \A c \in Child :
        /\ Answered(c) => stage[c] \notin {"none", "queued"}
        /\ answer[c] \in {"completed", "failed"} => stage[c] = "done"
        /\ answer[c] \in {"cancelled", "timed_out"} =>
               stage[c] \in {"done", "dropped"} \/ token[c]

\* What was given up had no tool late before, or is past its last one.
LateOnce ==
    \A c \in Child : late[c] <= 1 /\ (late[c] = 1 => GivenUp(c) /\ stage[c] # "checked")

NoTreeYet ==
    \A c \in Child : stage[c] \in {"none", "queued", "dropped", "lane", "tree"} =>
                         tree[c] = "none"

AnswerInv == ChildTypes /\ BatchesInTurn /\ AnswersTold /\ LateOnce /\ NoTreeYet

\* What each step says of one child.
Final(c) ==
    /\ answer[c] # "none" => answer'[c] = answer[c]
    /\ answer[c] \in {"completed", "failed"} => UNCHANGED <<stage[c], tree[c]>>
    /\ tree[c] = "changed" => tree'[c] = "changed"

Quiet(c) ==
    GivenUp(c) =>
        /\ stage'[c] = "lane" => stage[c] = "lane"
        /\ calls'[c] = calls[c]
        /\ late'[c] <= 1

LEMMA ChildParts == \A c \in Child : c[1] \in Turn /\ c[2] \in 1 .. MaxBatches
  BY DEF Child

\* A batch: its children are new, as all batches before it have their answers.
LEMMA DelegateAnswers ==
    ASSUME AnswerInv, NEW t \in Turn, NEW request \in Request, Delegate(t, request),
           request \in Seq(Task)
    PROVE  AnswerInv' /\ \A c \in Child : Final(c) /\ Quiet(c)
<1> DEFINE New(c) == c[1] = t /\ c[2] = Len(batches[t]) + 1 /\ Contains(request, c[3])
<1>1. /\ \A c \in Child : c[1] = t /\ stage[c] # "none" => Answered(c)
      /\ batches' = [batches EXCEPT ![t] = Append(@, request)]
      /\ stage' = [c \in Child |-> IF New(c) THEN "queued" ELSE stage[c]]
      /\ UNCHANGED <<token, calls, late, outcome, answer, tree>>
  BY DEF Delegate, InBatch, Unanswered, Answered
<1>2. Len(batches[t]) \in Nat /\ batches' \in [Turn -> Seq(Seq(Task))]
      /\ Len(batches'[t]) = Len(batches[t]) + 1
      /\ \A u \in Turn \ {t} : batches'[u] = batches[u]
  BY <1>1 DEF AnswerInv, ChildTypes
<1>3. \A c \in Child : New(c) => stage[c] = "none" /\ ~Answered(c)
  <2> SUFFICES ASSUME NEW c \in Child, New(c) PROVE stage[c] = "none" /\ ~Answered(c)
    OBVIOUS
  <2>1. stage[c] = "none"
    BY <1>2 DEF AnswerInv, BatchesInTurn
  <2> QED BY <2>1 DEF AnswerInv, AnswersTold
<1> HIDE DEF New
<1>4. ChildTypes'
  BY <1>1, <1>2 DEF AnswerInv, ChildTypes, Stages
<1>5. BatchesInTurn'
  <2> SUFFICES ASSUME NEW c \in Child, stage'[c] # "none"
               PROVE  /\ c[2] <= Len(batches'[c[1]])
                      /\ ~Answered(c)' => c[2] = Len(batches'[c[1]])
    BY DEF BatchesInTurn
  <2>1. CASE New(c)
    BY <2>1, <1>2 DEF New
  <2>2. CASE ~New(c) /\ c[1] = t
    BY <2>2, <1>1, <1>2, ChildParts DEF AnswerInv, BatchesInTurn, Answered
  <2>3. CASE ~New(c) /\ c[1] # t
    BY <2>3, <1>1, <1>2, ChildParts DEF AnswerInv, BatchesInTurn, Answered
  <2> QED BY <2>1, <2>2, <2>3
<1>6. AnswersTold' /\ LateOnce' /\ NoTreeYet'
  BY <1>1, <1>3 DEF AnswerInv, AnswersTold, LateOnce, GivenUp, NoTreeYet, Answered
<1>7. \A c \in Child : Final(c) /\ Quiet(c)
  BY <1>1, <1>3 DEF AnswerInv, AnswersTold, LateOnce, Final, Quiet, GivenUp, Answered
<1> QED BY <1>4, <1>5, <1>6, <1>7 DEF AnswerInv

\* A poll that gives up children answers for them, and tells those that run.
LEMMA GiveUpAnswers ==
    ASSUME AnswerInv, NEW T, NEW U, U \subseteq T, NEW status \in {"cancelled", "timed_out"},
           GiveUp(T, U, status), \A c \in U : ~Answered(c) /\ stage[c] # "none"
    PROVE  AnswerInv' /\ \A c \in Child : Final(c) /\ Quiet(c)
<1>1. /\ token' = [c \in Child |-> token[c] \/ c \in T]
      /\ stage' = [c \in Child |-> IF c \in U /\ stage[c] = "queued"
                                   THEN "dropped" ELSE stage[c]]
      /\ answer' = [c \in Child |-> IF c \in U THEN status ELSE answer[c]]
      /\ UNCHANGED <<batches, calls, late, outcome, tree>>
  BY DEF GiveUp, parentVars
<1>2. ChildTypes'
  <2>1. token' \in [Child -> BOOLEAN]
    BY <1>1, Zenon DEF AnswerInv, ChildTypes
  <2> QED BY <1>1, <2>1 DEF AnswerInv, ChildTypes, Stages, Outcomes
<1>3. BatchesInTurn'
  BY <1>1 DEF AnswerInv, BatchesInTurn, Answered
<1>4. AnswersTold'
  BY <1>1 DEF AnswerInv, AnswersTold, Answered
<1>5. NoTreeYet' /\ LateOnce'
  BY <1>1 DEF AnswerInv, NoTreeYet, LateOnce, GivenUp, Answered
<1>6. \A c \in Child : Final(c) /\ Quiet(c)
  BY <1>1 DEF AnswerInv, AnswersTold, LateOnce, Final, Quiet, GivenUp, Answered
<1> QED BY <1>2, <1>3, <1>4, <1>5, <1>6 DEF AnswerInv

\* The steps of a child's thread leave the answers alone, do not end what has ended, and
\* pass the look before a tool only with a token that is not set.
Active == {"queued", "lane", "tree", "loop", "checked", "tool", "leaving"}
ThreadStep(c) ==
    /\ UNCHANGED <<batches, answer>>
    /\ stage[c] \in Active /\ stage'[c] \in Stages \ {"none", "queued", "dropped"}
    /\ stage' = [stage EXCEPT ![c] = stage'[c]]
    /\ \/ stage'[c] # "checked" /\ UNCHANGED calls
       \/ /\ stage'[c] = "checked" /\ ~token[c] /\ calls[c] < MaxCalls
          /\ calls' = [calls EXCEPT ![c] = @ + 1]
    /\ \/ UNCHANGED late
       \/ /\ stage'[c] = "tool" /\ stage[c] = "checked" /\ GivenUp(c)
          /\ late' = [late EXCEPT ![c] = @ + 1]
    /\ stage'[c] = "lane" => stage[c] = "queued"
    /\ stage'[c] \in {"lane", "tree"} => stage[c] \in {"queued", "lane"} /\ UNCHANGED tree
    /\ token' \in [Child -> BOOLEAN] /\ \A d \in Child : token[d] => token'[d]
    /\ outcome' \in [Child -> Outcomes]
    /\ \/ UNCHANGED tree
       \/ stage[c] = "tree" /\ tree' = [tree EXCEPT ![c] = "clean"]
       \/ stage[c] = "tool" /\ tree' = [tree EXCEPT ![c] = "changed"]
       \/ stage[c] = "leaving" /\ tree' = [tree EXCEPT ![c] = IF @ = "clean" THEN "removed" ELSE @]

LEMMA ThreadAnswers ==
    ASSUME AnswerInv, NEW c \in Child, ThreadStep(c)
    PROVE  AnswerInv' /\ \A d \in Child : Final(d) /\ Quiet(d)
<1> DEFINE to == stage'[c]
<1>1. token' \in [Child -> BOOLEAN] /\ \A d \in Child : token[d] => token'[d]
  BY DEF ThreadStep
<1>2. /\ \/ to # "checked" /\ UNCHANGED calls
         \/ /\ to = "checked" /\ ~token[c] /\ calls[c] < MaxCalls
            /\ calls' = [calls EXCEPT ![c] = @ + 1]
      /\ to = "lane" => stage[c] = "queued"
      /\ to \in {"lane", "tree"} => stage[c] \in {"queued", "lane"} /\ UNCHANGED tree
      /\ to \in Stages \ {"none", "queued", "dropped"}
  BY DEF ThreadStep
<1>3. stage' \in [Child -> Stages] /\ \A d \in Child \ {c} : stage'[d] = stage[d]
  <2>1. stage' = [stage EXCEPT ![c] = to] /\ stage \in [Child -> Stages]
    BY DEF ThreadStep, AnswerInv, ChildTypes
  <2>2. to \in Stages
    BY <1>2
  <2> HIDE DEF to
  <2> QED BY <2>1, <2>2
<1>4. UNCHANGED <<batches, answer>> /\ stage[c] \in Active /\ outcome' \in [Child -> Outcomes]
  BY DEF ThreadStep
<1>5. /\ tree' \in [Child -> {"none", "clean", "changed", "removed"}]
      /\ \A d \in Child \ {c} : tree'[d] = tree[d]
      /\ stage[c] # "tree" /\ tree[c] = "changed" => tree'[c] = "changed"
  BY DEF ThreadStep, AnswerInv, ChildTypes
<1>6. /\ calls' \in [Child -> 0 .. MaxCalls]
      /\ \A d \in Child \ {c} : calls'[d] = calls[d]
  <2>1. CASE UNCHANGED calls
    BY <2>1 DEF AnswerInv, ChildTypes
  <2>2. CASE calls[c] < MaxCalls /\ calls' = [calls EXCEPT ![c] = @ + 1]
    <3>1. calls[c] + 1 \in 0 .. MaxCalls
      BY <2>2, SubagentsAssumption DEF AnswerInv, ChildTypes
    <3> QED BY <2>2, <3>1 DEF AnswerInv, ChildTypes
  <2> QED BY <1>2, <2>1, <2>2
<1>7. /\ late' \in [Child -> Nat]
      /\ \A d \in Child \ {c} : late'[d] = late[d]
      /\ late'[c] # late[c] => /\ late'[c] = late[c] + 1 /\ to = "tool"
                               /\ stage[c] = "checked" /\ GivenUp(c)
  <2>1. CASE UNCHANGED late
    BY <2>1 DEF AnswerInv, ChildTypes
  <2>2. CASE /\ to = "tool" /\ stage[c] = "checked" /\ GivenUp(c)
             /\ late' = [late EXCEPT ![c] = @ + 1]
    BY <2>2 DEF AnswerInv, ChildTypes
  <2> QED BY <2>1, <2>2 DEF ThreadStep
<1>8. GivenUp(c) => token[c]
  BY <1>4 DEF AnswerInv, AnswersTold, GivenUp, Active
<1>9. ChildTypes'
  BY <1>1, <1>3, <1>4, <1>5, <1>6, <1>7 DEF AnswerInv, ChildTypes
<1>10. BatchesInTurn'
  BY <1>3, <1>4 DEF AnswerInv, BatchesInTurn, Answered, Active
<1>11. AnswersTold'
  BY <1>1, <1>2, <1>3, <1>4 DEF AnswerInv, AnswersTold, Answered, Active
<1>12. LateOnce'
  <2> SUFFICES ASSUME NEW d \in Child
               PROVE  late'[d] <= 1 /\ (late'[d] = 1 => GivenUp(d)' /\ stage'[d] # "checked")
    BY DEF LateOnce, GivenUp
  <2>1. GivenUp(d)' <=> GivenUp(d)
    BY <1>4 DEF GivenUp
  <2>2. CASE d # c
    BY <2>1, <2>2, <1>3, <1>7 DEF AnswerInv, LateOnce
  <2>3. CASE d = c /\ late'[c] = late[c]
    BY <2>1, <2>3, <1>2, <1>3, <1>8 DEF AnswerInv, LateOnce
  <2>4. CASE d = c /\ late'[c] # late[c]
    BY <2>1, <2>4, <1>3, <1>7 DEF AnswerInv, ChildTypes, LateOnce
  <2> QED BY <2>2, <2>3, <2>4
<1>13. NoTreeYet'
  BY <1>2, <1>3, <1>4, <1>5 DEF AnswerInv, NoTreeYet, Active
<1>14. \A d \in Child : Final(d) /\ Quiet(d)
  <2> SUFFICES ASSUME NEW d \in Child PROVE Final(d) /\ Quiet(d)
    OBVIOUS
  <2>1. late'[d] <= 1
    BY <1>12 DEF LateOnce
  <2>2. CASE d = c
    <3>1. Final(c)
      BY <1>3, <1>4, <1>5 DEF AnswerInv, AnswersTold, NoTreeYet, Answered, Final, Active
    <3>2. Quiet(c)
      BY <2>1, <2>2, <1>2, <1>3, <1>4, <1>8
         DEF AnswerInv, AnswersTold, Answered, Quiet, GivenUp
    <3> QED BY <2>2, <3>1, <3>2
  <2>3. CASE d # c
    BY <2>1, <2>3, <1>3, <1>4, <1>5, <1>6 DEF Final, Quiet
  <2> QED BY <2>2, <2>3
<1> QED BY <1>9, <1>10, <1>11, <1>12, <1>13, <1>14 DEF AnswerInv

LEMMA ChildIsThreadStep ==
    ASSUME AnswerInv, NEW c \in Child, ChildStep(c) \/ ToolStep(c)
    PROVE  ThreadStep(c)
<1>1. CASE StartChild(c)
  <2>1. token' \in [Child -> BOOLEAN] /\ \A d \in Child : token[d] => token'[d]
    BY <1>1, Zenon DEF StartChild, AnswerInv, ChildTypes
  <2> QED BY <1>1, <2>1 DEF StartChild, ThreadStep, parentVars, Stages, Active, AnswerInv,
                            ChildTypes
<1>2. CASE AcquireLane(c)
  BY <1>2 DEF AcquireLane, ThreadStep, parentVars, Stages, Active, AnswerInv, ChildTypes
<1>3. CASE CreateWorktree(c)
  BY <1>3 DEF CreateWorktree, ThreadStep, parentVars, Stages, Active, Outcomes, AnswerInv,
              ChildTypes
<1>4. CASE CheckToken(c)
  BY <1>4 DEF CheckToken, ThreadStep, parentVars, Stages, Active, AnswerInv, ChildTypes
<1>5. CASE EndLoop(c)
  BY <1>5 DEF EndLoop, ThreadStep, parentVars, Stages, Active, Outcomes, AnswerInv, ChildTypes
<1>6. CASE Release(c)
  BY <1>6 DEF Release, ThreadStep, parentVars, Stages, Active, Outcomes, AnswerInv, ChildTypes
<1>7. CASE RefuseTool(c) \/ EndTool(c)
  BY <1>7 DEF RefuseTool, EndTool, ThreadStep, parentVars, Stages, Active, Outcomes, AnswerInv,
              ChildTypes
<1>8. CASE BeginTool(c)
  BY <1>8 DEF BeginTool, ThreadStep, parentVars, Stages, Active, AnswerInv, ChildTypes
<1> QED BY <1>1, <1>2, <1>3, <1>4, <1>5, <1>6, <1>7, <1>8 DEF ChildStep, ToolStep

LEMMA AnswerStep ==
    ASSUME AnswerInv, [Next]_vars
    PROVE  AnswerInv' /\ \A c \in Child : Final(c) /\ Quiet(c)
<1>1. CASE UNCHANGED <<batches, childVars, answer>>
  BY <1>1 DEF childVars, AnswerInv, ChildTypes, BatchesInTurn, AnswersTold, LateOnce, NoTreeYet,
              Answered, Final, Quiet, GivenUp
<1>2. CASE UNCHANGED vars
  BY <1>1, <1>2 DEF vars, parentVars
<1>3. ASSUME NEW t \in Turn, Stop(t) PROVE AnswerInv' /\ \A c \in Child : Final(c) /\ Quiet(c)
  BY <1>1, <1>3 DEF Stop
<1>4. ASSUME NEW t \in Turn, NEW request \in Request, Delegate(t, request)
      PROVE  AnswerInv' /\ \A c \in Child : Final(c) /\ Quiet(c)
  <2>1. request \in Seq(Task)
    <3>1. PICK S \in SUBSET Task : request \in SetToSeqs(S)
      BY DEF Request, SetToAllKPermutations
    <3>2. Cardinality(S) \in Nat
      BY SubagentsAssumption, FS_Subset, FS_CardinalityType
    <3>3. request \in [1 .. Cardinality(S) -> Task]
      BY <3>1 DEF SetToSeqs
    <3> QED BY <3>2, <3>3
  <2> QED BY <1>4, <2>1, DelegateAnswers
<1>5. ASSUME NEW t \in Turn, PollCancelled(t)
      PROVE  AnswerInv' /\ \A c \in Child : Final(c) /\ Quiet(c)
  <2> DEFINE T == Members(t, Len(batches[t]))
             U == Unanswered(t)
  <2>1. GiveUp(T, U, "cancelled")
    BY <1>5 DEF PollCancelled
  <2>2. U \subseteq T /\ \A c \in U : ~Answered(c) /\ stage[c] # "none"
    BY DEF Members, Unanswered, AnswerInv, BatchesInTurn, Answered
  <2> HIDE DEF T, U
  <2> QED BY <2>1, <2>2, GiveUpAnswers
<1>6. ASSUME NEW c \in Child, PollTimeout(c)
      PROVE  AnswerInv' /\ \A d \in Child : Final(d) /\ Quiet(d)
  BY <1>6, GiveUpAnswers DEF PollTimeout, Answered
<1>7. ASSUME NEW c \in Child, Collect(c)
      PROVE  AnswerInv' /\ \A d \in Child : Final(d) /\ Quiet(d)
  <2>1. /\ answer[c] = "none" /\ stage[c] = "done"
        /\ answer' = [answer EXCEPT ![c] = outcome[c]]
        /\ UNCHANGED <<batches, stage, token, calls, late, outcome, tree>>
    BY <1>7 DEF Collect, parentVars, childVars
  <2>2. outcome[c] \in Outcomes
    BY DEF AnswerInv, ChildTypes
  <2>3. ChildTypes'
    BY <2>1, <2>2 DEF AnswerInv, ChildTypes
  <2>4. BatchesInTurn' /\ NoTreeYet'
    BY <2>1 DEF AnswerInv, ChildTypes, BatchesInTurn, NoTreeYet, Answered
  <2>5. AnswersTold' /\ LateOnce'
    BY <2>1, <2>2 DEF AnswerInv, ChildTypes, AnswersTold, LateOnce, GivenUp, Answered, Outcomes
  <2>6. \A d \in Child : Final(d) /\ Quiet(d)
    BY <2>1 DEF AnswerInv, ChildTypes, LateOnce, Final, Quiet, GivenUp
  <2> QED BY <2>3, <2>4, <2>5, <2>6 DEF AnswerInv
<1>8. ASSUME NEW c \in Child, ChildStep(c) \/ ToolStep(c)
      PROVE  AnswerInv' /\ \A d \in Child : Final(d) /\ Quiet(d)
  BY <1>8, ChildIsThreadStep, ThreadAnswers
<1> QED BY <1>2, <1>3, <1>4, <1>5, <1>6, <1>7, <1>8 DEF Next, Coordinate

LEMMA AnswerInit == Init => AnswerInv
<1> SUFFICES ASSUME Init PROVE AnswerInv
  OBVIOUS
<1>1. 0 \in 0 .. MaxCalls
  BY SubagentsAssumption
<1>2. ChildTypes
  BY <1>1 DEF Init, ChildTypes, Stages, Outcomes
<1> QED BY <1>2 DEF Init, AnswerInv, BatchesInTurn, AnswersTold, LateOnce, NoTreeYet, Answered

\* Answers are final, a child that is reported as completed or failed has left its
\* workspace, and a worktree with changes stays (run_batch, WorkspaceLease.release).
THEOREM AnswersStay == Spec => AnswersAreFinal
<1>1. AnswerInv /\ [Next]_vars => AnswerInv'
  BY AnswerStep
<1>2. AnswerInv /\ [Next]_vars => [\A c \in Child : Final(c)]_vars
  BY AnswerStep
<1> QED BY <1>1, <1>2, AnswerInit, PTL DEF Spec, AnswersAreFinal, Final

\* A child that its batch has given up gets no thread, passes no further look at its token and
\* begins at most the one tool whose look it had passed, for any number of threads and of
\* children that still hang (run_batch, _cancel_children, AgentLoop.run_turn).
THEOREM AbandonedBeginAtMostOne == Spec => AbandonedBeginsOneTool
<1>1. AnswerInv /\ [Next]_vars => AnswerInv'
  BY AnswerStep
<1>2. AnswerInv /\ [Next]_vars => [\A c \in Child : Quiet(c)]_vars
  BY AnswerStep
<1> QED BY <1>1, <1>2, AnswerInit, PTL DEF Spec, AbandonedBeginsOneTool, Quiet
=============================================================================
