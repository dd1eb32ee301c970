--------------------------- MODULE ChatTurnsProofs ---------------------------
(***************************************************************************)
(* The registry of active turns, for any number of actors, turns and tool  *)
(* calls: a running turn can always be stopped, and a shutdown reaches     *)
(* every one.  Then what a turn does with its tool calls: a risky one runs *)
(* only when it was approved, a cancelled turn begins at most one more,    *)
(* and a turn that is appended shows every call that it ran.  Last, what   *)
(* the model is sent: no half tool block, whatever the history holds.      *)
(***************************************************************************)
EXTENDS ChatTurns, SequenceTheorems, FiniteSetTheorems, TLAPS

\* The variables that a thread's own steps do not move, but for its place.
registryVars == <<gateway, active, closing, owner, cancelled>>

\* A registered turn stands under its actor.  After the shutdown has begun nothing is registered;
\* what it took from the registry waits in closing until the tokens are cancelled: without these,
\* nothing says that a turn that leaves or is superseded was the only one under its key.
RegistryInv ==
    /\ owner \in [Turns -> Keys]
    /\ active \in [Keys -> Turns \cup {None}]
    /\ cancelled \in [Turns -> BOOLEAN]
    /\ gateway \in {"open", "closing", "closed"}
    /\ DOMAIN at = Turns
    /\ \A k \in Keys : active[k] # None => owner[active[k]] = k
    /\ gateway # "open" => active = [k \in Keys |-> None]
    /\ RunningIsStoppable
    /\ ShutdownCancelsAll

\* A thread that goes from one place of its turn to another, or outside of it, disturbs nothing.
LEMMA MoveKeepsRegistry ==
  ASSUME RegistryInv, UNCHANGED registryVars, DOMAIN at' = Turns,
         \A t \in Turns : Live(t)' => Live(t)
  PROVE  RegistryInv'
BY DEF RegistryInv, registryVars, RunningIsStoppable, ShutdownCancelsAll, Live

\* So does a token that is cancelled.
LEMMA CancelKeepsRegistry ==
  ASSUME RegistryInv, UNCHANGED <<gateway, active, closing, owner, at>>,
         cancelled' \in [Turns -> BOOLEAN], \A t \in Turns : cancelled[t] => cancelled'[t]
  PROVE  RegistryInv'
BY DEF RegistryInv, RunningIsStoppable, ShutdownCancelsAll, Live

LEMMA GotoLive ==
  ASSUME NEW t \in Turns, NEW from \in Running, NEW to, Goto(t, from, to), DOMAIN at = Turns
  PROVE  DOMAIN at' = Turns /\ \A u \in Turns : Live(u)' => Live(u)
BY DEF Goto, Live

LEMMA GotoOutside ==
  ASSUME NEW t \in Turns, NEW from, NEW to, to \notin Running, Goto(t, from, to),
         DOMAIN at = Turns
  PROVE  DOMAIN at' = Turns /\ \A u \in Turns : Live(u)' => Live(u)
BY DEF Goto, Live

LEMMA InitRegistry == ChatInit => RegistryInv
BY ChatAssumption DEF ChatInit, RegistryInv, RunningIsStoppable, ShutdownCancelsAll, Live, Running

\* A turn is registered only while nothing has been taken from the registry; the one it takes the
\* place of is cancelled.
LEMMA RegisterKeepsRegistry ==
  ASSUME RegistryInv, NEW t \in Turns, Register(t)
  PROVE  RegistryInv'
<1>1. /\ gateway = "open" /\ gateway' = "open" /\ UNCHANGED <<closing, owner>>
      /\ active' = [active EXCEPT ![owner[t]] = t]
      /\ cancelled' = [u \in Turns |-> cancelled[u] \/ u = active[owner[t]]]
      /\ at' = [at EXCEPT ![t] = "start"]
  BY DEF Register, Goto
<1>2. owner[t] \in Keys /\ t # None
  BY ChatAssumption DEF RegistryInv
<1>3. /\ active' \in [Keys -> Turns \cup {None}] /\ cancelled' \in [Turns -> BOOLEAN]
      /\ DOMAIN at' = Turns /\ gateway' \in {"open", "closing", "closed"}
      /\ owner' \in [Turns -> Keys]
  BY <1>1, <1>2 DEF RegistryInv
<1>4. \A k \in Keys : active'[k] # None => owner'[active'[k]] = k
  BY <1>1, <1>2 DEF RegistryInv
<1>5. RunningIsStoppable'
  <2>1. SUFFICES ASSUME NEW u \in Turns, Live(u)', ~cancelled'[u] PROVE active'[owner'[u]] = u
    BY DEF RunningIsStoppable
  <2>2. CASE u = t
    BY <1>1, <1>2, <2>2 DEF RegistryInv
  <2>3. CASE u # t
    <3>1. Live(u) /\ ~cancelled[u] /\ u # active[owner[t]]
      BY <1>1, <2>1, <2>3 DEF Live, RegistryInv
    <3>2. active[owner[u]] = u
      BY <1>1, <3>1 DEF RegistryInv, RunningIsStoppable
    <3>3. owner[u] # owner[t]
      BY <3>1, <3>2
    <3>4. QED
      BY <1>1, <1>2, <3>2, <3>3 DEF RegistryInv
  <2>4. QED
    BY <2>2, <2>3
<1>6. ShutdownCancelsAll'
  BY <1>1 DEF ShutdownCancelsAll
<1>7. QED
  BY <1>1, <1>3, <1>4, <1>5, <1>6 DEF RegistryInv

\* A turn that leaves takes nobody else's place away.
LEMMA LeaveKeepsRegistry ==
  ASSUME RegistryInv, NEW t \in Turns, Leave(t)
  PROVE  RegistryInv'
<1>1. /\ UNCHANGED <<gateway, closing, owner>>
      /\ active' = IF active[owner[t]] = t THEN [active EXCEPT ![owner[t]] = None] ELSE active
      /\ cancelled' = [cancelled EXCEPT ![t] = FALSE]
      /\ at' = [at EXCEPT ![t] = "ended"]
  BY DEF Leave, Unregister, Goto
<1>2. owner[t] \in Keys
  BY DEF RegistryInv
<1>3. /\ active' \in [Keys -> Turns \cup {None}] /\ cancelled' \in [Turns -> BOOLEAN]
      /\ DOMAIN at' = Turns
  BY <1>1, <1>2 DEF RegistryInv
<1>4. \A k \in Keys : active'[k] # None => owner'[active'[k]] = k
  BY <1>1, <1>2 DEF RegistryInv
<1>5. gateway' # "open" => active' = [k \in Keys |-> None]
  BY <1>1, <1>2 DEF RegistryInv
<1>6. \A u \in Turns : Live(u)' => u # t /\ Live(u) /\ cancelled'[u] = cancelled[u]
  BY <1>1 DEF RegistryInv, Live, Running
<1>7. RunningIsStoppable'
  <2>1. SUFFICES ASSUME NEW u \in Turns, Live(u)', ~cancelled'[u]
                 PROVE  active'[owner'[u]] = u \/ (gateway' = "closing" /\ u \in closing')
    BY DEF RunningIsStoppable
  <2>2. u # t /\ Live(u) /\ ~cancelled[u]
    BY <1>6, <2>1
  <2>3. active[owner[u]] = u \/ (gateway = "closing" /\ u \in closing)
    BY <2>2 DEF RegistryInv, RunningIsStoppable
  <2>4. QED
    BY <1>1, <1>2, <2>2, <2>3 DEF RegistryInv
<1>8. ShutdownCancelsAll'
  BY <1>1, <1>6 DEF RegistryInv, ShutdownCancelsAll
<1>9. QED
  BY <1>1, <1>3, <1>4, <1>5, <1>7, <1>8 DEF RegistryInv

\* The two steps of a shutdown.
LEMMA ShutdownKeepsRegistry ==
  ASSUME RegistryInv, ShutdownBegins \/ ShutdownCancels
  PROVE  RegistryInv'
<1>1. CASE ShutdownBegins
  <2>1. /\ gateway = "open" /\ gateway' = "closing" /\ active' = [k \in Keys |-> None]
        /\ closing' = {active[k] : k \in Keys} \ {None}
        /\ UNCHANGED <<at, owner, cancelled>>
    BY <1>1 DEF ShutdownBegins, tokenVars
  <2>2. RunningIsStoppable'
    <3>1. SUFFICES ASSUME NEW t \in Turns, Live(t), ~cancelled[t] PROVE t \in closing'
      BY <2>1 DEF RunningIsStoppable, Live
    <3>2. active[owner[t]] = t /\ owner[t] \in Keys /\ t # None
      BY <2>1, <3>1, ChatAssumption DEF RegistryInv, RunningIsStoppable
    <3>3. QED
      BY <2>1, <3>2
  <2>3. QED
    BY <2>1, <2>2 DEF RegistryInv, ShutdownCancelsAll
<1>2. CASE ShutdownCancels
  <2>1. /\ gateway = "closing" /\ gateway' = "closed"
        /\ cancelled' = [t \in Turns |-> cancelled[t] \/ t \in closing]
        /\ UNCHANGED <<active, closing, at, owner>>
    BY <1>2 DEF ShutdownCancels
  <2>2. \A t \in Turns : Live(t) => cancelled'[t]
    <3>1. SUFFICES ASSUME NEW t \in Turns, Live(t), ~cancelled[t] PROVE t \in closing
      BY <2>1 DEF RegistryInv
    <3>2. active[owner[t]] = None /\ t # None
      BY <2>1, ChatAssumption DEF RegistryInv
    <3>3. QED
      BY <3>1, <3>2 DEF RegistryInv, RunningIsStoppable
  <2>3. RunningIsStoppable' /\ ShutdownCancelsAll'
    BY <2>1, <2>2 DEF RunningIsStoppable, ShutdownCancelsAll, Live
  <2>4. cancelled' \in [Turns -> BOOLEAN]
    BY <2>1 DEF RegistryInv
  <2>5. QED
    BY <2>1, <2>3, <2>4 DEF RegistryInv
<1>3. QED
  BY <1>1, <1>2

\* A failure ends the turn, or its request with a message, or its wait; it never begins anything.
LEMMA FailKinds ==
  ASSUME NEW t, Fail(t)
  PROVE  \/ \E from \in {"start", "ask", "check", "save"} : Move(t, from, "leave")
         \/ \E m : Finish(t, "model", m)
         \/ WaitRaises(t)
<1>1. CASE ContextFails(t) \/ RequestTooLarge(t) \/ CallRaises(t) \/ SaveFails(t)
  BY <1>1 DEF ContextFails, RequestTooLarge, CallRaises, SaveFails
<1>2. CASE RequestFails(t) \/ WaitRaises(t)
  BY <1>2 DEF RequestFails
<1>3. QED
  BY <1>1, <1>2 DEF Fail

\* What the loop does moves the thread within the turn.
LEMMA LoopKeepsRegistry ==
  ASSUME RegistryInv, NEW t \in Turns,
         \/ Load(t) \/ StopStep(t) \/ SendRequest(t) \/ RespondText(t) \/ Summarised(t)
         \/ \E calls \in Batches[t] : RespondCalls(t, calls) \/ LimitReached(t, calls)
         \/ CallRefused(t) \/ CallAllowed(t) \/ CallAsked(t) \/ WaitStep(t) \/ WaitEnds(t)
         \/ RunTool(t) \/ RecordResult(t) \/ Save(t) \/ Fail(t)
  PROVE  RegistryInv'
<1> USE DEF LoopStep, runtimeVars, tokenVars, registryVars
<1>1. DOMAIN at = Turns
  BY DEF RegistryInv
<1>2. UNCHANGED registryVars
  <2>1. CASE Fail(t)
    BY <2>1, FailKinds DEF WaitRaises, Move, Finish
  <2>2. CASE CallRefused(t) \/ CallAllowed(t) \/ CallAsked(t) \/ WaitStep(t) \/ WaitEnds(t)
    BY <2>2 DEF CallRefused, CallAllowed, CallAsked, WaitStep, WaitEnds, Move
  <2>3. CASE RunTool(t) \/ RecordResult(t) \/ Save(t)
    BY <2>3 DEF RunTool, RecordResult, Save
  <2>4. CASE \/ Load(t) \/ StopStep(t) \/ SendRequest(t) \/ RespondText(t) \/ Summarised(t)
             \/ \E calls \in Batches[t] : RespondCalls(t, calls) \/ LimitReached(t, calls)
    BY <2>4 DEF Load, StopStep, Stop, SendRequest, RespondText, Summarised, RespondCalls,
         LimitReached, Move, Finish
  <2>5. QED
    BY <2>1, <2>2, <2>3, <2>4
<1>3. CASE \E from \in Running : \E to : Goto(t, from, to)
  BY <1>1, <1>2, <1>3, GotoLive, MoveKeepsRegistry
<1>4. CASE UNCHANGED at
  BY <1>1, <1>2, <1>4, MoveKeepsRegistry DEF Live
<1>5. (\E from \in Running : \E to : Goto(t, from, to)) \/ UNCHANGED at
  <2>1. CASE Fail(t)
    BY <2>1, FailKinds DEF WaitRaises, Move, Finish, Running
  <2>2. CASE CallRefused(t) \/ CallAllowed(t) \/ CallAsked(t) \/ WaitStep(t) \/ WaitEnds(t)
    BY <2>2 DEF CallRefused, CallAllowed, CallAsked, WaitStep, WaitEnds, Move, Running
  <2>3. CASE RunTool(t) \/ RecordResult(t) \/ Save(t)
    BY <2>3 DEF RunTool, RecordResult, Save, Running
  <2>4. CASE \/ Load(t) \/ StopStep(t) \/ SendRequest(t) \/ RespondText(t) \/ Summarised(t)
             \/ \E calls \in Batches[t] : RespondCalls(t, calls) \/ LimitReached(t, calls)
    BY <2>4 DEF Load, StopStep, Stop, SendRequest, RespondText, Summarised, RespondCalls,
         LimitReached, Move, Finish, Running
  <2>5. QED
    BY <2>1, <2>2, <2>3, <2>4
<1>6. QED
  BY <1>3, <1>4, <1>5

\* Every step keeps the registry.
LEMMA NextRegistry ==
  ASSUME RegistryInv, [Next]_vars
  PROVE  RegistryInv'
<1>1. DOMAIN at = Turns
  BY DEF RegistryInv
<1>2. ASSUME NEW t \in Turns, Admit(t) \/ Refuse(t) PROVE RegistryInv'
  <2>1. UNCHANGED registryVars
    BY <1>2 DEF Admit, Refuse, runtimeVars, tokenVars, registryVars
  <2>2. DOMAIN at' = Turns /\ \A u \in Turns : Live(u)' => Live(u)
    BY <1>1, <1>2, GotoOutside DEF Admit, Refuse, Running
  <2>3. QED
    BY <2>1, <2>2, MoveKeepsRegistry
<1>3. ASSUME NEW k \in Keys, CancelSession(k) PROVE RegistryInv'
  <2>1. UNCHANGED <<gateway, active, closing, owner, at>>
    BY <1>3 DEF CancelSession, runtimeVars
  <2>2. cancelled' \in [Turns -> BOOLEAN] /\ \A t \in Turns : cancelled[t] => cancelled'[t]
    BY <1>3 DEF CancelSession, RegistryInv
  <2>3. QED
    BY <2>1, <2>2, CancelKeepsRegistry
<1>4. ASSUME Delete PROVE RegistryInv'
  <2>1. UNCHANGED <<gateway, active, closing, owner, at>>
    BY <1>4 DEF Delete, DeleteBegins, DeleteCancels, DeleteWaited, DeleteTimesOut, DeleteFile,
         DeleteRow, DeleteStep, tokenVars
  <2>2. \/ UNCHANGED cancelled
        \/ \E t : cancelled' = [u \in Turns |-> cancelled[u] \/ u = t]
    BY <1>4 DEF Delete, DeleteBegins, DeleteCancels, DeleteWaited, DeleteTimesOut, DeleteFile,
         DeleteRow, tokenVars
  <2>3. cancelled' \in [Turns -> BOOLEAN] /\ \A t \in Turns : cancelled[t] => cancelled'[t]
    BY <2>2 DEF RegistryInv
  <2>4. QED
    BY <2>1, <2>3, CancelKeepsRegistry
<1>5. ASSUME \/ UNCHANGED vars
             \/ /\ Confirm!Decider
                /\ UNCHANGED <<runtimeVars, sessionVars, at, tokenVars, loopVars, toolVars>>
      PROVE  RegistryInv'
  <2>1. UNCHANGED registryVars /\ UNCHANGED at
    BY <1>5 DEF vars, runtimeVars, tokenVars, registryVars
  <2>2. QED
    BY <1>1, <2>1, MoveKeepsRegistry DEF Live
<1>6. QED
  BY <1>2, <1>3, <1>4, <1>5, RegisterKeepsRegistry, LeaveKeepsRegistry, ShutdownKeepsRegistry,
     LoopKeepsRegistry
  DEF Next, Proceed, Outside

\* A turn that runs and is not cancelled is where stops, newer turns, deletions and a shutdown
\* find it, whatever overlaps.
THEOREM TurnsStoppable == ChatSpec => []RunningIsStoppable
<1>1. RegistryInv => RunningIsStoppable
  BY DEF RegistryInv
<1>2. QED
  BY InitRegistry, NextRegistry, <1>1, PTL DEF ChatSpec

\* When shutdown has cancelled its turns no other one goes on, not even one that was admitted
\* before it and is registered during it.
THEOREM ShutdownReachesAll == ChatSpec => []ShutdownCancelsAll
<1>1. RegistryInv => ShutdownCancelsAll
  BY DEF RegistryInv
<1>2. QED
  BY InitRegistry, NextRegistry, <1>1, PTL DEF ChatSpec

(***************************************************************************)
(* The tool calls of a turn.                                               *)
(***************************************************************************)

\* What a turn has run.
Ran(t) == {e \in executed : e[1] = t}

\* A turn that handles calls has one at the head of its queue.
CallInv ==
    /\ DOMAIN at = Turns
    /\ DOMAIN pending = Turns
    /\ queue \in [Turns -> Seq(Calls)]
    /\ executed \subseteq Turns \X Calls
    /\ \A t \in Turns : at[t] \in {"check", "wait", "run", "result"} => queue[t] # <<>>

\* What the other turns and the runtime see of a turn's calls does not change by a turn's step.
SameTurn(u) ==
    /\ at'[u] = at[u] /\ queue'[u] = queue[u] /\ pending'[u] = pending[u]
    /\ \A e : e[1] = u => (e \in executed' <=> e \in executed)
    /\ \A e : e[1] = u => (e \in lateRuns' <=> e \in lateRuns)

\* A thread's step is a step of its own turn.
LEMMA StepOfOneTurn ==
  ASSUME NEW t \in Turns, Admit(t) \/ Proceed(t) \/ Fail(t), CallInv,
         NEW u \in Turns, u # t
  PROVE  SameTurn(u)
<1> USE DEF CallInv, LoopStep, loopVars, toolVars, SameTurn
<1>1. CASE Admit(t) \/ Register(t) \/ Refuse(t) \/ Leave(t)
  BY <1>1 DEF Admit, Register, Refuse, Leave, ForgetRequest, Goto
<1>2. CASE Fail(t)
  <2>1. CASE WaitRaises(t) \/ \E from : Move(t, from, "leave")
    BY <2>1 DEF WaitRaises, Move, Goto
  <2>2. CASE \E m : Finish(t, "model", m)
    BY <2>2 DEF Finish, ForgetRequest, Goto
  <2>3. QED
    BY <1>2, <2>1, <2>2, FailKinds
<1>3. CASE CallRefused(t) \/ CallAllowed(t) \/ CallAsked(t) \/ WaitStep(t) \/ WaitEnds(t)
  BY <1>3 DEF CallRefused, CallAllowed, CallAsked, WaitStep, WaitEnds, Move, Goto
<1>4. CASE RunTool(t)
  BY <1>4 DEF RunTool, Goto
<1>5. CASE RecordResult(t) \/ Save(t)
  BY <1>5 DEF RecordResult, Save, Goto
<1>6. CASE Load(t) \/ StopStep(t) \/ SendRequest(t) \/ RespondText(t) \/ Summarised(t)
  BY <1>6 DEF Load, StopStep, Stop, SendRequest, RespondText, Summarised, Move, Finish,
       ForgetRequest, Goto
<1>7. CASE \E calls \in Batches[t] : RespondCalls(t, calls) \/ LimitReached(t, calls)
  BY <1>7 DEF RespondCalls, LimitReached, Goto
<1>8. QED
  BY <1>1, <1>2, <1>3, <1>4, <1>5, <1>6, <1>7 DEF Proceed

\* Nothing outside of a turn's thread touches its calls.
LEMMA StepOutside ==
  ASSUME Outside \/ UNCHANGED vars
  PROVE  UNCHANGED <<at, queue, pending, executed, lateRuns>>
BY DEF Outside, CancelSession, ShutdownBegins, ShutdownCancels, Delete, DeleteBegins,
   DeleteCancels, DeleteWaited, DeleteTimesOut, DeleteFile, DeleteRow, DeleteStep,
   vars, loopVars, toolVars

LEMMA InitCalls == ChatInit => CallInv
BY EmptySeq DEF ChatInit, CallInv

\* Taking the first call off the queue.
LEMMA TailFacts ==
  ASSUME NEW S, NEW s \in Seq(S), s # <<>>
  PROVE  /\ Head(s) \in S /\ Tail(s) \in Seq(S)
         /\ Len(s) # 1 => Tail(s) # <<>>
         /\ Head(s) \in ToSet(s) /\ ToSet(Tail(s)) \subseteq ToSet(s)
<1>1. /\ Head(s) \in S /\ Tail(s) \in Seq(S) /\ Len(Tail(s)) = Len(s) - 1
      /\ \A i \in 1 .. Len(Tail(s)) : Tail(s)[i] = s[i + 1]
  BY HeadTailProperties
<1>2. Len(s) \in Nat \ {0} /\ Len(Tail(s)) \in Nat
      /\ DOMAIN s = 1 .. Len(s) /\ DOMAIN Tail(s) = 1 .. Len(Tail(s))
  BY <1>1, EmptySeq, LenProperties
<1>3. Head(s) = s[1]
  OBVIOUS
<1>4. Tail(s) = <<>> => Len(Tail(s)) = 0
  BY EmptySeq
<1>5. QED
  BY <1>1, <1>2, <1>3, <1>4 DEF ToSet

\* Every step keeps a queue of calls for a turn that handles them.
LEMMA NextCalls ==
  ASSUME CallInv, [Next]_vars
  PROVE  CallInv'
<1>1. CASE Outside \/ UNCHANGED vars
  BY <1>1, StepOutside DEF CallInv
<1>2. ASSUME NEW t \in Turns, Admit(t) \/ Proceed(t) \/ Fail(t) PROVE CallInv'
  <2>1. \A u \in Turns \ {t} : SameTurn(u)
    BY <1>2, StepOfOneTurn
  <2>2. /\ DOMAIN at' = Turns /\ DOMAIN pending' = Turns
        /\ queue' \in [Turns -> Seq(Calls)]
        /\ executed' \subseteq Turns \X Calls
        /\ at'[t] \in {"check", "wait", "run", "result"} => queue'[t] # <<>>
    <3> USE DEF CallInv, LoopStep, loopVars, toolVars
    <3>1. <<>> \in Seq(Calls)
      BY EmptySeq
    <3>2. ASSUME NEW from, NEW m, Finish(t, from, m)
           PROVE  /\ DOMAIN at' = Turns /\ DOMAIN pending' = Turns
                  /\ queue' \in [Turns -> Seq(Calls)]
                  /\ executed' \subseteq Turns \X Calls
                  /\ at'[t] = "save"
      BY <3>1, <3>2 DEF Finish, ForgetRequest, Goto
    <3>3. CASE Admit(t) \/ Register(t) \/ Refuse(t)
      BY <3>3 DEF Admit, Register, Refuse, Goto
    <3>4. CASE Leave(t)
      BY <3>1, <3>4 DEF Leave, ForgetRequest, Goto
    <3>5. CASE Fail(t)
      <4>1. CASE ContextFails(t) \/ RequestTooLarge(t) \/ CallRaises(t) \/ WaitRaises(t)
                 \/ SaveFails(t)
        BY <4>1 DEF ContextFails, RequestTooLarge, CallRaises, WaitRaises, SaveFails, Move, Goto
      <4>2. CASE RequestFails(t)
        BY <3>2, <4>2 DEF RequestFails
      <4>3. QED
        BY <3>5, <4>1, <4>2 DEF Fail
    <3>6. CASE CallRefused(t) \/ CallAllowed(t) \/ CallAsked(t) \/ WaitStep(t) \/ WaitEnds(t)
      BY <3>6 DEF CallRefused, CallAllowed, CallAsked, WaitStep, WaitEnds, Move, Goto
    <3>7. CASE RunTool(t)
      <4>1. at[t] = "run" /\ at' = [at EXCEPT ![t] = "result"] /\ UNCHANGED <<queue, pending>>
            /\ executed' = executed \cup {<<t, Call(t)>>}
        BY <3>7 DEF RunTool, Goto
      <4>2. Call(t) \in Calls
        BY <4>1, TailFacts DEF Call
      <4>3. QED
        BY <4>1, <4>2
    <3>8. CASE RecordResult(t)
      <4>1. /\ at[t] = "result" /\ UNCHANGED executed
            /\ at' = [at EXCEPT ![t] = IF Len(queue[t]) = 1 THEN "ask" ELSE "check"]
            /\ queue' = [queue EXCEPT ![t] = Tail(queue[t])]
            /\ DOMAIN pending' = Turns
        BY <3>8 DEF RecordResult, Goto
      <4>2. Tail(queue[t]) \in Seq(Calls) /\ (Len(queue[t]) # 1 => Tail(queue[t]) # <<>>)
        BY <4>1, TailFacts
      <4>3. QED
        BY <4>1, <4>2
    <3>9. CASE Save(t) \/ Load(t) \/ SendRequest(t)
      BY <3>9 DEF Save, Load, SendRequest, Move, Goto
    <3>10. CASE StopStep(t) \/ RespondText(t) \/ Summarised(t)
      BY <3>2, <3>10 DEF StopStep, Stop, RespondText, Summarised
    <3>11. ASSUME NEW calls \in Batches[t], RespondCalls(t, calls) \/ LimitReached(t, calls)
          PROVE  /\ DOMAIN at' = Turns /\ DOMAIN pending' = Turns
                 /\ queue' \in [Turns -> Seq(Calls)]
                 /\ executed' \subseteq Turns \X Calls
                 /\ at'[t] \in {"check", "wait", "run", "result"} => queue'[t] # <<>>
      <4>1. calls \in Seq(Calls) /\ calls # <<>>
        BY ChatAssumption
      <4>2. CASE RespondCalls(t, calls)
        BY <4>1, <4>2 DEF RespondCalls, Goto
      <4>3. CASE LimitReached(t, calls)
        BY <4>3 DEF LimitReached, Goto
      <4>4. QED
        BY <3>11, <4>2, <4>3
    <3>12. QED
      BY <1>2, <3>3, <3>5, <3>6, <3>7, <3>8, <3>9, <3>11, <3>4, <3>2, <3>10
      DEF Proceed
  <2>3. QED
    BY <2>1, <2>2 DEF CallInv, SameTurn
<1>3. QED
  BY <1>1, <1>2 DEF Next
\* An approval that the row has, or the worker that waits, was answered ...
ApprovalsAnswered ==
    /\ DOMAIN row = Requests
    /\ DOMAIN wait = Requests
    /\ \A r \in Requests : row[r] = "approved" => <<r, "approved">> \in answers
    /\ \A r \in Requests : wait[r] = "approved" => <<r, "approved">> \in answers

\* ... and so was that of a risky call which is about to run: between the answer and the call lie
\* the poll, the return of the wait and the step to the tool.
ConfirmInv ==
    /\ CallInv
    /\ ApprovalsAnswered
    /\ \A t \in Turns : at[t] = "run" /\ Call(t) \in Risky =>
           <<<<t, Call(t)>>, "approved">> \in answers
    /\ ConfirmedBeforeRun

LEMMA InitConfirm == ChatInit => ConfirmInv
<1>1. ChatInit => CallInv
  BY InitCalls
<1>2. QED
  BY <1>1 DEF ChatInit, ConfirmInv, ApprovalsAnswered, ConfirmedBeforeRun,
      Confirm!ConfirmationInit

LEMMA ConfirmationSteps ==
  ASSUME ApprovalsAnswered, NEW r,
         \/ Confirm!Ask(r) \/ Confirm!Poll(r) \/ Confirm!GiveUp(r) \/ Confirm!Lapse(r)
         \/ Confirm!Return(r) \/ Confirm!Decider \/ UNCHANGED confirmationVars
  PROVE  ApprovalsAnswered' /\ answers \subseteq answers'
<1> USE DEF ApprovalsAnswered
<1>1. CASE Confirm!Ask(r) \/ Confirm!Lapse(r) \/ Confirm!Return(r) \/ UNCHANGED confirmationVars
  BY <1>1 DEF Confirm!Ask, Confirm!Lapse, Confirm!Return, confirmationVars
<1>2. CASE Confirm!Poll(r) \/ Confirm!GiveUp(r)
  BY <1>2 DEF Confirm!Poll, Confirm!GiveUp
<1>3. CASE Confirm!Decider
  <2>1. PICK q \in Requests, status \in Confirm!Decided :
               Confirm!DecideRead(q, status) \/ Confirm!DecideWrite(q, status)
    BY <1>3 DEF Confirm!Decider
  <2>2. CASE Confirm!DecideRead(q, status)
    BY <2>2 DEF Confirm!DecideRead
  <2>3. CASE Confirm!DecideWrite(q, status)
    BY <2>3 DEF Confirm!DecideWrite
  <2>4. QED
    BY <2>1, <2>2, <2>3
<1>4. QED
  BY <1>1, <1>2, <1>3

\* Every step takes one of the steps of ToolConfirmation, or none.
LEMMA NextApprovals ==
  ASSUME ApprovalsAnswered, [Next]_vars
  PROVE  ApprovalsAnswered' /\ answers \subseteq answers'
<1> USE DEF confirmationVars
<1>1. CASE Outside \/ UNCHANGED vars
  <2>1. Confirm!Decider \/ UNCHANGED confirmationVars
    BY <1>1 DEF Outside, CancelSession, ShutdownBegins, ShutdownCancels, Delete, DeleteBegins,
         DeleteCancels, DeleteWaited, DeleteTimesOut, DeleteFile, DeleteRow, DeleteStep, vars
  <2>2. QED
    BY <2>1, ConfirmationSteps
<1>2. ASSUME NEW t \in Turns, Admit(t) \/ Proceed(t) \/ Fail(t)
      PROVE  ApprovalsAnswered' /\ answers \subseteq answers'
  <2> DEFINE r == <<t, Call(t)>>
  <2>1. \/ Confirm!Ask(r) \/ Confirm!Poll(r) \/ Confirm!GiveUp(r) \/ Confirm!Lapse(r)
        \/ Confirm!Return(r) \/ UNCHANGED confirmationVars
    <3>1. CASE CallAsked(t) \/ WaitStep(t) \/ WaitEnds(t) \/ WaitRaises(t)
      BY <3>1, SMTT(30) DEF CallAsked, WaitStep, WaitEnds, WaitRaises
    <3>2. CASE Admit(t) \/ Register(t) \/ Refuse(t) \/ Leave(t) \/ Load(t) \/ StopStep(t)
               \/ SendRequest(t) \/ RespondText(t) \/ Summarised(t)
               \/ \E calls \in Batches[t] : RespondCalls(t, calls) \/ LimitReached(t, calls)
      BY <3>2 DEF Admit, Register, Refuse, Leave, Load, StopStep, Stop, SendRequest, RespondText,
           Summarised, RespondCalls, LimitReached, Move, Finish
    <3>3. CASE CallRefused(t) \/ CallAllowed(t) \/ RunTool(t) \/ RecordResult(t) \/ Save(t)
      BY <3>3 DEF CallRefused, CallAllowed, RunTool, RecordResult, Save, Move
    <3>4. CASE Fail(t) /\ ~WaitRaises(t)
      BY <3>4 DEF Fail, ContextFails, RequestTooLarge, RequestFails, CallRaises, SaveFails, Move,
           Finish
    <3>5. QED
      BY <1>2, <3>1, <3>2, <3>3, <3>4 DEF Proceed
  <2>2. QED
    BY <2>1, ConfirmationSteps
<1>3. QED
  BY <1>1, <1>2 DEF Next

\* A thread comes to run a call from a policy that does not ask, or from a wait that was approved.
LEMMA ComesToRun ==
  ASSUME CallInv, NEW t \in Turns, Admit(t) \/ Proceed(t) \/ Fail(t), at'[t] = "run"
  PROVE  /\ queue'[t] = queue[t]
         /\ \/ at[t] = "run"
            \/ Call(t) \notin Risky
            \/ wait[<<t, Call(t)>>] = "approved"
<1> USE DEF CallInv
<1>1. CASE CallAllowed(t) \/ WaitEnds(t) \/ WaitStep(t)
  BY <1>1 DEF CallAllowed, WaitEnds, WaitStep, Move, Goto, loopVars, Approved
<1>2. ASSUME NEW from, NEW to, Goto(t, from, to), to # "run" PROVE FALSE
  BY <1>2 DEF Goto
<1>3. CASE Fail(t)
  BY <1>2, <1>3, FailKinds DEF WaitRaises, Move, Finish
<1>4. CASE Admit(t) \/ Register(t) \/ Refuse(t) \/ Leave(t) \/ Load(t) \/ StopStep(t)
           \/ SendRequest(t) \/ RespondText(t) \/ Summarised(t)
           \/ \E calls \in Batches[t] : RespondCalls(t, calls) \/ LimitReached(t, calls)
  BY <1>2, <1>4 DEF Admit, Register, Refuse, Leave, Load, StopStep, Stop, SendRequest,
       RespondText, Summarised, RespondCalls, LimitReached, Move, Finish
<1>5. CASE CallRefused(t) \/ CallAsked(t) \/ RunTool(t) \/ RecordResult(t) \/ Save(t)
  BY <1>2, <1>5 DEF CallRefused, CallAsked, RunTool, RecordResult, Save, Move
<1>6. QED
  BY <1>1, <1>3, <1>4, <1>5 DEF Proceed

\* A call that runs was about to.
LEMMA RunsWhatWasDue ==
  ASSUME CallInv, NEW t \in Turns, Admit(t) \/ Proceed(t) \/ Fail(t),
         NEW e \in executed', e \notin executed
  PROVE  at[t] = "run" /\ e = <<t, Call(t)>>
<1>1. CASE RunTool(t)
  BY <1>1 DEF RunTool, Goto
<1>2. CASE Fail(t)
  BY <1>2, FailKinds DEF WaitRaises, Move, Finish, toolVars
<1>3. CASE Admit(t) \/ Register(t) \/ Refuse(t) \/ Leave(t) \/ Load(t) \/ StopStep(t)
           \/ SendRequest(t) \/ RespondText(t) \/ Summarised(t)
           \/ \E calls \in Batches[t] : RespondCalls(t, calls) \/ LimitReached(t, calls)
  BY <1>3 DEF Admit, Register, Refuse, Leave, Load, StopStep, Stop, SendRequest,
       RespondText, Summarised, RespondCalls, LimitReached, Move, Finish, toolVars
<1>4. CASE CallRefused(t) \/ CallAllowed(t) \/ CallAsked(t) \/ WaitStep(t) \/ WaitEnds(t)
           \/ RecordResult(t) \/ Save(t)
  BY <1>4 DEF CallRefused, CallAllowed, CallAsked, WaitStep, WaitEnds, RecordResult, Save, Move,
       toolVars
<1>5. QED
  BY <1>1, <1>2, <1>3, <1>4 DEF Proceed

\* Every step keeps the approvals answered.
LEMMA NextConfirm ==
  ASSUME ConfirmInv, [Next]_vars
  PROVE  ConfirmInv'
<1>1. CallInv /\ CallInv' /\ ApprovalsAnswered /\ ApprovalsAnswered' /\ answers \subseteq answers'
  BY NextCalls, NextApprovals DEF ConfirmInv, ApprovalsAnswered
<1>2. CASE Outside \/ UNCHANGED vars
  BY <1>1, <1>2, StepOutside DEF ConfirmInv, ApprovalsAnswered, ConfirmedBeforeRun, Call
<1>3. ASSUME NEW t \in Turns, Admit(t) \/ Proceed(t) \/ Fail(t) PROVE ConfirmInv'
  <2>1. ASSUME NEW u \in Turns, at'[u] = "run", Call(u)' \in Risky
        PROVE  <<<<u, Call(u)'>>, "approved">> \in answers'
    <3>1. CASE u = t
      BY <1>1, <1>3, <2>1, <3>1, ComesToRun DEF ConfirmInv, ApprovalsAnswered,
           Call, Requests
    <3>2. CASE u # t
      BY <1>1, <1>3, <2>1, <3>2, StepOfOneTurn DEF ConfirmInv, Call, SameTurn
    <3>3. QED
      BY <3>1, <3>2
  <2>2. ASSUME NEW e \in executed', e[2] \in Risky PROVE <<e, "approved">> \in answers'
    BY <1>1, <1>3, <2>2, RunsWhatWasDue DEF ConfirmInv, ConfirmedBeforeRun
  <2>3. QED
    BY <1>1, <2>1, <2>2 DEF ConfirmInv, ApprovalsAnswered, ConfirmedBeforeRun
<1>4. QED
  BY <1>2, <1>3 DEF Next

\* A risky call runs only when an approval of that very call was accepted, whatever decisions,
\* timeouts and cancellations race with it.
THEOREM RiskyCallsConfirmed == ChatSpec => []ConfirmedBeforeRun
<1>1. ConfirmInv => ConfirmedBeforeRun
  BY DEF ConfirmInv
<1>2. QED
  BY InitConfirm, NextConfirm, <1>1, PTL DEF ChatSpec
\* A call that began after the cancellation is the turn's last: its result is not recorded, so the
\* thread can only stop, save and leave, and its token stays cancelled until it has left.
LateInv ==
    /\ CallInv
    /\ cancelled \in [Turns -> BOOLEAN]
    /\ lateRuns \subseteq executed
    /\ \A e \in lateRuns : cancelled[e[1]] /\ at[e[1]] \in {"result", "save", "leave"}
    /\ OneToolAfterCancel

LEMMA InitLate == ChatInit => LateInv
<1>1. ChatInit => CallInv
  BY InitCalls
<1>2. QED
  BY <1>1 DEF ChatInit, LateInv, OneToolAfterCancel

\* A token is only set back when its turn has left.
LEMMA TokensStay ==
  ASSUME [Next]_vars, cancelled \in [Turns -> BOOLEAN], NEW u \in Turns, cancelled[u],
         ~Leave(u)
  PROVE  cancelled'[u]
<1> USE DEF tokenVars
<1>1. CASE Outside \/ UNCHANGED vars
  BY <1>1 DEF Outside, CancelSession, ShutdownBegins, ShutdownCancels, Delete, DeleteBegins,
     DeleteCancels, DeleteWaited, DeleteTimesOut, DeleteFile, DeleteRow, DeleteStep, vars
<1>2. ASSUME NEW t \in Turns, Admit(t) \/ Proceed(t) \/ Fail(t) PROVE cancelled'[u]
  <2>1. CASE Leave(t)
    <3>1. t # u
      BY <2>1
    <3>2. QED
      BY <2>1, <3>1 DEF Leave
  <2>2. CASE Register(t)
    BY <2>2 DEF Register
  <2>3. CASE Fail(t)
    BY <2>3, FailKinds DEF WaitRaises, Move, Finish, LoopStep
  <2>4. CASE Admit(t) \/ Refuse(t) \/ Load(t) \/ StopStep(t)
             \/ SendRequest(t) \/ RespondText(t) \/ Summarised(t)
             \/ \E calls \in Batches[t] : RespondCalls(t, calls) \/ LimitReached(t, calls)
    BY <2>4 DEF Admit, Refuse, Load, StopStep, Stop, SendRequest, RespondText, Summarised,
         RespondCalls, LimitReached, Move, Finish, LoopStep
  <2>5. CASE CallRefused(t) \/ CallAllowed(t) \/ CallAsked(t) \/ WaitStep(t) \/ WaitEnds(t)
             \/ RunTool(t) \/ RecordResult(t) \/ Save(t)
    BY <2>5 DEF CallRefused, CallAllowed, CallAsked, WaitStep, WaitEnds, RunTool, RecordResult,
         Save, Move, LoopStep
  <2>6. QED
    BY <1>2, <2>1, <2>2, <2>3, <2>4, <2>5 DEF Proceed
<1>3. QED
  BY <1>1, <1>2 DEF Next

\* The steps of a cancelled turn from the result of a call on.
LEMMA CancelledEnds ==
  ASSUME CallInv, cancelled \in [Turns -> BOOLEAN], NEW t \in Turns,
         Admit(t) \/ Proceed(t) \/ Fail(t), cancelled[t], at[t] \in {"result", "save", "leave"}
  PROVE  \/ at'[t] \in {"result", "save", "leave"} /\ ~Leave(t)
         \/ Leave(t) /\ \A e \in lateRuns' : e[1] # t
<1> USE DEF CallInv
<1>1. CASE Leave(t)
  BY <1>1 DEF Leave
<1>2. CASE ~Leave(t)
  <2>1. ASSUME NEW from, NEW to, Goto(t, from, to), from \notin {"result", "save", "leave"}
        PROVE  FALSE
    BY <2>1 DEF Goto
  <2>2. CASE StopStep(t) \/ Save(t) \/ SaveFails(t)
    BY <1>2, <2>2 DEF StopStep, Stop, Finish, Save, SaveFails, Move, Goto
  <2>3. CASE RecordResult(t)
    BY <2>3 DEF RecordResult, StopSeen
  <2>4. CASE WaitStep(t)
    BY <2>4 DEF WaitStep
  <2>5. CASE Fail(t) /\ ~SaveFails(t)
    BY <2>1, <2>5 DEF Fail, ContextFails, RequestTooLarge, RequestFails, CallRaises, WaitRaises,
         Move, Finish
  <2>6. CASE Admit(t) \/ Register(t) \/ Refuse(t) \/ Load(t)
             \/ SendRequest(t) \/ RespondText(t) \/ Summarised(t)
             \/ \E calls \in Batches[t] : RespondCalls(t, calls) \/ LimitReached(t, calls)
    BY <2>1, <2>6 DEF Admit, Register, Refuse, Load, SendRequest,
         RespondText, Summarised, RespondCalls, LimitReached, Move, Finish
  <2>7. CASE CallRefused(t) \/ CallAllowed(t) \/ CallAsked(t) \/ WaitEnds(t) \/ RunTool(t)
    BY <2>1, <2>7 DEF CallRefused, CallAllowed, CallAsked, WaitEnds, RunTool, Move
  <2>8. QED
    BY <1>2, <2>2, <2>3, <2>4, <2>5, <2>6, <2>7 DEF Proceed
<1>3. QED
  BY <1>1, <1>2

\* What a turn has run is forgotten only when it leaves.
LEMMA RanStays ==
  ASSUME NEW t \in Turns, Admit(t) \/ Proceed(t) \/ Fail(t), ~Leave(t),
         NEW e \in executed
  PROVE  e \in executed'
<1>1. CASE RunTool(t)
  BY <1>1 DEF RunTool
<1>2. CASE Fail(t)
  BY <1>2, FailKinds DEF WaitRaises, Move, Finish, toolVars
<1>3. CASE Admit(t) \/ Register(t) \/ Refuse(t) \/ Load(t) \/ StopStep(t)
           \/ SendRequest(t) \/ RespondText(t) \/ Summarised(t)
           \/ \E calls \in Batches[t] : RespondCalls(t, calls) \/ LimitReached(t, calls)
  BY <1>3 DEF Admit, Register, Refuse, Load, StopStep, Stop, SendRequest,
       RespondText, Summarised, RespondCalls, LimitReached, Move, Finish, toolVars
<1>4. CASE CallRefused(t) \/ CallAllowed(t) \/ CallAsked(t) \/ WaitStep(t) \/ WaitEnds(t)
           \/ RecordResult(t) \/ Save(t)
  BY <1>4 DEF CallRefused, CallAllowed, CallAsked, WaitStep, WaitEnds, RecordResult, Save, Move,
       toolVars
<1>5. QED
  BY <1>1, <1>2, <1>3, <1>4 DEF Proceed

\* A late call begins from the place before the tool, in a turn whose token is set.
LEMMA LateCallBegins ==
  ASSUME CallInv, NEW t \in Turns, Admit(t) \/ Proceed(t) \/ Fail(t),
         NEW e \in lateRuns', e \notin lateRuns
  PROVE  /\ at[t] = "run" /\ cancelled[t] /\ e = <<t, Call(t)>>
         /\ at'[t] = "result" /\ cancelled'[t] /\ e \in executed'
<1>1. CASE RunTool(t)
  BY <1>1 DEF RunTool, Goto, LoopStep, tokenVars, CallInv
<1>2. CASE Fail(t)
  BY <1>2, FailKinds DEF WaitRaises, Move, Finish, toolVars
<1>3. CASE Admit(t) \/ Register(t) \/ Refuse(t) \/ Leave(t) \/ Load(t) \/ StopStep(t)
           \/ SendRequest(t) \/ RespondText(t) \/ Summarised(t)
           \/ \E calls \in Batches[t] : RespondCalls(t, calls) \/ LimitReached(t, calls)
  BY <1>3 DEF Admit, Register, Refuse, Leave, Load, StopStep, Stop, SendRequest,
       RespondText, Summarised, RespondCalls, LimitReached, Move, Finish, toolVars
<1>4. CASE CallRefused(t) \/ CallAllowed(t) \/ CallAsked(t) \/ WaitStep(t) \/ WaitEnds(t)
           \/ RecordResult(t) \/ Save(t)
  BY <1>4 DEF CallRefused, CallAllowed, CallAsked, WaitStep, WaitEnds, RecordResult, Save, Move,
       toolVars
<1>5. QED
  BY <1>1, <1>2, <1>3, <1>4 DEF Proceed
\* Every step keeps the last call of a cancelled turn the only late one.
LEMMA NextLate ==
  ASSUME LateInv, [Next]_vars, RegistryInv, RegistryInv'
  PROVE  LateInv'
<1>1. CallInv /\ CallInv' /\ cancelled' \in [Turns -> BOOLEAN]
  BY NextCalls DEF LateInv, RegistryInv
<1>2. \A e \in lateRuns : e[1] \in Turns
  BY DEF LateInv, CallInv
<1>3. CASE Outside \/ UNCHANGED vars
  <2>1. UNCHANGED <<at, executed, lateRuns>>
    BY <1>3, StepOutside
  <2>2. \A u \in Turns : ~Leave(u) \/ lateRuns = {}
    BY <2>1, <1>1 DEF Leave, Goto, CallInv
  <2>3. \A e \in lateRuns : cancelled'[e[1]]
    BY <1>2, <2>2, TokensStay DEF LateInv
  <2>4. QED
    BY <1>1, <2>1, <2>3 DEF LateInv, OneToolAfterCancel
<1>4. ASSUME NEW t \in Turns, Admit(t) \/ Proceed(t) \/ Fail(t) PROVE LateInv'
  <2>1. \A u \in Turns \ {t} : SameTurn(u)
    BY <1>1, <1>4, StepOfOneTurn
  <2>2. \A u \in Turns \ {t} : ~Leave(u)
    BY <1>1, <2>1 DEF SameTurn, Leave, Goto, CallInv
  <2>3. ASSUME NEW e \in lateRuns'
        PROVE  /\ e \in executed'
               /\ cancelled'[e[1]] /\ at'[e[1]] \in {"result", "save", "leave"}
    <3>1. CASE e \notin lateRuns
      BY <1>1, <1>4, <2>3, <3>1, LateCallBegins
    <3>2. CASE e \in lateRuns /\ e[1] # t
      BY <1>2, <2>1, <2>2, <3>2, TokensStay DEF LateInv, SameTurn
    <3>3. CASE e \in lateRuns /\ e[1] = t
      <4>1. cancelled[t] /\ at[t] \in {"result", "save", "leave"} /\ e \in executed
        BY <3>3 DEF LateInv
      <4>2. ~Leave(t) /\ at'[t] \in {"result", "save", "leave"}
        BY <1>1, <1>4, <2>3, <3>3, <4>1, CancelledEnds DEF LateInv
      <4>3. cancelled'[t]
        BY <4>1, <4>2, TokensStay DEF LateInv
      <4>4. e \in executed'
        BY <1>4, <4>1, <4>2, RanStays
      <4>5. QED
        BY <3>3, <4>2, <4>3, <4>4
    <3>4. QED
      BY <3>1, <3>2, <3>3
  <2>4. ASSUME NEW e \in lateRuns', NEW f \in lateRuns', e[1] = f[1] PROVE e = f
    <3>1. CASE e \in lateRuns /\ f \in lateRuns
      BY <2>4, <3>1 DEF LateInv, OneToolAfterCancel
    <3>2. ASSUME NEW g \in lateRuns', g \notin lateRuns, NEW h \in lateRuns, h[1] = g[1]
          PROVE  FALSE
      BY <1>1, <1>4, <3>2, LateCallBegins DEF LateInv
    <3>3. CASE e \notin lateRuns /\ f \notin lateRuns
      BY <1>1, <1>4, <2>4, <3>3, LateCallBegins
    <3>4. QED
      BY <2>4, <3>1, <3>2, <3>3
  <2>5. QED
    BY <1>1, <2>3, <2>4 DEF LateInv, OneToolAfterCancel
<1>5. QED
  BY <1>3, <1>4 DEF Next

\* A turn that was cancelled begins at most the one tool call that had passed its checkpoint.
THEOREM OneLateCall == ChatSpec => []OneToolAfterCancel
<1>1. LateInv => OneToolAfterCancel
  BY DEF LateInv
<1>2. QED
  BY InitRegistry, NextRegistry, InitLate, NextLate, <1>1, PTL DEF ChatSpec
\* A sequence, whatever its elements: a message's index comes from the session's file.
IsSeq(s) == s \in Seq(ToSet(s))

\* The calls that some messages ask for.
CallsOf(s) == UNION {ToSet(s[i].calls) : i \in 1 .. Len(s)}

LEMMA SeqIsSeq ==
  ASSUME NEW S, NEW s \in Seq(S)
  PROVE  IsSeq(s)
<1>1. s \in [1 .. Len(s) -> S] /\ Len(s) \in Nat /\ DOMAIN s = 1 .. Len(s)
  BY LenProperties
<1>2. s \in [1 .. Len(s) -> ToSet(s)]
  BY <1>1 DEF ToSet
<1>3. QED
  BY <1>1, <1>2, SeqDef DEF IsSeq

\* Messages that are added take nothing away from what the turn was asked.
LEMMA AddedMessages ==
  ASSUME NEW s, IsSeq(s), NEW m, IsSeq(m)
  PROVE  IsSeq(s \o m) /\ CallsOf(s) \subseteq CallsOf(s \o m)
<1> DEFINE S == ToSet(s) \cup ToSet(m)
<1>1. s \in Seq(S) /\ m \in Seq(S)
  BY SeqMonotonic DEF IsSeq
<1> HIDE DEF S
<1>2. /\ s \o m \in Seq(S) /\ Len(s \o m) = Len(s) + Len(m)
      /\ \A i \in 1 .. Len(s) + Len(m) : (s \o m)[i] = IF i <= Len(s) THEN s[i] ELSE m[i - Len(s)]
  BY <1>1, ConcatProperties
<1>3. Len(s) \in Nat /\ Len(m) \in Nat
  BY <1>1, LenProperties
<1>4. \A i \in 1 .. Len(s) : i \in 1 .. Len(s \o m) /\ (s \o m)[i] = s[i]
  BY <1>2, <1>3
<1>5. QED
  BY <1>2, <1>4, SeqIsSeq DEF CallsOf

LEMMA AddedMessage ==
  ASSUME NEW s, IsSeq(s), NEW m
  PROVE  /\ IsSeq(Append(s, m))
         /\ CallsOf(s) \cup ToSet(m.calls) \subseteq CallsOf(Append(s, m))
<1> DEFINE S == ToSet(s) \cup {m}
<1>1. s \in Seq(S) /\ m \in S
  BY SeqMonotonic DEF IsSeq
<1> HIDE DEF S
<1>2. /\ Append(s, m) \in Seq(S) /\ Len(Append(s, m)) = Len(s) + 1
      /\ \A i \in 1 .. Len(s) : Append(s, m)[i] = s[i]
      /\ Append(s, m)[Len(s) + 1] = m
  BY <1>1, AppendProperties
<1>3. Len(s) \in Nat
  BY <1>1, LenProperties
<1>4. /\ \A i \in 1 .. Len(s) : i \in 1 .. Len(Append(s, m))
      /\ Len(s) + 1 \in 1 .. Len(Append(s, m))
  BY <1>2, <1>3
<1>5. QED
  BY <1>2, <1>4, SeqIsSeq DEF CallsOf
\* Where a turn has messages to append, those ask for what it has run and for what waits in its
\* queue; before that it has run nothing, and a turn that leaves does not append any more.
Traced(t) ==
    /\ IsSeq(pending[t])
    /\ at[t] \in {"new", "admitted", "start", "ended"} => Ran(t) = {}
    /\ at[t] \in Running \ {"start", "leave"} => \A e \in Ran(t) : e[2] \in Asked(t)
    /\ at[t] \in {"check", "wait", "run", "result"} => ToSet(queue[t]) \subseteq Asked(t)

TraceInv == CallInv /\ \A t \in Turns : Traced(t)

LEMMA AskedIsCallsOf == \A t \in Turns : Asked(t) = CallsOf(pending[t])
BY DEF Asked, CallsOf

LEMMA InitTrace == ChatInit => TraceInv
<1>1. ChatInit => CallInv
  BY InitCalls
<1>2. IsSeq(<<>>)
  BY EmptySeq, SeqIsSeq
<1>3. QED
  BY <1>1, <1>2 DEF ChatInit, TraceInv, Traced, Ran, Running

LEMMA SameTurnTraced ==
  ASSUME NEW u \in Turns, SameTurn(u), Traced(u)
  PROVE  Traced(u)'
BY DEF SameTurn, Traced, Ran, Asked

\* A step that only moves the thread, among the places where it has messages or out of them.
LEMMA MoveTraced ==
  ASSUME CallInv, NEW t \in Turns, Traced(t), UNCHANGED <<queue, pending, executed>>,
         NEW from, NEW to, Goto(t, from, to),
         \/ to = "leave"
         \/ {from, to} \subseteq {"new", "admitted", "start", "ended"}
         \/ {from, to} \subseteq {"ask", "model"}
         \/ {from, to} \subseteq {"check", "wait", "run", "result"}
  PROVE  Traced(t)'
<1>1. at[t] = from /\ at'[t] = to
  BY DEF Goto, CallInv
<1>2. QED
  BY <1>1 DEF Traced, Ran, Asked, Running

\* A step that ends the loop adds to the messages.
LEMMA FinishTraced ==
  ASSUME CallInv, NEW t \in Turns, Traced(t), NEW m, IsSeq(m), NEW from, Finish(t, from, m),
         from \in Running \ {"start", "leave"}
  PROVE  Traced(t)'
<1>1. /\ at[t] = from /\ at'[t] = "save" /\ executed' = executed
      /\ pending'[t] = pending[t] \o m
  BY DEF Finish, Goto, CallInv, toolVars
<1>2. IsSeq(pending'[t]) /\ CallsOf(pending[t]) \subseteq CallsOf(pending'[t])
  BY <1>1, AddedMessages DEF Traced
<1>3. Asked(t) \subseteq Asked(t)'
  BY <1>2 DEF Asked, CallsOf
<1>4. QED
  BY <1>1, <1>2, <1>3 DEF Traced, Ran

LEMMA OneMessage == \A m : IsSeq(<<m>>)
<1>1. \A m : <<m>> \in Seq({m})
  BY EmptySeq, AppendProperties
<1>2. QED
  BY <1>1, SeqIsSeq

\* The model asks for calls.
LEMMA RespondTraced ==
  ASSUME CallInv, NEW t \in Turns, Traced(t), NEW calls \in Batches[t], RespondCalls(t, calls)
  PROVE  Traced(t)'
<1>1. /\ at[t] = "model" /\ at'[t] = "check" /\ executed' = executed
      /\ queue'[t] = calls /\ pending'[t] = Append(pending[t], Asks(t, calls))
  BY DEF RespondCalls, Goto, CallInv, toolVars
<1>2. /\ IsSeq(pending'[t])
      /\ CallsOf(pending[t]) \cup ToSet(Asks(t, calls).calls) \subseteq CallsOf(pending'[t])
  BY <1>1, AddedMessage DEF Traced
<1>3. Asks(t, calls).calls = calls
  BY DEF Asks
<1>4. Asked(t) \cup ToSet(calls) \subseteq Asked(t)'
  BY <1>2, <1>3 DEF Asked, CallsOf
<1>5. QED
  BY <1>1, <1>2, <1>4 DEF Traced, Ran, Running

LEMMA LimitTraced ==
  ASSUME CallInv, NEW t \in Turns, Traced(t), NEW calls \in Batches[t], LimitReached(t, calls)
  PROVE  Traced(t)'
<1> DEFINE errors == [i \in 1 .. Len(calls) |-> Answer(t, calls[i])]
<1>1. /\ at[t] = "model" /\ at'[t] = "summary" /\ executed' = executed
      /\ pending'[t] = pending[t] \o <<Asks(t, calls)>> \o errors \o <<Text(t)>>
  BY DEF LimitReached, Goto, CallInv, toolVars
<1>2. IsSeq(errors)
  <2>1. Len(calls) \in Nat
    BY ChatAssumption, LenProperties
  <2>2. errors \in [1 .. Len(calls) -> {Answer(t, calls[i]) : i \in 1 .. Len(calls)}]
    OBVIOUS
  <2>3. errors \in Seq({Answer(t, calls[i]) : i \in 1 .. Len(calls)})
    BY <2>1, <2>2, SeqDef
  <2>4. QED
    BY <2>3, SeqIsSeq
<1> HIDE DEF errors
<1>3. IsSeq(pending'[t]) /\ CallsOf(pending[t]) \subseteq CallsOf(pending'[t])
  <2> DEFINE p == pending[t] \o <<Asks(t, calls)>>
             q == p \o errors
  <2>1. IsSeq(p) /\ CallsOf(pending[t]) \subseteq CallsOf(p)
    BY OneMessage, AddedMessages DEF Traced
  <2> HIDE DEF p
  <2>2. IsSeq(q) /\ CallsOf(p) \subseteq CallsOf(q)
    BY <1>2, <2>1, AddedMessages
  <2> HIDE DEF q
  <2>3. IsSeq(q \o <<Text(t)>>) /\ CallsOf(q) \subseteq CallsOf(q \o <<Text(t)>>)
    BY <2>2, OneMessage, AddedMessages
  <2>4. pending'[t] = q \o <<Text(t)>>
    BY <1>1 DEF p, q
  <2>5. QED
    BY <2>1, <2>2, <2>3, <2>4
<1>4. Asked(t) \subseteq Asked(t)'
  BY <1>3 DEF Asked, CallsOf
<1>5. QED
  BY <1>1, <1>3, <1>4 DEF Traced, Ran, Running

\* The tool runs the call at the head of the queue, ...
LEMMA RunTraced ==
  ASSUME CallInv, NEW t \in Turns, Traced(t), RunTool(t)
  PROVE  Traced(t)'
<1>1. /\ at[t] = "run" /\ at'[t] = "result" /\ UNCHANGED <<queue, pending>>
      /\ executed' = executed \cup {<<t, Call(t)>>}
  BY DEF RunTool, Goto, CallInv, loopVars
<1>2. Call(t) \in ToSet(queue[t])
  BY <1>1, TailFacts DEF CallInv, Call
<1>3. QED
  BY <1>1, <1>2 DEF Traced, Ran, Asked, Running

\* ... which its result takes off.
LEMMA RecordTraced ==
  ASSUME CallInv, NEW t \in Turns, Traced(t), RecordResult(t)
  PROVE  Traced(t)'
<1>1. /\ at[t] = "result" /\ at'[t] \in {"ask", "check"} /\ executed' = executed
      /\ queue'[t] = Tail(queue[t]) /\ pending'[t] = Append(pending[t], Answer(t, Call(t)))
  BY DEF RecordResult, Goto, CallInv, toolVars
<1>2. IsSeq(pending'[t]) /\ CallsOf(pending[t]) \subseteq CallsOf(pending'[t])
  BY <1>1, AddedMessage DEF Traced
<1>3. ToSet(queue'[t]) \subseteq ToSet(queue[t])
  BY <1>1, TailFacts DEF CallInv
<1>4. Asked(t) \subseteq Asked(t)'
  BY <1>2 DEF Asked, CallsOf
<1>5. QED
  BY <1>1, <1>2, <1>3, <1>4 DEF Traced, Ran, Running

\* The ends of a turn's messages: they are loaded, appended, and gone with the turn.
LEMMA EndsTraced ==
  ASSUME CallInv, NEW t \in Turns, Traced(t), Load(t) \/ Save(t) \/ Leave(t)
  PROVE  Traced(t)'
<1>1. IsSeq(<<>>)
  BY EmptySeq, SeqIsSeq
<1>2. CASE Load(t)
  <2>1. /\ at[t] = "start" /\ at'[t] = "ask" /\ executed' = executed
        /\ pending'[t] = <<User(t)>>
    BY <1>2 DEF Load, Goto, CallInv, toolVars
  <2>2. QED
    BY <2>1, OneMessage DEF Traced, Ran
<1>3. CASE Save(t)
  BY <1>1, <1>3 DEF Save, Goto, CallInv, Traced, Running
<1>4. CASE Leave(t)
  BY <1>1, <1>4 DEF Leave, Goto, CallInv, Traced, Ran
<1>5. QED
  BY <1>2, <1>3, <1>4

\* Every step keeps the trace.
LEMMA NextTrace ==
  ASSUME TraceInv, [Next]_vars
  PROVE  TraceInv'
<1>1. CallInv /\ CallInv'
  BY NextCalls DEF TraceInv
<1>2. CASE Outside \/ UNCHANGED vars
  <2>1. \A u \in Turns : SameTurn(u)
    BY <1>2, StepOutside DEF SameTurn
  <2>2. QED
    BY <1>1, <2>1, SameTurnTraced DEF TraceInv
<1>3. ASSUME NEW t \in Turns, Admit(t) \/ Proceed(t) \/ Fail(t) PROVE TraceInv'
  <2>1. \A u \in Turns \ {t} : Traced(u)'
    BY <1>1, <1>3, StepOfOneTurn, SameTurnTraced DEF TraceInv
  <2>2. SUFFICES Traced(t)'
    BY <1>1, <2>1 DEF TraceInv
  <2>3. Traced(t)
    BY DEF TraceInv
  <2>4. CASE Admit(t) \/ Register(t) \/ Refuse(t)
    BY <1>1, <2>3, <2>4, MoveTraced DEF Admit, Register, Refuse, loopVars, toolVars
  <2>5. CASE SendRequest(t) \/ CallRefused(t) \/ CallAllowed(t) \/ CallAsked(t) \/ WaitEnds(t)
    BY <1>1, <2>3, <2>5, MoveTraced
    DEF SendRequest, CallRefused, CallAllowed, CallAsked, WaitEnds, Move, loopVars, toolVars
  <2>6. CASE WaitStep(t)
    <3>1. SameTurn(t)
      BY <2>6 DEF WaitStep, SameTurn, loopVars, toolVars
    <3>2. QED
      BY <2>3, <3>1, SameTurnTraced
  <2>7. CASE Fail(t) /\ ~RequestFails(t)
    BY <1>1, <2>3, <2>7, MoveTraced
    DEF Fail, ContextFails, RequestTooLarge, CallRaises, WaitRaises, SaveFails, Move, loopVars,
        toolVars
  <2>8. CASE StopStep(t) \/ RequestFails(t) \/ RespondText(t) \/ Summarised(t)
    <3>1. PICK from \in {"ask", "model", "check", "result", "summary"},
               m \in {<<>>, <<Text(t)>>} : Finish(t, from, m)
      BY <2>8 DEF StopStep, Stop, RequestFails, RespondText, Summarised
    <3>2. IsSeq(m)
      BY OneMessage, EmptySeq, SeqIsSeq
    <3>3. from \in Running \ {"start", "leave"}
      BY DEF Running
    <3>4. QED
      BY <1>1, <2>3, <3>1, <3>2, <3>3, FinishTraced
  <2>9. CASE \E calls \in Batches[t] : RespondCalls(t, calls) \/ LimitReached(t, calls)
    BY <1>1, <2>3, <2>9, RespondTraced, LimitTraced
  <2>10. QED
    BY <1>1, <1>3, <2>3, <2>4, <2>5, <2>6, <2>7, <2>8, <2>9, RunTraced, RecordTraced, EndsTraced
    DEF Proceed, Fail
<1>4. QED
  BY <1>2, <1>3 DEF Next

\* A turn that appends its messages leaves a trace of every call that it ran.
THEOREM EffectsTraced == ChatSpec => []EffectsLeaveTrace
<1>1. TraceInv => EffectsLeaveTrace
  BY DEF TraceInv, Traced, Ran, EffectsLeaveTrace, Running
<1>2. QED
  BY InitTrace, NextTrace, <1>1, PTL DEF ChatSpec

(***************************************************************************)
(* What the model is sent.  ToPrompt makes whole tool blocks of any        *)
(* history, whatever turns have left there half done or written between    *)
(* each other.  While a turn answers the calls of a response, its prompt   *)
(* with the answers that its queue still owes has whole blocks, which is   *)
(* the invariant: the prompt itself does not.                              *)
(***************************************************************************)

\* The messages that are kept are counted off in their order.
LEMMA PlacesOfKept ==
  ASSUME NEW h, Len(h) \in Nat
  PROVE  LET K == KeptUpTo(h, Len(h))
             N == Cardinality(K)
         IN  /\ N \in Nat
             /\ \E f \in [1 .. N -> K] :
                    /\ \A i \in K : \E n \in 1 .. N : f[n] = i
                    /\ \A n, m \in 1 .. N : n < m => f[n] < f[m]
                    /\ ToPrompt(h) = [n \in 1 .. N |-> h[f[n]]]
<1> DEFINE K == KeptUpTo(h, Len(h))
           N == Cardinality(K)
           rank(i) == Cardinality(KeptUpTo(h, i))
           r == [i \in K |-> rank(i)]
           f == [n \in 1 .. N |-> CHOOSE i \in K : rank(i) = n]
<1>1. K \subseteq 1 .. Len(h) /\ IsFiniteSet(K) /\ N \in Nat
  <2>1. IsFiniteSet(1 .. Len(h))
    BY FS_Interval
  <2>2. K \in SUBSET (1 .. Len(h))
    BY DEF KeptUpTo
  <2>3. IsFiniteSet(K)
    BY <2>1, <2>2, FS_Subset
  <2>4. QED
    BY <2>2, <2>3, FS_CardinalityType
<1>2. \A i \in K : /\ i \in KeptUpTo(h, i) /\ KeptUpTo(h, i) \in SUBSET K
                   /\ IsFiniteSet(KeptUpTo(h, i)) /\ rank(i) \in Nat /\ rank(i) <= N
  <2>1. \A i \in K : i \in KeptUpTo(h, i) /\ KeptUpTo(h, i) \in SUBSET K
    BY <1>1 DEF KeptUpTo
  <2>2. QED
    BY <1>1, <2>1, FS_Subset, FS_CardinalityType
<1>3. \A i, j \in K : i < j => rank(i) < rank(j)
  <2> SUFFICES ASSUME NEW i \in K, NEW j \in K, i < j PROVE rank(i) < rank(j)
    OBVIOUS
  <2>1. KeptUpTo(h, i) \in SUBSET KeptUpTo(h, j) /\ j \notin KeptUpTo(h, i)
    BY <1>1 DEF KeptUpTo
  <2>2. /\ Cardinality(KeptUpTo(h, i)) <= Cardinality(KeptUpTo(h, j))
        /\ Cardinality(KeptUpTo(h, j)) = Cardinality(KeptUpTo(h, i))
              => KeptUpTo(h, j) = KeptUpTo(h, i)
    BY <1>2, <2>1, FS_Subset
  <2>3. QED
    BY <1>2, <2>1, <2>2
<1>4. \A i \in K : rank(i) \in 1 .. N
  <2> SUFFICES ASSUME NEW i \in K PROVE rank(i) # 0
    BY <1>1, <1>2
  <2>1. QED
    BY <1>2, FS_EmptySet
<1> HIDE DEF rank, N
<1>5. r \in Injection(K, 1 .. N)
  <2>1. r \in [K -> 1 .. N]
    BY <1>4
  <2>2. \A i, j \in K : r[i] = r[j] => i = j
    <3>1. \A i, j \in K : rank(i) = rank(j) => i = j
      BY <1>1, <1>3, <1>4
    <3>2. QED
      BY <3>1
  <2>3. QED
    BY <2>1, <2>2 DEF Injection, IsInjective
<1>6. \A n \in 1 .. N : \E i \in K : rank(i) = n
  <2>1. IsFiniteSet(1 .. N) /\ Cardinality(1 .. N) = N
    BY <1>1, FS_Interval, SMTT(30)
  <2>2. r \in Surjection(K, 1 .. N)
    BY <1>5, <2>1, FS_Injection DEF N
  <2>3. QED
    BY <2>2 DEF Surjection
<1>7. \A n \in 1 .. N : f[n] \in K /\ rank(f[n]) = n
  BY <1>6
<1>8. \A i \in K : f[rank(i)] = i
  BY <1>1, <1>3, <1>4, <1>7
<1>9. ToPrompt(h) = [n \in 1 .. N |-> h[f[n]]]
  BY DEF ToPrompt, N, rank
<1>10. f \in [1 .. N -> K]
  BY <1>7
<1> HIDE DEF f
<1>11. \A n, m \in 1 .. N : n < m => f[n] < f[m]
  <2> SUFFICES ASSUME NEW n \in 1 .. N, NEW m \in 1 .. N, n < m, f[m] <= f[n] PROVE FALSE
    BY <1>1, <1>7
  <2>1. f[n] \in K /\ f[m] \in K /\ rank(f[n]) = n /\ rank(f[m]) = m
    BY <1>7
  <2>2. f[m] = f[n] \/ f[m] < f[n]
    BY <1>1, <2>1
  <2>3. QED
    BY <1>1, <1>3, <2>1, <2>2
<1>12. /\ \A i \in K : \E n \in 1 .. N : f[n] = i
       /\ \A n, m \in 1 .. N : n < m => f[n] < f[m]
  BY <1>4, <1>8, <1>11
<1>13. QED
  BY <1>1, <1>9, <1>10, <1>12 DEF N

\* Whatever the history is, what is taken of it has whole blocks.
LEMMA PromptOfHistory ==
  ASSUME NEW h, Len(h) \in Nat
  PROVE  IsSeq(ToPrompt(h)) /\ WholeBlocks(ToPrompt(h))
<1> DEFINE K == KeptUpTo(h, Len(h))
           N == Cardinality(K)
           p == ToPrompt(h)
<1>1. N \in Nat
  BY PlacesOfKept
<1>2. PICK f \in [1 .. N -> K] :
          /\ \A i \in K : \E n \in 1 .. N : f[n] = i
          /\ \A n, m \in 1 .. N : n < m => f[n] < f[m]
          /\ p = [n \in 1 .. N |-> h[f[n]]]
  BY PlacesOfKept
<1>3. \A i \in 1 .. Len(h) : i \in K <=> Kept(h, i)
  BY DEF KeptUpTo
<1>4. \A n \in 1 .. N : f[n] \in 1 .. Len(h) /\ Kept(h, f[n]) /\ p[n] = h[f[n]]
  BY <1>2 DEF KeptUpTo
<1> HIDE DEF K, N, p
<1>5. p \in Seq({h[f[n]] : n \in 1 .. N}) /\ Len(p) = N
  <2>1. p \in [1 .. N -> {h[f[n]] : n \in 1 .. N}]
    BY <1>2
  <2>2. p \in Seq({h[f[n]] : n \in 1 .. N})
    BY <1>1, <2>1, SeqDef
  <2>3. Len(p) \in Nat /\ 1 .. Len(p) = 1 .. N
    BY <2>1, <2>2, LenProperties
  <2>4. QED
    BY <1>1, <2>2, <2>3
<1>6. IsSeq(p)
  BY <1>5, SeqIsSeq
<1>7. \A n, m \in 1 .. N : f[n] < f[m] => n < m
  <2> SUFFICES ASSUME NEW n \in 1 .. N, NEW m \in 1 .. N, f[n] < f[m], m <= n PROVE FALSE
    BY <1>1
  <2>1. f[n] \in 1 .. Len(h) /\ f[m] \in 1 .. Len(h)
    BY <1>4
  <2>2. m = n \/ m < n
    BY <1>1
  <2>3. f[m] = f[n] \/ f[m] < f[n]
    BY <1>2, <2>2
  <2>4. QED
    BY <2>1, <2>3
\* A result that is taken stands among the results of its message as it did before.
<1>8. ASSUME NEW n \in 1 .. N, NEW m \in 1 .. N, f[m] \in ResultsFrom(h, f[n])
      PROVE  m \in ResultsFrom(p, n)
  <2>1. /\ f[n] < f[m]
        /\ \A j \in f[n] + 1 .. f[m] : h[j].role = "tool"
        /\ h[f[m]].turn = h[f[n]].turn
        /\ \E c \in ToSet(h[f[n]].calls) : h[f[m]].calls = <<c>>
        /\ \A j \in f[n] + 1 .. f[m] - 1 : ~SameId(h[j], h[f[m]])
    BY <1>4, <1>8 DEF ResultsFrom, Row
  <2>2. n < m
    BY <1>7, <2>1
  <2>3. \A j \in n + 1 .. m : j \in 1 .. N /\ f[j] \in f[n] + 1 .. f[m] /\ p[j] = h[f[j]]
    <3> SUFFICES ASSUME NEW j \in n + 1 .. m PROVE j \in 1 .. N /\ f[n] < f[j] /\ f[j] <= f[m]
      BY <1>4
    <3>1. j \in 1 .. N /\ n < j /\ (j = m \/ j < m)
      BY <1>1
    <3>2. QED
      BY <1>2, <1>4, <3>1
  <2>4. \A j \in n + 1 .. m : p[j].role = "tool"
    BY <2>1, <2>3
  <2>5. \A j \in n + 1 .. m - 1 : ~SameId(p[j], p[m])
    <3> SUFFICES ASSUME NEW j \in n + 1 .. m - 1 PROVE ~SameId(p[j], p[m])
      OBVIOUS
    <3>1. j \in 1 .. N /\ j < m /\ p[j] = h[f[j]] /\ p[m] = h[f[m]] /\ f[n] < f[j]
      <4>1. j \in n + 1 .. m /\ j < m
        BY <1>1
      <4>2. j \in 1 .. N /\ f[j] \in f[n] + 1 .. f[m] /\ p[j] = h[f[j]]
        BY <2>3, <4>1
      <4>3. QED
        BY <1>4, <4>1, <4>2
    <3>2. f[j] \in f[n] + 1 .. f[m] - 1
      BY <1>2, <1>4, <3>1
    <3>3. QED
      BY <2>1, <3>1, <3>2
  <2>6. m \in n + 1 .. Len(p)
    BY <1>1, <1>5, <2>2
  <2>7. QED
    BY <1>4, <2>1, <2>4, <2>5, <2>6 DEF ResultsFrom, Row
\* A tool message is only taken as the result of a message that is taken.
<1>9. ASSUME NEW m \in 1 .. N, p[m].role = "tool"
      PROVE  \E n \in 1 .. m - 1 :
                 p[n].role = "assistant" /\ f[m] \in ResultsFrom(h, f[n]) /\ n \in 1 .. N
  <2>1. PICK j \in 1 .. f[m] - 1 :
            h[j].role = "assistant" /\ f[m] \in ResultsFrom(h, j) /\ Complete(h, j)
    BY <1>4, <1>9 DEF Kept
  <2>2. j \in 1 .. Len(h) /\ Kept(h, j)
    BY <1>4, <2>1 DEF Kept
  <2>3. PICK n \in 1 .. N : f[n] = j
    BY <1>2, <1>3, <2>2
  <2>4. n < m
    BY <1>4, <1>7, <2>1, <2>3
  <2>5. n \in 1 .. m - 1
    BY <1>1, <2>4
  <2>6. p[n].role = "assistant" /\ f[m] \in ResultsFrom(h, f[n])
    BY <1>4, <2>1, <2>3
  <2>7. QED
    BY <2>5, <2>6
\* So the tool messages that follow an assistant message are its results.
<1>10. ASSUME NEW n \in 1 .. N, p[n].role = "assistant", NEW m \in Row(p, n)
       PROVE  m \in ResultsFrom(p, n)
  <2>1. /\ m \in 1 .. N /\ n < m
        /\ \A j \in n + 1 .. m : p[j].role = "tool"
    BY <1>1, <1>5 DEF Row
  <2>2. PICK a \in 1 .. m - 1 :
            p[a].role = "assistant" /\ f[m] \in ResultsFrom(h, f[a]) /\ a \in 1 .. N
    BY <1>9, <2>1
  <2>3. a <= n
    BY <1>10, <2>1, <2>2
  <2>4. ~(a < n)
    <3> SUFFICES ASSUME a < n PROVE FALSE
      OBVIOUS
    <3>1. f[n] \in f[a] + 1 .. f[m]
      BY <1>2, <1>4, <2>1, <2>2
    <3>2. h[f[n]].role = "tool"
      BY <2>2, <3>1 DEF ResultsFrom, Row
    <3>3. QED
      BY <1>4, <1>10, <3>2
  <2>5. QED
    BY <1>8, <2>1, <2>2, <2>3, <2>4
<1>11. ASSUME NEW n \in 1 .. N, p[n].role = "assistant" PROVE AllAnswered(p, n)
  <2>1. AllAnswered(h, f[n])
    BY <1>4, <1>11 DEF Kept, Complete
  <2> SUFFICES ASSUME NEW c \in ToSet(p[n].calls)
               PROVE  \E k \in ResultsFrom(p, n) : p[k].calls = <<c>>
    BY DEF AllAnswered
  <2>2. PICK k \in ResultsFrom(h, f[n]) : h[k].calls = <<c>>
    BY <1>4, <2>1 DEF AllAnswered
  <2>3. k \in 1 .. Len(h) /\ h[k].role = "tool" /\ f[n] \in 1 .. k - 1
    BY <1>4, <2>2 DEF ResultsFrom, Row
  <2>4. Kept(h, k)
    BY <1>4, <1>11, <2>1, <2>2, <2>3 DEF Kept, Complete
  <2>5. PICK m \in 1 .. N : f[m] = k
    BY <1>2, <1>3, <2>3, <2>4
  <2>6. QED
    BY <1>4, <1>8, <2>2, <2>5
<1>12. ASSUME NEW m \in 1 .. N, p[m].role = "tool"
       PROVE  \E n \in 1 .. m - 1 : p[n].role = "assistant" /\ m \in Row(p, n)
  BY <1>8, <1>9, <1>12 DEF ResultsFrom
<1>13. \A n \in 1 .. N : ResultsFrom(p, n) \subseteq Row(p, n)
  BY DEF ResultsFrom
<1>14. WholeBlocks(p)
  BY <1>5, <1>10, <1>11, <1>12, <1>13 DEF WholeBlocks
<1>15. QED
  BY <1>6, <1>14 DEF p

\* The messages so far, a message and the answers to its calls.
LEMMA BlockFacts ==
  ASSUME NEW s, IsSeq(s), NEW a, NEW r, IsSeq(r)
  PROVE  /\ IsSeq(Append(s, a) \o r)
         /\ Len(s) \in Nat /\ Len(r) \in Nat
         /\ Len(Append(s, a) \o r) = Len(s) + 1 + Len(r)
         /\ \A i \in 1 .. Len(s) : (Append(s, a) \o r)[i] = s[i]
         /\ (Append(s, a) \o r)[Len(s) + 1] = a
         /\ \A i \in 1 .. Len(r) : (Append(s, a) \o r)[Len(s) + 1 + i] = r[i]
<1> DEFINE S == ToSet(s) \cup {a} \cup ToSet(r)
           b == Append(s, a)
<1>1. s \in Seq(S) /\ a \in S /\ r \in Seq(S)
  BY SeqMonotonic DEF IsSeq
<1> HIDE DEF S
<1>2. /\ b \in Seq(S) /\ Len(b) = Len(s) + 1
      /\ \A i \in 1 .. Len(s) : b[i] = s[i]
      /\ b[Len(s) + 1] = a
  BY <1>1, AppendProperties
<1> HIDE DEF b
<1>3. /\ b \o r \in Seq(S) /\ Len(b \o r) = Len(b) + Len(r)
      /\ \A i \in 1 .. Len(b) + Len(r) : (b \o r)[i] = IF i <= Len(b) THEN b[i] ELSE r[i - Len(b)]
  BY <1>1, <1>2, ConcatProperties
<1>4. Len(s) \in Nat /\ Len(r) \in Nat
  BY <1>1, LenProperties
<1>5. \A i \in 1 .. Len(s) + 1 : (b \o r)[i] = b[i]
  BY <1>2, <1>3, <1>4
<1>6. \A i \in 1 .. Len(r) : (b \o r)[Len(s) + 1 + i] = r[i]
  BY <1>2, <1>3, <1>4
<1>7. IsSeq(b \o r)
  BY <1>3, SeqIsSeq
<1>8. QED
  BY <1>2, <1>3, <1>4, <1>5, <1>6, <1>7 DEF b

\* Messages m are s, then message a, which is no tool result, then the answers to its calls.
Extends(m, s, a) ==
    /\ Len(s) \in Nat /\ Len(m) = Len(s) + 1 + Len(a.calls)
    /\ \A i \in 1 .. Len(s) : m[i] = s[i]
    /\ m[Len(s) + 1] = a
    /\ a.role # "tool" /\ (a.role = "assistant" \/ Len(a.calls) = 0)
    /\ Len(a.calls) \in Nat /\ DOMAIN a.calls = 1 .. Len(a.calls)
    /\ \A i, j \in 1 .. Len(a.calls) : a.calls[i] = a.calls[j] => i = j
    /\ \A i \in 1 .. Len(a.calls) :
           /\ m[Len(s) + 1 + i].role = "tool" /\ m[Len(s) + 1 + i].turn = a.turn
           /\ m[Len(s) + 1 + i].calls = <<a.calls[i]>>

\* Message a ends the row of the messages before it; its own answers are the row behind it.
LEMMA BlockAdded ==
  ASSUME NEW s, NEW a, NEW m, Extends(m, s, a), WholeBlocks(s)
  PROVE  WholeBlocks(m)
<1>1. SUFFICES ASSUME NEW L \in Nat, Len(s) = L, NEW N \in Nat, Len(a.calls) = N,
                      Extends(m, s, a)
               PROVE  WholeBlocks(m)
  BY DEF Extends
<1> USE <1>1 DEF Extends
<1>2. \A i \in 1 .. L : Row(m, i) = Row(s, i)
  <2> SUFFICES ASSUME NEW i \in 1 .. L PROVE Row(m, i) = Row(s, i)
    OBVIOUS
  <2>1. ASSUME NEW k \in Row(m, i) PROVE k \in Row(s, i)
    <3>1. k \in i + 1 .. Len(m) /\ \A j \in i + 1 .. k : m[j].role = "tool"
      BY <2>1 DEF Row
    <3>2. k <= L
      <4>1. L + 1 <= k => L + 1 \in i + 1 .. k
        BY <3>1
      <4>2. ~(L + 1 <= k)
        BY <3>1, <4>1
      <4>3. k \in Nat
        BY <3>1
      <4>4. QED
        BY <4>2, <4>3
    <3>3. k \in i + 1 .. Len(s) /\ \A j \in i + 1 .. k : j \in 1 .. L
      BY <3>1, <3>2
    <3>4. \A j \in i + 1 .. k : s[j].role = "tool"
      BY <3>1, <3>3
    <3>5. QED
      BY <3>3, <3>4 DEF Row
  <2>2. ASSUME NEW k \in Row(s, i) PROVE k \in Row(m, i)
    <3>1. k \in i + 1 .. L /\ \A j \in i + 1 .. k : s[j].role = "tool"
      BY <2>2 DEF Row
    <3>2. k \in i + 1 .. Len(m) /\ \A j \in i + 1 .. k : j \in 1 .. L
      BY <3>1
    <3>3. \A j \in i + 1 .. k : m[j].role = "tool"
      BY <3>1, <3>2
    <3>4. QED
      BY <3>2, <3>3 DEF Row
  <2>3. QED
    BY <2>1, <2>2
<1>3. \A i \in 1 .. L : \A k \in Row(s, i) : k \in 1 .. L /\ \A j \in i + 1 .. k : j \in 1 .. L
  BY DEF Row
<1>4. \A i \in 1 .. L : ResultsFrom(m, i) = ResultsFrom(s, i)
  <2> SUFFICES ASSUME NEW i \in 1 .. L, NEW k \in Row(s, i)
               PROVE  k \in ResultsFrom(m, i) <=> k \in ResultsFrom(s, i)
    BY <1>2 DEF ResultsFrom
  <2>1. k \in 1 .. L /\ m[i] = s[i] /\ m[k] = s[k]
    BY <1>3
  <2>2. \A j \in i + 1 .. k - 1 : m[j] = s[j]
    <3>1. \A j \in i + 1 .. k - 1 : j \in i + 1 .. k
      BY <2>1
    <3>2. QED
      BY <1>3, <3>1
  <2>3. QED
    BY <1>2, <2>1, <2>2 DEF ResultsFrom
<1>5. \A i \in 1 .. L : AllAnswered(m, i) <=> AllAnswered(s, i)
  <2>1. \A i \in 1 .. L : \A k \in ResultsFrom(s, i) : m[k] = s[k]
    BY <1>3 DEF ResultsFrom
  <2>2. \A j \in 1 .. L : ToSet(m[j].calls) = ToSet(s[j].calls)
    OBVIOUS
  <2> SUFFICES ASSUME NEW j \in 1 .. L PROVE AllAnswered(m, j) <=> AllAnswered(s, j)
    OBVIOUS
  <2>3. /\ ResultsFrom(m, j) = ResultsFrom(s, j) /\ ToSet(m[j].calls) = ToSet(s[j].calls)
        /\ \A k \in ResultsFrom(s, j) : m[k] = s[k]
    BY <1>4, <2>1, <2>2
  <2>4. \A c : (\E k \in ResultsFrom(m, j) : m[k].calls = <<c>>)
                 <=> (\E k \in ResultsFrom(s, j) : s[k].calls = <<c>>)
    BY <2>3
  <2>5. QED
    BY <2>3, <2>4 DEF AllAnswered
\* The row of the new message.
<1>6. \A x \in 1 .. N : L + 1 + x \in Row(m, L + 1)
  <2>1. ASSUME NEW x \in 1 .. N, NEW j \in (L + 1) + 1 .. L + 1 + x
        PROVE  m[j].role = "tool"
    <3> DEFINE y == j - L - 1
    <3>1. y \in 1 .. N /\ j = L + 1 + y
      OBVIOUS
    <3> HIDE DEF y
    <3>2. m[L + 1 + y].role = "tool"
      BY <3>1
    <3>3. QED
      BY <3>1, <3>2
  <2>2. \A x \in 1 .. N : L + 1 + x \in (L + 1) + 1 .. Len(m)
    OBVIOUS
  <2>3. QED
    BY <2>1, <2>2 DEF Row
<1>7. \A k \in Row(m, L + 1) : k - L - 1 \in 1 .. N /\ k = L + 1 + (k - L - 1)
  BY DEF Row
<1>8. \A x \in 1 .. N : L + 1 + x \in ResultsFrom(m, L + 1)
  <2> SUFFICES ASSUME NEW x \in 1 .. N PROVE L + 1 + x \in ResultsFrom(m, L + 1)
    OBVIOUS
  <2>1. /\ m[L + 1 + x].turn = m[L + 1].turn
        /\ m[L + 1 + x].calls = <<a.calls[x]>> /\ a.calls[x] \in ToSet(m[L + 1].calls)
    BY DEF ToSet
  <2>2. ASSUME NEW j \in (L + 1) + 1 .. (L + 1 + x) - 1
        PROVE  ~SameId(m[j], m[L + 1 + x])
    <3>1. PICK y \in 1 .. N : j = L + 1 + y /\ y < x
      <4>1. j - L - 1 \in 1 .. N /\ j = L + 1 + (j - L - 1) /\ j - L - 1 < x
        OBVIOUS
      <4>2. QED
        BY <4>1
    <3>2. m[L + 1 + y].calls = <<a.calls[y]>>
      OBVIOUS
    <3>3. a.calls[y] = a.calls[x] => y = x
      OBVIOUS
    <3>4. m[j].calls = <<a.calls[y]>> /\ a.calls[y] # a.calls[x]
      BY <3>1, <3>2, <3>3
    <3>5. <<a.calls[y]>> # <<a.calls[x]>>
      BY <3>4
    <3>6. QED
      BY <2>1, <3>4, <3>5 DEF SameId
  <2>3. QED
    BY <1>6, <2>1, <2>2 DEF ResultsFrom
<1>9. a.role = "assistant" => AllAnswered(m, L + 1) /\ Row(m, L + 1) = ResultsFrom(m, L + 1)
  <2>1. AllAnswered(m, L + 1)
    <3> SUFFICES ASSUME NEW c \in ToSet(a.calls)
                 PROVE  \E k \in ResultsFrom(m, L + 1) : m[k].calls = <<c>>
      BY DEF AllAnswered
    <3>1. PICK x \in 1 .. N : a.calls[x] = c
      BY DEF ToSet
    <3>2. QED
      BY <1>8, <3>1
  <2>2. Row(m, L + 1) \subseteq ResultsFrom(m, L + 1)
    <3> SUFFICES ASSUME NEW k \in Row(m, L + 1) PROVE k \in ResultsFrom(m, L + 1)
      OBVIOUS
    <3> DEFINE x == k - L - 1
    <3>1. x \in 1 .. N /\ k = L + 1 + x
      BY <1>7
    <3> HIDE DEF x
    <3>2. L + 1 + x \in ResultsFrom(m, L + 1)
      BY <1>8, <3>1
    <3>3. QED
      BY <3>1, <3>2
  <2>3. QED
    BY <2>1, <2>2 DEF ResultsFrom
<1>10. SUFFICES ASSUME NEW i \in 1 .. Len(m)
                PROVE  /\ m[i].role = "assistant" =>
                              AllAnswered(m, i) /\ Row(m, i) = ResultsFrom(m, i)
                       /\ m[i].role = "tool" =>
                              \E j \in 1 .. i - 1 : m[j].role = "assistant" /\ i \in Row(m, j)
  BY DEF WholeBlocks
<1>11. CASE i \in 1 .. L
  <2>1. m[i].role = "assistant" => AllAnswered(m, i) /\ Row(m, i) = ResultsFrom(m, i)
    BY <1>2, <1>4, <1>5, <1>11 DEF WholeBlocks
  <2>2. ASSUME m[i].role = "tool"
        PROVE  \E j \in 1 .. i - 1 : m[j].role = "assistant" /\ i \in Row(m, j)
    <3>1. PICK j \in 1 .. i - 1 : s[j].role = "assistant" /\ i \in Row(s, j)
      BY <1>11, <2>2 DEF WholeBlocks
    <3>2. j \in 1 .. L
      BY <1>11
    <3>3. QED
      BY <1>2, <3>1, <3>2
  <2>3. QED
    BY <2>1, <2>2
<1>12. CASE i = L + 1
  BY <1>9, <1>12
<1>13. CASE i \in L + 2 .. L + 1 + N
  <2>1. PICK x \in 1 .. N : i = L + 1 + x
    <3>1. i - L - 1 \in 1 .. N /\ i = L + 1 + (i - L - 1)
      BY <1>13
    <3>2. QED
      BY <3>1
  <2>2. m[i].role = "tool" /\ L + 1 \in 1 .. i - 1 /\ N # 0
    <3>1. m[L + 1 + x].role = "tool"
      OBVIOUS
    <3>2. QED
      BY <2>1, <3>1
  <2>3. i \in Row(m, L + 1) /\ a.role = "assistant"
    BY <1>6, <2>1, <2>2
  <2>4. QED
    BY <2>2, <2>3
<1>14. QED
  BY <1>11, <1>12, <1>13

\* A message without calls that is no tool result leaves the blocks whole.
LEMMA MessageAdded ==
  ASSUME NEW s, IsSeq(s), WholeBlocks(s), NEW a, a.role # "tool", a.calls = <<>>
  PROVE  IsSeq(Append(s, a)) /\ WholeBlocks(Append(s, a))
<1> DEFINE S == ToSet(s) \cup {a}
<1>1. s \in Seq(S) /\ a \in S
  BY SeqMonotonic DEF IsSeq
<1>2. /\ Append(s, a) \in Seq(S) /\ Len(Append(s, a)) = Len(s) + 1 /\ Len(s) \in Nat
      /\ \A i \in 1 .. Len(s) : Append(s, a)[i] = s[i]
      /\ Append(s, a)[Len(s) + 1] = a
  BY <1>1, AppendProperties, LenProperties
<1>3. IsSeq(Append(s, a))
  BY <1>2, SeqIsSeq
<1> DEFINE m == Append(s, a)
           L == Len(s)
<1>4. /\ L \in Nat /\ Len(s) = L /\ Len(m) = L + 1
      /\ \A i \in 1 .. L : m[i] = s[i]
      /\ m[L + 1] = a
  BY <1>2
<1>5. Len(a.calls) = 0 /\ DOMAIN a.calls = 1 .. 0
  OBVIOUS
<1> HIDE DEF m, L
<1>6. Extends(m, s, a)
  BY <1>4, <1>5 DEF Extends
<1>7. WholeBlocks(m)
  BY <1>6, BlockAdded
<1>8. QED
  BY <1>3, <1>7 DEF m

\* The answers to some calls of a turn.
AnswersOf(t, calls) == [i \in 1 .. Len(calls) |-> Answer(t, calls[i])]

LEMMA AnswersAreSeq ==
  ASSUME NEW t, NEW calls \in Seq(Calls)
  PROVE  /\ IsSeq(AnswersOf(t, calls)) /\ Len(AnswersOf(t, calls)) = Len(calls)
         /\ \A i \in 1 .. Len(calls) : AnswersOf(t, calls)[i] = Answer(t, calls[i])
<1> DEFINE S == {Answer(t, calls[i]) : i \in 1 .. Len(calls)}
<1>1. Len(calls) \in Nat
  BY LenProperties
<1>2. AnswersOf(t, calls) \in [1 .. Len(calls) -> S]
  BY DEF AnswersOf
<1>3. AnswersOf(t, calls) \in Seq(S)
  BY <1>1, <1>2, SeqDef
<1>4. Len(AnswersOf(t, calls)) \in Nat /\ 1 .. Len(AnswersOf(t, calls)) = 1 .. Len(calls)
  BY <1>2, <1>3, LenProperties
<1>5. Len(AnswersOf(t, calls)) = Len(calls)
  BY <1>1, <1>4
<1>6. QED
  BY <1>3, <1>5, SeqIsSeq DEF AnswersOf

\* The calls of a response, with all of their answers, leave the blocks whole.
LEMMA CallsAdded ==
  ASSUME NEW s, IsSeq(s), WholeBlocks(s), NEW t, NEW calls \in Seq(Calls),
         \A i, j \in 1 .. Len(calls) : calls[i] = calls[j] => i = j
  PROVE  WholeBlocks(Append(s, Asks(t, calls)) \o AnswersOf(t, calls))
<1> DEFINE a == Asks(t, calls)
           r == AnswersOf(t, calls)
           m == Append(s, a) \o r
           L == Len(s)
           N == Len(calls)
<1>1. /\ N \in Nat /\ DOMAIN calls = 1 .. N
      /\ a.role = "assistant" /\ a.calls = calls /\ a.turn = t
  BY LenProperties DEF Asks
<1>2. IsSeq(r) /\ Len(r) = N /\ \A i \in 1 .. N : r[i] = Answer(t, calls[i])
  BY AnswersAreSeq
<1> HIDE DEF a, r
<1>3. /\ L \in Nat /\ Len(m) = L + 1 + N
      /\ \A i \in 1 .. L : m[i] = s[i]
      /\ m[L + 1] = a
      /\ \A i \in 1 .. N : m[L + 1 + i] = r[i]
  BY <1>2, BlockFacts
<1> HIDE DEF m
<1>4. \A i \in 1 .. N :
          /\ m[L + 1 + i].role = "tool" /\ m[L + 1 + i].turn = a.turn
          /\ m[L + 1 + i].calls = <<a.calls[i]>>
  <2> SUFFICES ASSUME NEW i \in 1 .. N
               PROVE  /\ m[L + 1 + i].role = "tool" /\ m[L + 1 + i].turn = a.turn
                      /\ m[L + 1 + i].calls = <<a.calls[i]>>
    OBVIOUS
  <2>1. m[L + 1 + i] = Answer(t, calls[i])
    BY <1>2, <1>3
  <2>2. /\ Answer(t, calls[i]).role = "tool" /\ Answer(t, calls[i]).turn = t
        /\ Answer(t, calls[i]).calls = <<calls[i]>>
    BY DEF Answer
  <2>3. QED
    BY <1>1, <2>1, <2>2
<1>5. \A i, j \in 1 .. N : a.calls[i] = a.calls[j] => i = j
  BY <1>1
<1>6. Len(s) = L /\ Len(a.calls) = N /\ DOMAIN a.calls = 1 .. N /\ a.role # "tool"
  BY <1>1
<1>7. Extends(m, s, a)
  BY <1>1, <1>3, <1>4, <1>5, <1>6 DEF Extends
<1>8. WholeBlocks(m)
  BY <1>7, BlockAdded
<1>9. QED
  BY <1>8 DEF m, a, r

\* An answer goes from those that are owed to the messages.
LEMMA AnswerMoves ==
  ASSUME NEW s, IsSeq(s), NEW t, NEW q \in Seq(Calls), q # <<>>
  PROVE  /\ IsSeq(Append(s, Answer(t, Head(q))))
         /\ Append(s, Answer(t, Head(q))) \o AnswersOf(t, Tail(q)) = s \o AnswersOf(t, q)
<1> DEFINE a == Answer(t, Head(q))
           r == AnswersOf(t, Tail(q))
           w == AnswersOf(t, q)
           m == Append(s, a) \o r
           v == s \o w
<1>1. /\ Tail(q) \in Seq(Calls) /\ Len(Tail(q)) = Len(q) - 1 /\ Len(q) \in Nat \ {0}
      /\ \A i \in 1 .. Len(Tail(q)) : Tail(q)[i] = q[i + 1]
      /\ Head(q) = q[1]
  <2>1. /\ Tail(q) \in Seq(Calls) /\ Len(Tail(q)) = Len(q) - 1
        /\ \A i \in 1 .. Len(Tail(q)) : Tail(q)[i] = q[i + 1]
    BY HeadTailProperties
  <2>2. Len(q) \in Nat \ {0}
    BY EmptySeq, LenProperties
  <2>3. Head(q) = q[1]
    OBVIOUS
  <2>4. QED
    BY <2>1, <2>2, <2>3
<1>2. a = Answer(t, q[1])
  BY <1>1, Zenon
<1>3. /\ IsSeq(r) /\ Len(r) = Len(Tail(q))
      /\ \A i \in 1 .. Len(Tail(q)) : r[i] = Answer(t, q[i + 1])
  <2>1. /\ IsSeq(r) /\ Len(r) = Len(Tail(q))
        /\ \A i \in 1 .. Len(Tail(q)) : r[i] = Answer(t, Tail(q)[i])
    BY <1>1, AnswersAreSeq, Zenon
  <2>2. \A i \in 1 .. Len(Tail(q)) : Answer(t, Tail(q)[i]) = Answer(t, q[i + 1])
    BY <1>1, Zenon
  <2> HIDE DEF r
  <2>3. QED
    BY <2>1, <2>2, Zenon
<1>4. IsSeq(w) /\ Len(w) = Len(q) /\ \A i \in 1 .. Len(q) : w[i] = Answer(t, q[i])
  BY AnswersAreSeq
<1>5. IsSeq(Append(s, a))
  BY AddedMessage
<1> HIDE DEF a, r, w
<1>6. /\ IsSeq(m) /\ Len(s) \in Nat /\ Len(m) = Len(s) + 1 + Len(r)
      /\ \A i \in 1 .. Len(s) : m[i] = s[i]
      /\ m[Len(s) + 1] = a
      /\ \A i \in 1 .. Len(r) : m[Len(s) + 1 + i] = r[i]
  <2>1. IsSeq(r)
    BY <1>2, <1>3, <1>4
  <2>2. QED
    BY <2>1, BlockFacts
<1>7. /\ v \in Seq(ToSet(s) \cup ToSet(w)) /\ Len(v) = Len(s) + Len(w)
      /\ \A i \in 1 .. Len(s) + Len(w) : v[i] = IF i <= Len(s) THEN s[i] ELSE w[i - Len(s)]
  <2>1. s \in Seq(ToSet(s) \cup ToSet(w)) /\ w \in Seq(ToSet(s) \cup ToSet(w))
    BY <1>2, <1>3, <1>4, SeqMonotonic DEF IsSeq
  <2>2. QED
    BY <2>1, ConcatProperties
<1> HIDE DEF m, v
<1>8. ASSUME NEW i \in 1 .. Len(m) PROVE m[i] = v[i]
  <2>1. CASE i <= Len(s)
    BY <1>1, <1>2, <1>3, <1>4, <1>6, <1>7, <2>1
  <2>2. CASE i = Len(s) + 1
    <3>1. v[i] = w[1]
      BY <1>1, <1>2, <1>3, <1>4, <1>6, <1>7, <2>2
    <3>2. QED
      BY <1>1, <1>2, <1>3, <1>4, <1>6, <2>2, <3>1
  <2>3. CASE i > Len(s) + 1
    <3> DEFINE x == i - Len(s) - 1
    <3>1. x \in 1 .. Len(q) - 1 /\ i = Len(s) + 1 + x /\ i - Len(s) = x + 1
      BY <1>1, <1>2, <1>3, <1>4, <1>6, <2>3
    <3> HIDE DEF x
    <3>2. m[i] = Answer(t, q[x + 1])
      BY <1>1, <1>3, <1>6, <3>1
    <3>3. v[i] = w[x + 1] /\ x + 1 \in 1 .. Len(q)
      BY <1>1, <1>2, <1>3, <1>4, <1>6, <1>7, <3>1
    <3>4. QED
      BY <1>2, <1>3, <1>4, <3>2, <3>3
  <2>4. QED
    BY <1>6, <2>1, <2>2, <2>3
<1>9. m = v
  <2> DEFINE S == ToSet(m) \cup ToSet(s) \cup ToSet(w)
  <2>1. m \in Seq(S) /\ v \in Seq(S)
    BY <1>6, <1>7, SeqMonotonic DEF IsSeq
  <2>2. Len(m) = Len(v)
    BY <1>1, <1>2, <1>3, <1>4, <1>6, <1>7
  <2> HIDE DEF S
  <2>3. QED
    BY <1>8, <2>1, <2>2, SeqEqual
<1>10. QED
  BY <1>5, <1>9 DEF m, v, a, r, w

\* The answers that a turn's prompt still lacks.
Owed(t) == AnswersOf(t, queue[t])

PromptWhole(t) ==
    /\ at[t] \in {"ask", "model"} => IsSeq(prompt[t]) /\ WholeBlocks(prompt[t])
    /\ at[t] \in {"check", "wait", "run", "result"} =>
           IsSeq(prompt[t]) /\ WholeBlocks(prompt[t] \o Owed(t))

PromptInv ==
    /\ TraceInv
    /\ DOMAIN prompt = Turns /\ DOMAIN index = Turns /\ IsSeq(history)
    /\ \A t \in Turns : PromptWhole(t)

\* The calls of a response have ids of their own, as the providers promise: of two results with
\* one id only the first would be taken from the history.
IdsDiffer ==
    \A t \in Turns : \A calls \in Batches[t] :
        \A i, j \in 1 .. Len(calls) : calls[i] = calls[j] => i = j

LEMMA InitPrompt == ChatInit => PromptInv
<1>1. IsSeq(<<>>)
  BY EmptySeq, SeqIsSeq
<1>2. QED
  BY <1>1, InitTrace DEF ChatInit, PromptInv, PromptWhole

\* A step of one turn leaves the prompts of the others alone, ...
SamePrompt(u) == SameTurn(u) /\ prompt'[u] = prompt[u] /\ index'[u] = index[u]

LEMMA PromptsOfOthers ==
  ASSUME NEW t \in Turns, Admit(t) \/ Proceed(t) \/ Fail(t), PromptInv,
         NEW u \in Turns, u # t
  PROVE  SamePrompt(u)
<1> USE DEF LoopStep, loopVars
<1>1. DOMAIN prompt = Turns /\ DOMAIN index = Turns
  BY DEF PromptInv
<1>2. SameTurn(u)
  BY StepOfOneTurn DEF PromptInv, TraceInv
<1>3. CASE Admit(t) \/ Register(t) \/ Refuse(t) \/ Leave(t) \/ Fail(t)
  BY <1>1, <1>2, <1>3 DEF Admit, Register, Refuse, Leave, ForgetRequest, SamePrompt, Fail,
     ContextFails, RequestTooLarge, RequestFails, CallRaises, WaitRaises, SaveFails, Move, Finish
<1>4. CASE CallRefused(t) \/ CallAllowed(t) \/ CallAsked(t) \/ WaitStep(t) \/ WaitEnds(t)
           \/ RunTool(t) \/ RecordResult(t) \/ Save(t)
  BY <1>1, <1>2, <1>4 DEF CallRefused, CallAllowed, CallAsked, WaitStep, WaitEnds, Move,
     RunTool, RecordResult, Save, SamePrompt
<1>5. CASE Load(t) \/ StopStep(t) \/ SendRequest(t) \/ RespondText(t) \/ Summarised(t)
  BY <1>1, <1>2, <1>5 DEF Load, StopStep, Stop, SendRequest, RespondText, Summarised, Move,
     Finish, ForgetRequest, SamePrompt
<1>6. CASE \E calls \in Batches[t] : RespondCalls(t, calls) \/ LimitReached(t, calls)
  BY <1>1, <1>2, <1>6 DEF RespondCalls, LimitReached, SamePrompt
<1>7. QED
  BY <1>3, <1>4, <1>5, <1>6 DEF Proceed

LEMMA SamePromptWhole ==
  ASSUME NEW u \in Turns, SamePrompt(u), PromptWhole(u)
  PROVE  PromptWhole(u)'
BY DEF SamePrompt, SameTurn, PromptWhole, Owed, AnswersOf, Answer

\* ... and every step leaves tables of prompts and a history of messages.
LEMMA HistoryStays ==
  ASSUME PromptInv, [Next]_vars
  PROVE  DOMAIN prompt' = Turns /\ DOMAIN index' = Turns /\ IsSeq(history')
<1> USE DEF LoopStep, loopVars, PromptInv
<1>1. CASE Outside \/ UNCHANGED vars
  <2>1. UNCHANGED <<prompt, index>> /\ (history' = history \/ history' = <<>>)
    BY <1>1 DEF Outside, CancelSession, ShutdownBegins, ShutdownCancels, Delete, DeleteBegins,
       DeleteCancels, DeleteWaited, DeleteTimesOut, DeleteFile, DeleteRow, DeleteStep,
       vars, sessionVars
  <2>2. QED
    BY <2>1, EmptySeq, SeqIsSeq
<1>2. ASSUME NEW t \in Turns, Admit(t) \/ Proceed(t) \/ Fail(t)
      PROVE  DOMAIN prompt' = Turns /\ DOMAIN index' = Turns /\ IsSeq(history')
  <2>1. CASE Admit(t) \/ Register(t) \/ Refuse(t) \/ Leave(t) \/ Fail(t)
    BY <2>1 DEF Admit, Register, Refuse, Leave, ForgetRequest, Fail, ContextFails, sessionVars,
       RequestTooLarge, RequestFails, CallRaises, WaitRaises, SaveFails, Move, Finish
  <2>2. CASE CallRefused(t) \/ CallAllowed(t) \/ CallAsked(t) \/ WaitStep(t) \/ WaitEnds(t)
             \/ RunTool(t) \/ RecordResult(t)
    BY <2>2 DEF CallRefused, CallAllowed, CallAsked, WaitStep, WaitEnds, Move, RunTool,
       RecordResult
  <2>3. CASE Save(t)
    <3>1. IsSeq(pending[t])
      BY DEF TraceInv, Traced
    <3>2. history' = history \o pending[t] /\ UNCHANGED <<prompt, index>>
      BY <2>3 DEF Save
    <3>3. QED
      BY <3>1, <3>2, AddedMessages
  <2>4. CASE Load(t) \/ StopStep(t) \/ SendRequest(t) \/ RespondText(t) \/ Summarised(t)
    BY <2>4 DEF Load, StopStep, Stop, SendRequest, RespondText, Summarised, Move, Finish,
       ForgetRequest
  <2>5. CASE \E calls \in Batches[t] : RespondCalls(t, calls) \/ LimitReached(t, calls)
    BY <2>5 DEF RespondCalls, LimitReached
  <2>6. QED
    BY <1>2, <2>1, <2>2, <2>3, <2>4, <2>5 DEF Proceed
<1>3. QED
  BY <1>1, <1>2 DEF Next

\* The first request is made of the history, ...
LEMMA LoadedWhole ==
  ASSUME PromptInv, NEW t \in Turns, Load(t)
  PROVE  PromptWhole(t)'
<1>1. at'[t] = "ask" /\ prompt'[t] = Append(ToPrompt(history), User(t))
  BY DEF Load, Goto, PromptInv, TraceInv, CallInv
<1>2. Len(history) \in Nat
  BY LenProperties DEF PromptInv, IsSeq
<1>3. IsSeq(ToPrompt(history)) /\ WholeBlocks(ToPrompt(history))
  BY <1>2, PromptOfHistory
<1>4. User(t).role # "tool" /\ User(t).calls = <<>>
  BY DEF User
<1>5. IsSeq(prompt'[t]) /\ WholeBlocks(prompt'[t])
  BY <1>1, <1>3, <1>4, MessageAdded
<1>6. QED
  BY <1>1, <1>5 DEF PromptWhole

\* ... a response opens a block, whose answers are all owed, ...
LEMMA RespondWhole ==
  ASSUME IdsDiffer, PromptInv, NEW t \in Turns, NEW calls \in Batches[t], RespondCalls(t, calls)
  PROVE  PromptWhole(t)'
<1>1. /\ at[t] = "model" /\ at'[t] = "check" /\ index' = index
      /\ queue'[t] = calls /\ prompt'[t] = Append(prompt[t], Asks(t, calls))
  BY DEF RespondCalls, Goto, PromptInv, TraceInv, CallInv
<1>2. IsSeq(prompt[t]) /\ WholeBlocks(prompt[t])
  BY <1>1 DEF PromptInv, PromptWhole
<1>3. calls \in Seq(Calls) /\ \A i, j \in 1 .. Len(calls) : calls[i] = calls[j] => i = j
  BY ChatAssumption DEF IdsDiffer
<1>4. WholeBlocks(prompt'[t] \o AnswersOf(t, calls))
  BY <1>1, <1>2, <1>3, CallsAdded
<1>5. Owed(t)' = AnswersOf(t, calls)
  BY <1>1 DEF Owed, AnswersOf, Answer
<1>6. IsSeq(prompt'[t])
  BY <1>1, <1>2, AddedMessage
<1>7. QED
  BY <1>1, <1>4, <1>5, <1>6 DEF PromptWhole

\* ... and every result pays one; with the last the prompt is whole again.
LEMMA RecordWhole ==
  ASSUME PromptInv, NEW t \in Turns, RecordResult(t)
  PROVE  PromptWhole(t)'
<1>1. /\ at[t] = "result" /\ index' = index
      /\ at'[t] = IF Len(queue[t]) = 1 THEN "ask" ELSE "check"
      /\ queue'[t] = Tail(queue[t])
      /\ prompt'[t] = Append(prompt[t], Answer(t, Head(queue[t])))
  BY DEF RecordResult, Goto, Call, PromptInv, TraceInv, CallInv
<1>2. /\ IsSeq(prompt[t]) /\ WholeBlocks(prompt[t] \o AnswersOf(t, queue[t]))
      /\ queue[t] \in Seq(Calls) /\ queue[t] # <<>>
  BY <1>1 DEF PromptInv, PromptWhole, Owed, TraceInv, CallInv
<1>3. /\ IsSeq(prompt'[t])
      /\ prompt'[t] \o AnswersOf(t, Tail(queue[t])) = prompt[t] \o AnswersOf(t, queue[t])
  <2> DEFINE s == prompt[t]
             q == queue[t]
  <2>1. IsSeq(s) /\ q \in Seq(Calls) /\ q # <<>>
    BY <1>2
  <2> HIDE DEF s, q
  <2>2. /\ IsSeq(Append(s, Answer(t, Head(q))))
        /\ Append(s, Answer(t, Head(q))) \o AnswersOf(t, Tail(q)) = s \o AnswersOf(t, q)
    BY <2>1, AnswerMoves
  <2>3. prompt'[t] = Append(s, Answer(t, Head(q)))
    BY <1>1 DEF s, q
  <2>4. /\ IsSeq(prompt'[t])
        /\ prompt'[t] \o AnswersOf(t, Tail(q)) = s \o AnswersOf(t, q)
    BY <2>2, <2>3, Zenon
  <2>5. QED
    BY <2>4 DEF s, q
<1>4. Owed(t)' = AnswersOf(t, Tail(queue[t]))
  BY <1>1 DEF Owed, AnswersOf, Answer
<1>5. CASE Len(queue[t]) = 1
  <2>1. Tail(queue[t]) \in Seq(Calls) /\ Len(Tail(queue[t])) = 0
    BY <1>2, <1>5, HeadTailProperties
  <2>2. AnswersOf(t, Tail(queue[t])) = <<>>
    BY <2>1, AnswersAreSeq, EmptySeq DEF IsSeq
  <2>3. prompt'[t] \o <<>> = prompt'[t]
    BY <1>3, ConcatEmptySeq DEF IsSeq
  <2>4. QED
    BY <1>1, <1>2, <1>3, <1>5, <2>2, <2>3 DEF PromptWhole
<1>6. CASE Len(queue[t]) # 1
  BY <1>1, <1>2, <1>3, <1>4, <1>6 DEF PromptWhole
<1>7. QED
  BY <1>5, <1>6

LEMMA NextPrompt ==
  ASSUME IdsDiffer, PromptInv, [Next]_vars
  PROVE  PromptInv'
<1>1. TraceInv' /\ DOMAIN prompt' = Turns /\ DOMAIN index' = Turns /\ IsSeq(history')
  BY NextTrace, HistoryStays DEF PromptInv
<1>2. SUFFICES \A u \in Turns : PromptWhole(u)'
  BY <1>1 DEF PromptInv
<1>3. CASE Outside \/ UNCHANGED vars
  <2>1. UNCHANGED <<prompt, index>>
    BY <1>3 DEF Outside, CancelSession, ShutdownBegins, ShutdownCancels, Delete, DeleteBegins,
       DeleteCancels, DeleteWaited, DeleteTimesOut, DeleteFile, DeleteRow, DeleteStep,
       vars, loopVars
  <2>2. \A u \in Turns : SamePrompt(u)
    BY <1>3, <2>1, StepOutside DEF SamePrompt, SameTurn
  <2>3. QED
    BY <2>2, SamePromptWhole DEF PromptInv
<1>4. ASSUME NEW t \in Turns, Admit(t) \/ Proceed(t) \/ Fail(t)
      PROVE  \A u \in Turns : PromptWhole(u)'
  <2>1. \A u \in Turns \ {t} : PromptWhole(u)'
    BY <1>4, PromptsOfOthers, SamePromptWhole DEF PromptInv
  <2>2. SUFFICES PromptWhole(t)'
    BY <2>1
  <2>3. PromptWhole(t) /\ DOMAIN at = Turns
    BY DEF PromptInv, TraceInv, CallInv
  <2>4. CASE Admit(t) \/ Register(t) \/ Refuse(t) \/ Leave(t) \/ Fail(t) \/ Save(t)
    BY <2>3, <2>4 DEF Admit, Register, Refuse, Leave, Fail, ContextFails, RequestTooLarge, Goto,
       RequestFails, CallRaises, WaitRaises, SaveFails, Save, Move, Finish, PromptWhole
  <2>5. CASE SendRequest(t) \/ CallRefused(t) \/ CallAllowed(t) \/ CallAsked(t) \/ WaitEnds(t)
             \/ RunTool(t) \/ WaitStep(t)
    <3>1. UNCHANGED <<queue, prompt, index>>
      BY <2>5 DEF SendRequest, CallRefused, CallAllowed, CallAsked, WaitEnds, RunTool, WaitStep,
         Move, loopVars
    <3>2. Owed(t)' = Owed(t)
      BY <3>1 DEF Owed, AnswersOf, Answer
    <3>3. \/ at[t] = "ask" /\ at'[t] = "model"
          \/ /\ at[t] \in {"check", "wait", "run", "result"}
             /\ at'[t] \in {"check", "wait", "run", "result"}
      BY <2>3, <2>5 DEF SendRequest, CallRefused, CallAllowed, CallAsked, WaitEnds, RunTool,
         WaitStep, Move, Goto
    <3>4. QED
      BY <2>3, <3>1, <3>2, <3>3 DEF PromptWhole
  <2>6. CASE StopStep(t) \/ RespondText(t) \/ Summarised(t)
    BY <2>3, <2>6 DEF StopStep, Stop, RespondText, Summarised, Finish, Goto, PromptWhole
  <2>7. CASE \E calls \in Batches[t] : RespondCalls(t, calls) \/ LimitReached(t, calls)
    <3>1. ASSUME NEW calls \in Batches[t], LimitReached(t, calls) PROVE PromptWhole(t)'
      BY <2>3, <3>1 DEF LimitReached, Goto, PromptWhole
    <3>2. QED
      BY <2>7, <3>1, RespondWhole
  <2>8. QED
    BY <1>4, <2>4, <2>5, <2>6, <2>7, LoadedWhole, RecordWhole DEF Proceed
<1>5. QED
  BY <1>3, <1>4 DEF Next

\* The requests of the loop never carry half a tool block, whatever stopped, interleaved and
\* failed turns have left in the session.
THEOREM RequestsAreWhole ==
  ASSUME IdsDiffer
  PROVE  ChatSpec => []RequestsWhole
<1>1. PromptInv => RequestsWhole
  BY DEF PromptInv, PromptWhole, RequestsWhole
<1>2. PromptInv /\ [Next]_vars => PromptInv'
  BY NextPrompt
<1>3. QED
  BY InitPrompt, <1>1, <1>2, PTL DEF ChatSpec
=============================================================================
