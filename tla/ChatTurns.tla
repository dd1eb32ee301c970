------------------------------ MODULE ChatTurns ------------------------------
(***************************************************************************)
(* The turns of one session in the Web runtime: WebRuntime registers a     *)
(* turn and cancels the one before it, AgentLoop runs the model and the    *)
(* tools and appends the turn's messages once, when it ends; the session   *)
(* may be stopped, deleted, or the process shut down meanwhile.  Turns run *)
(* in threads of their own, and a superseded turn goes on until it looks   *)
(* at its token.                                                           *)
(*                                                                         *)
(* Messages keep their role and the tool calls they carry or answer.       *)
(* Compaction, the context budget, hooks' changes of arguments, commands,  *)
(* events and audit records are left out.  An append is one step.          *)
(***************************************************************************)
EXTENDS Naturals, Sequences, FiniteSets, SequencesExt

CONSTANTS
    Turns,        \* the turns that may be started
    Keys,         \* the actors of active-turn keys (the session is the other half)
    Owners,       \* the actors that the turns may belong to
    StopAny,      \* the actors with the permission chat.stop.any
    Calls,        \* the tool calls that the model may ask for, told apart by their ids
    Batches,      \* the sequences of calls, at least one, that a response of each turn may carry
    Risky,        \* the calls that the policy wants confirmed
    MaxRounds,    \* max_tool_iterations
    MaxDecisions, \* bound: the decisions of confirmations
    None

ASSUME ChatAssumption ==
    /\ StopAny \subseteq Keys
    /\ Owners \subseteq [Turns -> Keys]
    /\ Risky \subseteq Calls
    /\ Batches \in [Turns -> SUBSET (Seq(Calls) \ {<<>>})]
    /\ MaxRounds \in Nat
    /\ None \notin Turns

VARIABLES
    \* The runtime.
    gateway,      \* "open", "closing" (turns refused, tokens not yet cancelled) or "closed"
    active,       \* _active_turns: the current turn of each actor
    closing,      \* the turns that shutdown has taken from _active_turns
    deletion,     \* the progress of delete_session: at, by, and the turn it waits for
    \* The session.
    history,      \* the records of the JSONL file
    indexed,      \* the session has a row in session_index
    \* Each turn.
    at,           \* where its thread is
    owner,        \* its actor
    cancelled,    \* its token
    completed,    \* its completed event
    index,        \* its turn_index
    rounds,       \* tool_iterations
    queue,        \* the calls of the last response that are not answered
    pending,      \* pending_session_messages
    prompt,       \* the messages of the model's requests
    \* Tools.
    executed,     \* the calls that a running turn has run
    lateRuns,     \* those that began when the turn was cancelled already, as history
    \* Confirmations (ToolConfirmation).
    row, deciding, answers, wait

Requests == Turns \X Risky

Confirm == INSTANCE ToolConfirmation

runtimeVars == <<gateway, active, closing, deletion>>
sessionVars == <<history, indexed>>
tokenVars == <<owner, cancelled, completed>>
loopVars == <<index, rounds, queue, pending, prompt>>
toolVars == <<executed, lateRuns>>
confirmationVars == <<row, deciding, answers, wait>>
vars == <<runtimeVars, sessionVars, at, tokenVars, loopVars, toolVars, confirmationVars>>

\* The places of a registered turn's thread.
Running ==
    {"start", "ask", "model", "check", "wait", "run", "result", "summary", "save", "leave"}

Live(t) == at[t] \in Running

\* Messages, as far as the model's provider tells them apart.
User(t) == [role |-> "user", turn |-> t, index |-> index'[t], calls |-> <<>>]
Text(t) == [role |-> "assistant", turn |-> t, index |-> index[t], calls |-> <<>>]
Asks(t, calls) == [role |-> "assistant", turn |-> t, index |-> index[t], calls |-> calls]
Answer(t, c) == [role |-> "tool", turn |-> t, index |-> index[t], calls |-> <<c>>]

(***************************************************************************)
(* ContextBuilder._history_to_llm_dicts: an assistant message with tool    *)
(* calls is taken with its results, and only if all of them follow it;     *)
(* other tool messages are dropped.                                        *)
(***************************************************************************)

\* The tool messages that follow message i at once.
Row(h, i) == {k \in i + 1 .. Len(h) : \A j \in i + 1 .. k : h[j].role = "tool"}

SameId(m, n) == m.turn = n.turn /\ m.calls = n.calls

\* Of those the first answer to each call of message i.
ResultsFrom(h, i) ==
    {k \in Row(h, i) :
        /\ h[k].turn = h[i].turn
        /\ \E c \in ToSet(h[i].calls) : h[k].calls = <<c>>
        /\ \A j \in i + 1 .. k - 1 : ~SameId(h[j], h[k])}

\* Every call of message i has its result.
AllAnswered(h, i) ==
    \A c \in ToSet(h[i].calls) : \E k \in ResultsFrom(h, i) : h[k].calls = <<c>>

\* Mutant: a block is taken with the results there are.
CompleteAnyway(h, i) == TRUE
Complete(h, i) == AllAnswered(h, i)

Kept(h, i) ==
    IF h[i].role = "tool"
    THEN \E j \in 1 .. i - 1 :
             h[j].role = "assistant" /\ i \in ResultsFrom(h, j) /\ Complete(h, j)
    ELSE Complete(h, i)

\* The messages that are kept, in their order: the n-th has n kept ones up to itself.
KeptUpTo(h, i) == {j \in 1 .. i : Kept(h, j)}
ToPrompt(h) ==
    LET Place(n) == CHOOSE i \in KeptUpTo(h, Len(h)) : Cardinality(KeptUpTo(h, i)) = n
    IN [n \in 1 .. Cardinality(KeptUpTo(h, Len(h))) |-> h[Place(n)]]

\* next_turn_index, for records that all carry an index.
NextIndex(h) == 1 + Max({0} \cup {h[i].index : i \in 1 .. Len(h)})


ChatInit ==
    /\ gateway = "open"
    /\ active = [k \in Keys |-> None]
    /\ closing = {}
    /\ deletion = [at |-> "idle", by |-> None, target |-> None]
    /\ history = <<>>
    /\ indexed = FALSE
    /\ at = [t \in Turns |-> "new"]
    /\ owner \in Owners
    /\ cancelled = [t \in Turns |-> FALSE]
    /\ completed = [t \in Turns |-> FALSE]
    /\ index = [t \in Turns |-> 0]
    /\ rounds = [t \in Turns |-> 0]
    /\ queue = [t \in Turns |-> <<>>]
    /\ pending = [t \in Turns |-> <<>>]
    /\ prompt = [t \in Turns |-> <<>>]
    /\ executed = {}
    /\ lateRuns = {}
    /\ Confirm!ConfirmationInit

Goto(t, from, to) == at[t] = from /\ at' = [at EXCEPT ![t] = to]

(***************************************************************************)
(* The runtime around the turn.                                            *)
(***************************************************************************)

\* run_chat_events: the gateway still takes turns, and the session's index row is created if
\* there is none.
Admit(t) ==
    /\ gateway = "open"
    /\ Goto(t, "new", "admitted")
    /\ indexed' = TRUE
    /\ UNCHANGED <<runtimeVars, history, tokenVars, loopVars, toolVars, confirmationVars>>

\* Mutant: the gateway is only looked at when the turn is admitted.
RegisterAnyway(t) ==
    /\ Goto(t, "admitted", "start")
    /\ cancelled' = [u \in Turns |-> cancelled[u] \/ u = active[owner[t]]]
    /\ active' = [active EXCEPT ![owner[t]] = t]
    /\ UNCHANGED <<gateway, closing, deletion, sessionVars, owner, completed,
                   loopVars, toolVars, confirmationVars>>
\* _register_turn, under _turns_lock: the older turn of the same actor and session is cancelled.
Register(t) ==
    LET older == active[owner[t]]
    IN /\ gateway = "open"
       /\ Goto(t, "admitted", "start")
       /\ cancelled' = [u \in Turns |-> cancelled[u] \/ u = older]
       /\ active' = [active EXCEPT ![owner[t]] = t]
       /\ UNCHANGED <<gateway, closing, deletion, sessionVars, owner, completed,
                      loopVars, toolVars, confirmationVars>>

\* _register_turn raises while the gateway shuts down.
Refuse(t) ==
    /\ gateway # "open"
    /\ Goto(t, "admitted", "ended")
    /\ UNCHANGED <<runtimeVars, sessionVars, tokenVars, loopVars, toolVars, confirmationVars>>

\* What is of no use any more when the model is not asked again.
ForgetRequest(t) ==
    /\ rounds' = [rounds EXCEPT ![t] = 0]
    /\ queue' = [queue EXCEPT ![t] = <<>>]
    /\ prompt' = [prompt EXCEPT ![t] = <<>>]

\* Mutant: the turn id is not compared.
UnregisterKey(t) ==
    /\ active' = [active EXCEPT ![owner[t]] = None]
    /\ completed' = [completed EXCEPT ![t] = TRUE]
\* _unregister_turn: a turn that was superseded leaves the newer one in place.
Unregister(t) ==
    /\ active' = IF active[owner[t]] = t THEN [active EXCEPT ![owner[t]] = None] ELSE active
    /\ completed' = [completed EXCEPT ![t] = @ \/ active[owner[t]] = t]
\* The token, and what the thread has not appended, are gone with it.
Leave(t) ==
    /\ Goto(t, "leave", "ended")
    /\ Unregister(t)
    /\ cancelled' = [cancelled EXCEPT ![t] = FALSE]
    /\ index' = [index EXCEPT ![t] = 0]
    /\ pending' = [pending EXCEPT ![t] = <<>>]
    /\ ForgetRequest(t)
    /\ executed' = {e \in executed : e[1] # t}
    /\ lateRuns' = {e \in lateRuns : e[1] # t}
    /\ UNCHANGED <<gateway, closing, deletion, sessionVars, owner, confirmationVars>>

\* What cancel_session and _active_turn_for_session find for an actor: its own turn or, with
\* chat.stop.any, a turn of anyone.
Found(k) ==
    IF active[k] # None \/ k \notin StopAny THEN {active[k]}
    ELSE LET others == {active[j] : j \in Keys} \ {None}
         IN IF others = {} THEN {None} ELSE others

\* cancel_session: the stop button, /stop and the REST route.
CancelSession(k) ==
    \E t \in Found(k) \ {None} :
        /\ cancelled' = [cancelled EXCEPT ![t] = TRUE]
        /\ UNCHANGED <<gateway, active, closing, deletion, sessionVars, at, owner, completed,
                       loopVars, toolVars, confirmationVars>>

\* shutdown refuses turns and takes the active ones under the lock, ...
ShutdownBegins ==
    /\ gateway = "open"
    /\ gateway' = "closing"
    /\ closing' = {active[k] : k \in Keys} \ {None}
    /\ active' = [k \in Keys |-> None]
    /\ UNCHANGED <<deletion, sessionVars, at, tokenVars, loopVars, toolVars, confirmationVars>>

\* ... then cancels them and tells whoever waits that they are complete.
ShutdownCancels ==
    /\ gateway = "closing"
    /\ gateway' = "closed"
    /\ cancelled' = [t \in Turns |-> cancelled[t] \/ t \in closing]
    /\ completed' = [t \in Turns |-> completed[t] \/ t \in closing]
    /\ UNCHANGED <<active, closing, deletion, sessionVars, at, owner, loopVars,
                   toolVars, confirmationVars>>

(***************************************************************************)
(* delete_session.                                                         *)
(***************************************************************************)
DeleteStep(from, to, target) ==
    /\ deletion.at = from
    /\ deletion' = [at |-> to, by |-> None, target |-> target]
    /\ UNCHANGED <<gateway, closing, active, at, owner, completed, loopVars,
                   toolVars, confirmationVars>>

\* It keeps the active turn that it finds, ...
DeleteBegins(k) ==
    /\ deletion.at = "idle"
    /\ indexed
    /\ \E t \in Found(k) : deletion' = [at |-> "cancel", by |-> k, target |-> t]
    /\ UNCHANGED <<gateway, closing, active, sessionVars, at, tokenVars, loopVars, toolVars,
                   confirmationVars>>

\* ... cancels the active turn, which it looks up again, ...
DeleteCancels ==
    /\ DeleteStep("cancel", "wait", deletion.target)
    /\ \E t \in Found(deletion.by) : cancelled' = [u \in Turns |-> cancelled[u] \/ u = t]
    /\ UNCHANGED sessionVars

\* ... waits until the turn that it kept is complete, or fails after 30 seconds
\* and may be called again, ...
DeleteWaited ==
    /\ DeleteStep("wait", "remove", None)
    /\ deletion.target # None => completed[deletion.target]
    /\ UNCHANGED <<sessionVars, cancelled>>
DeleteTimesOut ==
    /\ DeleteStep("wait", "idle", None)
    /\ deletion.target # None /\ ~completed[deletion.target]
    /\ UNCHANGED <<sessionVars, cancelled>>

\* ... and removes the file, then the index row.
DeleteFile ==
    /\ DeleteStep("remove", "unindex", None)
    /\ history' = <<>>
    /\ UNCHANGED <<indexed, cancelled>>
DeleteRow ==
    /\ DeleteStep("unindex", "done", None)
    /\ indexed' = FALSE
    /\ UNCHANGED <<history, cancelled>>

Delete ==
    \/ \E k \in Keys : DeleteBegins(k)
    \/ DeleteCancels \/ DeleteWaited \/ DeleteTimesOut \/ DeleteFile \/ DeleteRow


(***************************************************************************)
(* AgentLoop.run_turn.                                                     *)
(***************************************************************************)

\* What every step of the loop leaves alone.
LoopStep == UNCHANGED <<runtimeVars, indexed, tokenVars>>
\* A step that only moves the thread.
Move(t, from, to) ==
    /\ Goto(t, from, to)
    /\ LoopStep
    /\ UNCHANGED <<history, loopVars, toolVars, confirmationVars>>
\* A step that ends the loop: these messages complete the turn, and are appended next.
Finish(t, from, messages) ==
    /\ Goto(t, from, "save")
    /\ pending' = [pending EXCEPT ![t] = @ \o messages]
    /\ ForgetRequest(t)
    /\ LoopStep
    /\ UNCHANGED <<history, index, toolVars, confirmationVars>>

\* Mutant: the checkpoints are not there.
StopNotSeen(t) == FALSE
\* _raise_if_cancelled, at the checkpoints of the loop.
StopSeen(t) == cancelled[t]

\* Mutant: only the question and the marker are kept.
StopWithoutTrace(t, from) ==
    /\ StopSeen(t)
    /\ Goto(t, from, "save")
    /\ pending' = [pending EXCEPT ![t] = <<Head(@), Text(t)>>]
    /\ ForgetRequest(t)
    /\ LoopStep
    /\ UNCHANGED <<history, index, toolVars, confirmationVars>>
\* persist_cancelled_turn: the turn so far, and the marker that it was stopped.
Stop(t, from) == StopSeen(t) /\ Finish(t, from, <<Text(t)>>)

\* The session is loaded, the turn gets its index and its context.
Load(t) ==
    /\ Goto(t, "start", "ask")
    /\ index' = [index EXCEPT ![t] = NextIndex(history)]
    /\ pending' = [pending EXCEPT ![t] = <<User(t)>>]
    /\ prompt' = [prompt EXCEPT ![t] = Append(ToPrompt(history), User(t))]
    /\ LoopStep
    /\ UNCHANGED <<history, rounds, queue, toolVars, confirmationVars>>

\* Nothing is appended when the context cannot be built, nor when a request does not fit the
\* budget any more: the exception leaves run_turn.
ContextFails(t) == Move(t, "start", "leave")
RequestTooLarge(t) == Move(t, "ask", "leave")

SendRequest(t) == ~StopSeen(t) /\ Move(t, "ask", "model")

\* The response, or a chunk of it, is dropped when the turn was cancelled meanwhile; an error
\* of the provider becomes the turn's answer.
RequestFails(t) == Finish(t, "model", <<Text(t)>>)
RespondText(t) == ~StopSeen(t) /\ Finish(t, "model", <<Text(t)>>)

\* The calls that the turn has been asked for.
Asked(t) == UNION {ToSet(pending[t][i].calls) : i \in 1 .. Len(pending[t])}
AtLimit(t) == rounds[t] >= MaxRounds

RespondCalls(t, calls) ==
    /\ ~StopSeen(t)
    /\ ToSet(calls) \cap Asked(t) = {}
    /\ ~AtLimit(t)
    /\ Goto(t, "model", "check")
    /\ rounds' = [rounds EXCEPT ![t] = @ + 1]
    /\ queue' = [queue EXCEPT ![t] = calls]
    /\ pending' = [pending EXCEPT ![t] = Append(@, Asks(t, calls))]
    /\ prompt' = [prompt EXCEPT ![t] = Append(@, Asks(t, calls))]
    /\ LoopStep
    /\ UNCHANGED <<history, index, toolVars, confirmationVars>>

\* Past the limit every call is answered by an error and the model is asked once more, without
\* tools.  The errors join the session's messages but not the request's.
LimitReached(t, calls) ==
    /\ ~StopSeen(t)
    /\ AtLimit(t)
    /\ Goto(t, "model", "summary")
    /\ LET errors == [i \in 1 .. Len(calls) |-> Answer(t, calls[i])]
       IN pending' = [pending EXCEPT ![t] = @ \o <<Asks(t, calls)>> \o errors \o <<Text(t)>>]
    /\ prompt' = [prompt EXCEPT ![t] = @ \o <<Asks(t, calls), Text(t)>>]
    /\ LoopStep
    /\ UNCHANGED <<history, index, rounds, queue, toolVars, confirmationVars>>

\* The summary, or nothing more when its request fails.  The token is not looked at.
Summarised(t) == \E m \in {<<>>, <<Text(t)>>} : Finish(t, "summary", m)

Call(t) == Head(queue[t])

\* A malformed call, a hook that blocks it, and a policy that denies it answer for the tool.
CallRefused(t) == ~StopSeen(t) /\ Move(t, "check", "result")
\* The policy or the store of confirmations raises: the exception leaves run_turn, which has
\* appended nothing.
CallRaises(t) == ~StopSeen(t) /\ Move(t, "check", "leave")
CallAllowed(t) == ~StopSeen(t) /\ Move(t, "check", "run") /\ Call(t) \notin Risky
CallAsked(t) ==
    /\ ~StopSeen(t)
    /\ Goto(t, "check", "wait")
    /\ Call(t) \in Risky
    /\ Confirm!Ask(<<t, Call(t)>>)
    /\ LoopStep
    /\ UNCHANGED <<history, loopVars, toolVars>>

\* The steps of the broker that waits for the confirmation.
WaitStep(t) ==
    LET r == <<t, Call(t)>>
    IN /\ at[t] = "wait"
       /\ \/ Confirm!Poll(r)
          \/ Confirm!GiveUp(r)
          \/ Confirm!Lapse(r)
       /\ LoopStep
       /\ UNCHANGED <<history, at, loopVars, toolVars>>

\* Mutant: a call runs that nobody denied.
NotDenied(t) == wait[<<t, Call(t)>>] # "denied"
\* Only an approved call runs.
Approved(t) == wait[<<t, Call(t)>>] = "approved"
WaitEnds(t) ==
    /\ Goto(t, "wait", IF Approved(t) THEN "run" ELSE "result")
    /\ wait[<<t, Call(t)>>] \in Confirm!Decided
    /\ Confirm!Return(<<t, Call(t)>>)
    /\ LoopStep
    /\ UNCHANGED <<history, loopVars, toolVars>>
WaitRaises(t) ==
    /\ Goto(t, "wait", "leave")
    /\ Confirm!Return(<<t, Call(t)>>)
    /\ LoopStep
    /\ UNCHANGED <<history, loopVars, toolVars>>

RunTool(t) ==
    /\ Goto(t, "run", "result")
    /\ executed' = executed \cup {<<t, Call(t)>>}
    /\ lateRuns' = IF cancelled[t] THEN lateRuns \cup {<<t, Call(t)>>} ELSE lateRuns
    /\ LoopStep
    /\ UNCHANGED <<history, loopVars, confirmationVars>>

\* The result of a call is only recorded if the turn was not cancelled while it ran.
RecordResult(t) ==
    /\ ~StopSeen(t)
    /\ Goto(t, "result", IF Len(queue[t]) = 1 THEN "ask" ELSE "check")
    /\ queue' = [queue EXCEPT ![t] = Tail(@)]
    /\ pending' = [pending EXCEPT ![t] = Append(@, Answer(t, Call(t)))]
    /\ prompt' = [prompt EXCEPT ![t] = Append(@, Answer(t, Call(t)))]
    /\ LoopStep
    /\ UNCHANGED <<history, index, rounds, toolVars, confirmationVars>>

\* _append_session_messages; an OSError becomes a note in the answer.
Save(t) ==
    /\ Goto(t, "save", "leave")
    /\ history' = history \o pending[t]
    /\ pending' = [pending EXCEPT ![t] = <<>>]
    /\ LoopStep
    /\ UNCHANGED <<index, rounds, queue, prompt, toolVars, confirmationVars>>
SaveFails(t) == Move(t, "save", "leave")

StopStep(t) == \E from \in {"ask", "model", "check", "result"} : Stop(t, from)

\* What the thread does by itself, ...
Proceed(t) ==
    \/ Register(t) \/ Refuse(t) \/ Load(t) \/ StopStep(t) \/ SendRequest(t) \/ RespondText(t)
    \/ \E calls \in Batches[t] : RespondCalls(t, calls) \/ LimitReached(t, calls)
    \/ Summarised(t) \/ CallRefused(t) \/ CallAllowed(t) \/ CallAsked(t) \/ WaitStep(t)
    \/ WaitEnds(t) \/ RunTool(t) \/ RecordResult(t) \/ Save(t) \/ Leave(t)
\* ... and what may fail.
Fail(t) ==
    \/ ContextFails(t) \/ RequestTooLarge(t) \/ RequestFails(t) \/ CallRaises(t)
    \/ WaitRaises(t) \/ SaveFails(t)

Outside ==
    \/ \E k \in Keys : CancelSession(k)
    \/ ShutdownBegins \/ ShutdownCancels
    \/ Delete
    \/ /\ Confirm!Decider
       /\ UNCHANGED <<runtimeVars, sessionVars, at, tokenVars, loopVars, toolVars>>

Next == \/ \E t \in Turns : Admit(t) \/ Proceed(t) \/ Fail(t)
        \/ Outside

ChatSpec == ChatInit /\ [][Next]_vars

\* A thread that can go on does: models and tools return, whatever they return, and a wait for a
\* confirmation has a deadline.  Nothing has to fail for a turn to end.
FairChatSpec == ChatSpec /\ \A t \in Turns : WF_vars(Proceed(t))


(***************************************************************************)
(* Properties.                                                             *)
(***************************************************************************)
TypeOK ==
    /\ gateway \in {"open", "closing", "closed"}
    /\ active \in [Keys -> Turns \cup {None}]
    /\ closing \subseteq Turns
    /\ deletion.at \in {"idle", "cancel", "wait", "remove", "unindex", "done"}
    /\ deletion.target \in Turns \cup {None}
    /\ indexed \in BOOLEAN
    /\ at \in [Turns -> Running \cup {"new", "admitted", "ended"}]
    /\ owner \in [Turns -> Keys]
    /\ cancelled \in [Turns -> BOOLEAN]
    /\ completed \in [Turns -> BOOLEAN]
    /\ index \in [Turns -> 0 .. Cardinality(Turns)]
    /\ rounds \in [Turns -> 0 .. MaxRounds]
    /\ executed \subseteq Turns \X Calls
    /\ lateRuns \subseteq executed
    /\ \A t \in Turns : at[t] \in {"check", "wait", "run", "result"} => queue[t] # <<>>
    /\ Confirm!ConfirmationTypeOK

\* A turn that runs and is not cancelled can be stopped: the stop button, a newer turn and
\* delete_session find it in _active_turns, or a shutdown that has begun is about to cancel it.
RunningIsStoppable ==
    \A t \in Turns : Live(t) /\ ~cancelled[t] =>
        \/ active[owner[t]] = t
        \/ gateway = "closing" /\ t \in closing

\* When a shutdown is through with the turns, none goes on uncancelled, not even one that was
\* admitted before it and registered during it.
ShutdownCancelsAll ==
    gateway = "closed" => \A t \in Turns : Live(t) => cancelled[t]

\* A turn that has been cancelled begins at most the one tool call that had passed its
\* checkpoint already, however many the model asked for.
OneToolAfterCancel == \A e, f \in lateRuns : e[1] = f[1] => e = f

\* A risky call only runs if somebody's approval of that very call was accepted, whichever
\* decisions, cancellations and timeouts raced with it.
ConfirmedBeforeRun ==
    \A e \in executed : e[2] \in Risky => <<e, "approved">> \in answers

\* An assistant message is followed at once by one result for each of its calls and by no other
\* tool message, and no tool message stands anywhere else.
WholeBlocks(m) ==
    \A i \in 1 .. Len(m) :
        /\ m[i].role = "assistant" => AllAnswered(m, i) /\ Row(m, i) = ResultsFrom(m, i)
        /\ m[i].role = "tool" => \E j \in 1 .. i - 1 : m[j].role = "assistant" /\ i \in Row(m, j)

\* The requests of the loop never carry half a tool block, whatever stopped, interleaved and
\* failed turns have left in the session.
RequestsWhole == \A t \in Turns : at[t] = "model" => WholeBlocks(prompt[t])

\* The same of the request for a summary at the iteration limit.
SummaryWhole == \A t \in Turns : at[t] = "summary" => WholeBlocks(prompt[t])

\* A turn that appends its messages leaves a trace of every call that it ran.
EffectsLeaveTrace ==
    \A t \in Turns : at[t] = "save" =>
        \A e \in executed : e[1] = t => e[2] \in Asked(t)

\* A session that was deleted, and not begun anew, has no messages.
NothingAfterDelete == deletion.at = "done" /\ ~indexed => history = <<>>

\* A decision that was answered with a denial is final: the call does not run.
DenialHolds == \A e \in executed : <<e, "denied">> \notin answers

\* Every turn that is admitted ends: in its answer, an error, the limit or its cancellation.
TurnsEnd == \A t \in Turns : at[t] = "admitted" ~> at[t] = "ended"

=============================================================================
