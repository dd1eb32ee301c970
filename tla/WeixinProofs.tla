----------------------------- MODULE WeixinProofs -----------------------------
(***************************************************************************)
(* With any number of messages, chunks, faults and crashes: no message has *)
(* two turns; an unclaimed one that the sidecar will not ask for again was *)
(* rejected, or given up with its handler still to come unless the process *)
(* has crashed; and the chunks of a reply arrive in their order, each once unless an    *)
(* attempt to send it has failed.                                          *)
(***************************************************************************)
EXTENDS Weixin, SequenceTheorems, TLAPS

HandlerTypes ==
    /\ event \in [Messages -> {"none", "processing", "done", "error"}]
    /\ stage \in [Messages -> {"none", "claimed", "ready", "turn", "enqueue", "reply", "done",
                               "error"}]
    /\ turns \in [Messages -> Nat]

\* A turn needs a claim, a claim is taken once, and a claimed message has one turn ahead of
\* it or behind it.
ClaimedOnce ==
    \A m \in Messages :
        /\ event[m] = "none" => turns[m] = 0
        /\ stage[m] \in {"claimed", "ready"} => event[m] # "none" /\ turns[m] = 0
        /\ turns[m] <= 1

TurnInv == HandlerTypes /\ ClaimedOnce

\* A message is settled when it is claimed, rejected or given up, the last with its handler to
\* come.  While dispositions are awaited, each message up to the cursor of the response is
\* behind the old cursor, awaited or settled; one that is awaited and neither claimed nor
\* rejected has its handler to come.
Handled(m) == event[m] # "none" \/ m \in refused
ToCome(m) == m \in frames \/ crashes > 0
Passed(m) == Handled(m) \/ (m \in gaveUp /\ ToCome(m))

PollInv ==
    /\ cursor \in Nat /\ fetched \in Nat /\ arrived \in Nat /\ crashes \in Nat
    /\ \A m \in Messages : m <= cursor => Passed(m)
    /\ \A m \in Messages : m \in awaiting => Handled(m) \/ ToCome(m)
    /\ poll = "waiting" =>
          \A m \in Messages : m <= fetched /\ ~(m <= cursor) => m \in awaiting \/ Passed(m)

-----------------------------------------------------------------------------
(***************************************************************************)
(* The steps, by what they do to the events and to the cursor.             *)
(***************************************************************************)

\* Nothing happens to the claims, except that a crash stops the handlers, a turn that fails
\* its sends ends with an error, and a drain finishes events.
NoClaim ==
    /\ UNCHANGED turns
    /\ stage' \in [Messages -> {"none", "claimed", "ready", "turn", "enqueue", "reply", "done",
                                "error"}]
    /\ event' \in [Messages -> {"none", "processing", "done", "error"}]
    /\ \A m \in Messages : /\ event'[m] = "none" => event[m] = "none"
                           /\ stage'[m] \in {"claimed", "ready"} => stage[m] \in {"claimed", "ready"}

LEMMA NoClaimKeeps ==
    ASSUME TurnInv, NoClaim
    PROVE  TurnInv'
  BY DEF TurnInv, HandlerTypes, ClaimedOnce, NoClaim

\* The account is started again, a degraded one included.
LEMMA StartLeavesHandlers ==
    ASSUME NEW again, NEW ended, StartAccount(again, ended)
    PROVE  \/ UNCHANGED <<sidecarVars, gaveUp>>
           \/ StopAccount /\ poll' \in {"idle", "none"}
  BY DEF StartAccount, RestartAccount, LoseAccount

LEMMA HandleTurns ==
    ASSUME TurnInv, NEW m \in Messages, Handle(m)
    PROVE  TurnInv'
<1>1. CASE Claim(m)
  BY <1>1 DEF Claim, Claimable, TurnInv, HandlerTypes, ClaimedOnce, sendVars
<1>2. CASE Ack(m)
  BY <1>2 DEF Ack, TurnInv, HandlerTypes, ClaimedOnce
<1>3. CASE BeginTurn(m)
  BY <1>3 DEF BeginTurn, TurnInv, HandlerTypes, ClaimedOnce
<1>4. CASE EndTurn(m)
  BY <1>4 DEF EndTurn, TurnInv, HandlerTypes, ClaimedOnce
<1>5. CASE Enqueue(m)
  BY <1>5 DEF Enqueue, TurnInv, HandlerTypes, ClaimedOnce
<1>6. CASE Reply(m)
  BY <1>6 DEF Reply, TurnInv, HandlerTypes, ClaimedOnce
<1>7. CASE Finish(m)
  BY <1>7 DEF Finish, TurnInv, HandlerTypes, ClaimedOnce
<1> QED BY <1>1, <1>2, <1>3, <1>4, <1>5, <1>6, <1>7 DEF Handle

LEMMA TurnStep ==
    ASSUME TurnInv, [Next]_vars
    PROVE  TurnInv'
<1>1. CASE UNCHANGED <<event, stage, turns>>
  BY <1>1 DEF TurnInv, HandlerTypes, ClaimedOnce
<1>2. CASE Arrive \/ Poll \/ PollFails \/ AdvanceCursor \/ UNCHANGED vars
  BY <1>1, <1>2 DEF Arrive, Poll, PollFails, AdvanceCursor, handlerVars, vars
<1>3. ASSUME NEW m \in Messages, AckTimeout(m) \/ Reject(m) PROVE TurnInv'
  BY <1>1, <1>3 DEF AckTimeout, Reject, handlerVars
<1>4. CASE RetryAccount \/ Reconnect \/ Restart
  BY <1>1, <1>4 DEF RetryAccount, Reconnect, Restart, handlerVars
<1>5. CASE ListPending \/ SendSucceeds
  BY <1>1, <1>5 DEF ListPending, SendSucceeds, handlerVars
<1>6. CASE DrainStep
  BY <1>6, NoClaimKeeps DEF DrainStep, NoClaim, TurnInv, HandlerTypes
<1>7. CASE SendFails
  BY <1>7 DEF SendFails, GiveUpSending, TurnInv, HandlerTypes, ClaimedOnce
<1>8. CASE Crash
  BY <1>8, NoClaimKeeps DEF Crash, NoClaim, TurnInv, HandlerTypes
<1> QED BY <1>2, <1>3, <1>4, <1>5, <1>6, <1>7, <1>8, HandleTurns DEF Next, Drain, Send

LEMMA TurnInit == Init => TurnInv
  BY DEF Init, TurnInv, HandlerTypes, ClaimedOnce

\* A message has one turn at most, however often it is delivered and wherever the process
\* stops (handle_frame, claim_channel_event).
THEOREM TurnsAreSingle == Spec => []OneTurnPerMessage
<1>1. TurnInv /\ [Next]_vars => TurnInv'
  BY TurnStep
<1>2. TurnInv => OneTurnPerMessage
  BY DEF TurnInv, ClaimedOnce, OneTurnPerMessage
<1> QED BY <1>1, <1>2, TurnInit, PTL DEF Spec

-----------------------------------------------------------------------------
(***************************************************************************)
(* The cursor.  Claims, rejections and the messages that were given up     *)
(* only grow, and a handler to come goes only with its claim, a rejection  *)
(* or a crash: it is enough to look at what moves the cursor or the wait.  *)
(***************************************************************************)
SettledStay ==
    \A m \in Messages : /\ Handled(m) => Handled(m)'
                        /\ ToCome(m) => Handled(m)' \/ ToCome(m)'
                        /\ m \in gaveUp => m \in gaveUp'

LEMMA Settled ==
    ASSUME SettledStay, NEW m \in Messages
    PROVE  /\ Passed(m) => Passed(m)'
           /\ Handled(m) \/ ToCome(m) => Handled(m)' \/ ToCome(m)'
<1>1. /\ Handled(m) => Handled(m)'
      /\ ToCome(m) => Handled(m)' \/ ToCome(m)'
      /\ m \in gaveUp => m \in gaveUp'
  BY DEF SettledStay
<1> QED BY <1>1 DEF Passed

\* The steps that leave the frames, the claims and the history of crashes as they are.
LEMMA HandlersApart ==
    ASSUME UNCHANGED <<event, refused, crashes>>, frames \subseteq frames', gaveUp \subseteq gaveUp'
    PROVE  SettledStay
  BY DEF SettledStay, Handled, ToCome

LEMMA ClaimsStay ==
    ASSUME TurnInv, PollInv, [Next]_vars
    PROVE  SettledStay
<1>1. CASE Arrive \/ PollFails \/ AdvanceCursor \/ ListPending \/ SendSucceeds \/ UNCHANGED vars
  BY <1>1, HandlersApart DEF Arrive, PollFails, AdvanceCursor, ListPending, SendSucceeds,
                             handlerVars, sidecarVars, vars
<1>2. CASE Poll
  BY <1>2, HandlersApart DEF Poll, handlerVars
<1>3. ASSUME NEW m \in Messages, AckTimeout(m) PROVE SettledStay
  BY <1>3, HandlersApart DEF AckTimeout, handlerVars
<1>4. ASSUME NEW m \in Messages, Reject(m) PROVE SettledStay
  BY <1>4 DEF Reject, handlerVars, SettledStay, Handled, ToCome
<1>5. CASE RetryAccount \/ Reconnect \/ Restart
  <2>1. UNCHANGED <<event, refused, crashes>>
    BY <1>5 DEF RetryAccount, Reconnect, Restart, handlerVars
  <2>2. UNCHANGED frames /\ gaveUp \subseteq gaveUp'
    BY <1>5, StartLeavesHandlers DEF RetryAccount, Reconnect, Restart, RestartAccount, StopAccount,
                                     sidecarVars
  <2> QED BY <2>1, <2>2, HandlersApart
<1>6. CASE DrainStep
  BY <1>6 DEF DrainStep, SettledStay, Handled, ToCome, TurnInv, HandlerTypes, sidecarVars
<1>7. CASE SendFails
  BY <1>7, HandlersApart DEF SendFails, sidecarVars
<1>8. CASE Crash
  BY <1>8 DEF Crash, SettledStay, Handled, ToCome, PollInv
<1>9. ASSUME NEW m \in Messages, Claim(m) PROVE SettledStay
  BY <1>9 DEF Claim, Claimable, SettledStay, Handled, ToCome, TurnInv, HandlerTypes
<1>10. ASSUME NEW m \in Messages,
              Ack(m) \/ BeginTurn(m) \/ EndTurn(m) \/ Enqueue(m) \/ Reply(m) \/ Finish(m)
       PROVE  SettledStay
  BY <1>10 DEF Ack, BeginTurn, EndTurn, Enqueue, Reply, Finish, HandlerStep, sidecarVars,
               SettledStay, Handled, ToCome, TurnInv, HandlerTypes
<1> QED BY <1>1, <1>2, <1>3, <1>4, <1>5, <1>6, <1>7, <1>8, <1>9, <1>10 DEF Next, Drain, Send, Handle

\* What a step may do to the sidecar: nothing; settle or give up one message; hear of a new
\* one; answer a poll; write the cursor; stop the account; stop altogether.
PollStep ==
    \/ UNCHANGED <<arrived, cursor, poll, fetched, awaiting>>
    \/ /\ UNCHANGED <<arrived, cursor, poll, fetched>> /\ awaiting' \subseteq awaiting
       /\ \A m \in Messages : m \in awaiting => m \in awaiting' \/ Passed(m)'
    \/ /\ arrived' \in Nat /\ UNCHANGED <<cursor, poll, fetched, awaiting>>
    \/ /\ fetched' = arrived /\ awaiting' = (cursor + 1) .. arrived /\ awaiting' \subseteq frames'
       /\ UNCHANGED <<arrived, cursor>>
    \/ /\ poll = "waiting" /\ awaiting = {} /\ cursor' = fetched /\ poll' = "idle"
       /\ UNCHANGED <<arrived, fetched, awaiting>>
    \/ StopAccount /\ poll' \in {"idle", "none"}
    \/ poll' \in {"off", "none"} /\ UNCHANGED <<arrived, cursor>> /\ fetched' \in Nat
       /\ awaiting' \subseteq awaiting

LEMMA OneSettled ==
    ASSUME NEW m \in Messages, UNCHANGED <<arrived, cursor, poll, fetched>>,
           \/ awaiting' = awaiting
           \/ awaiting' = awaiting \ {m} /\ (event'[m] # "none" \/ m \in refused')
    PROVE  PollStep
<1>1. CASE awaiting' = awaiting
  BY <1>1 DEF PollStep
<1>2. CASE awaiting' = awaiting \ {m} /\ (event'[m] # "none" \/ m \in refused')
  <2>1. Passed(m)'
    BY <1>2 DEF Passed, Handled
  <2> QED BY <1>2, <2>1 DEF PollStep
<1> QED BY <1>1, <1>2

LEMMA NextIsPollStep ==
    ASSUME TurnInv, PollInv, [Next]_vars
    PROVE  PollStep
<1>1. CASE Arrive
  BY <1>1 DEF Arrive, PollStep, PollInv
<1>2. CASE Poll \/ AdvanceCursor \/ Crash
  BY <1>2 DEF Poll, AdvanceCursor, Crash, PollStep, PollInv
<1>3. CASE PollFails
  BY <1>3 DEF PollFails, PollStep, PollInv
<1>4. ASSUME NEW m \in Messages, AckTimeout(m) PROVE PollStep
  <2>1. m \in awaiting /\ m \in gaveUp' /\ UNCHANGED <<frames, crashes, event, refused>>
    BY <1>4 DEF AckTimeout, handlerVars
  <2>2. Handled(m) \/ ToCome(m)
    BY <2>1 DEF PollInv
  <2>3. Handled(m)' \/ ToCome(m)'
    BY <2>1, <2>2 DEF Handled, ToCome
  <2>4. Passed(m)'
    BY <2>1, <2>3 DEF Passed
  <2> QED BY <1>4, <2>4 DEF AckTimeout, PollStep
<1>5. CASE RetryAccount \/ Reconnect \/ Restart
  BY <1>5, StartLeavesHandlers DEF RetryAccount, Reconnect, Restart, RestartAccount, PollStep,
                                   sidecarVars
<1>6. CASE Drain \/ Send \/ UNCHANGED vars
  BY <1>6 DEF Drain, ListPending, DrainStep, Send, SendSucceeds, SendFails, PollStep, sidecarVars,
             vars
<1>7. ASSUME NEW m \in Messages, Claim(m) PROVE PollStep
  <2>1. /\ UNCHANGED <<arrived, cursor, poll, fetched>>
        /\ awaiting' \in {awaiting, awaiting \ {m}} /\ event'[m] # "none"
    BY <1>7 DEF Claim, Claimable, Answer, TurnInv, HandlerTypes
  <2> QED BY <2>1, OneSettled
<1>8. ASSUME NEW m \in Messages, Ack(m) PROVE PollStep
  <2>1. /\ UNCHANGED <<arrived, cursor, poll, fetched>>
        /\ awaiting' \in {awaiting, awaiting \ {m}} /\ event'[m] # "none"
    BY <1>8 DEF Ack, Answer, TurnInv, ClaimedOnce
  <2> QED BY <2>1, OneSettled
<1>9. ASSUME NEW m \in Messages, Reject(m) PROVE PollStep
  <2>1. /\ UNCHANGED <<arrived, cursor, poll, fetched>> /\ m \in refused'
        /\ awaiting' \in {awaiting, awaiting \ {m}}
    BY <1>9 DEF Reject
  <2> QED BY <2>1, OneSettled
<1>10. ASSUME NEW m \in Messages,
              BeginTurn(m) \/ EndTurn(m) \/ Enqueue(m) \/ Reply(m) \/ Finish(m)
       PROVE  PollStep
  BY <1>10 DEF BeginTurn, EndTurn, Enqueue, Reply, Finish, HandlerStep, sidecarVars, PollStep
<1> QED BY <1>1, <1>2, <1>3, <1>4, <1>5, <1>6, <1>7, <1>8, <1>9, <1>10 DEF Next, Handle

LEMMA PollInvKept ==
    ASSUME PollInv, PollStep, SettledStay, crashes' \in Nat
    PROVE  PollInv'
<1>0. Messages \subseteq Nat
  BY DEF Messages
<1>1. CASE /\ UNCHANGED <<arrived, cursor, poll, fetched>> /\ awaiting' \subseteq awaiting
           /\ \A m \in Messages : m \in awaiting => m \in awaiting' \/ Passed(m)'
  BY <1>1, Settled DEF PollInv
<1>2. CASE arrived' \in Nat /\ UNCHANGED <<cursor, poll, fetched, awaiting>>
  BY <1>2, Settled DEF PollInv
<1>3. CASE /\ fetched' = arrived /\ awaiting' = (cursor + 1) .. arrived /\ awaiting' \subseteq frames'
           /\ UNCHANGED <<arrived, cursor>>
  <2>1. \A m \in Messages : m <= cursor' => Passed(m)'
    BY <1>3, Settled DEF PollInv
  <2>2. \A m \in Messages : m <= fetched' /\ ~(m <= cursor') => m \in awaiting'
    BY <1>0, <1>3 DEF PollInv
  <2>3. \A m \in Messages : m \in awaiting' => ToCome(m)'
    BY <1>3 DEF ToCome
  <2> QED BY <1>3, <2>1, <2>2, <2>3 DEF PollInv
<1>4. CASE /\ poll = "waiting" /\ awaiting = {} /\ cursor' = fetched /\ poll' = "idle"
           /\ UNCHANGED <<arrived, fetched, awaiting>>
  BY <1>4, Settled DEF PollInv
<1>5. CASE StopAccount /\ poll' \in {"idle", "none"}
  <2>1. ASSUME NEW m \in Messages, m \in awaiting PROVE Passed(m)'
    <3>1. Handled(m)' \/ ToCome(m)'
      BY <2>1, Settled DEF PollInv
    <3>2. m \in gaveUp'
      BY <1>5, <2>1 DEF StopAccount
    <3> QED BY <3>1, <3>2 DEF Passed
  <2>2. \A m \in Messages : m <= cursor' => Passed(m)'
    BY <1>5, <2>1, Settled DEF StopAccount, PollInv
  <2> QED BY <1>5, <2>2 DEF StopAccount, PollInv
<1>6. CASE /\ poll' \in {"off", "none"} /\ UNCHANGED <<arrived, cursor>> /\ fetched' \in Nat
           /\ awaiting' \subseteq awaiting
  BY <1>6, Settled DEF PollInv
<1> QED BY <1>1, <1>2, <1>3, <1>4, <1>5, <1>6 DEF PollStep

LEMMA CrashesCounted ==
    ASSUME PollInv, [Next]_vars
    PROVE  crashes' \in Nat
<1>1. CASE Crash
  BY <1>1 DEF Crash, PollInv
<1>2. CASE ~Crash
  BY <1>2 DEF PollInv, Next, Arrive, Poll, PollFails, AdvanceCursor, AckTimeout, Reject, Handle, Claim,
             Ack, BeginTurn, EndTurn, Enqueue, Reply, Finish, HandlerStep, RetryAccount, Reconnect,
             Drain, ListPending, DrainStep, Send, SendSucceeds, SendFails, Restart, vars
<1> QED BY <1>1, <1>2

LEMMA PollInit == Init => PollInv
  BY DEF Init, PollInv, Messages

\* The cursor passes an unclaimed message only if the adapter rejected it, or if the sidecar
\* gave it up; its handler is then still to come, unless the process has crashed (pollLoop,
\* deliver, stop, handle_frame).
THEOREM UnclaimedAreAccounted == Spec => []LostOnlyByCrash
<1>1. TurnInv /\ PollInv /\ [Next]_vars => TurnInv' /\ PollInv'
  BY TurnStep, ClaimsStay, CrashesCounted, NextIsPollStep, PollInvKept
<1>2. PollInv => LostOnlyByCrash
  BY DEF PollInv, LostOnlyByCrash, Passed, Handled, ToCome
<1> QED BY <1>1, <1>2, TurnInit, PollInit, PTL DEF Spec

-----------------------------------------------------------------------------
(***************************************************************************)
(* The Outbox.  Rows are created once and in their order, and every row    *)
(* before the one that is sent has been sent.                              *)
(***************************************************************************)
OutboxTypes ==
    /\ outbox \in [Rows -> {"none", "pending", "sent"}]
    /\ received \in [Rows -> Nat]
    /\ chunk \in [Messages -> Nat \ {0}]

Earlier(r) == <<r[1], r[2] - 1>>

\* The rows of a message are created by its only turn, one after the other.
Enqueued ==
    \A r \in Rows :
        /\ event[r[1]] = "none" \/ stage[r[1]] \in {"claimed", "ready", "turn"} => outbox[r] = "none"
        /\ stage[r[1]] # "none" => event[r[1]] # "none"
        /\ stage[r[1]] \in {"claimed", "ready", "turn"} => chunk[r[1]] = 1
        /\ stage[r[1]] = "enqueue" => (outbox[r] # "none" <=> r[2] < chunk[r[1]])
        /\ stage[r[1]] = "reply" => /\ outbox[r] # "none"
                                    /\ r[2] < chunk[r[1]] => outbox[r] = "sent"
        /\ outbox[r] # "none" /\ r[2] > 1 => outbox[Earlier(r)] # "none"

\* The order knows every row that there is, and each after the one before it.
Ordered ==
    /\ order \in Seq(Rows)
    /\ \A r \in Rows : outbox[r] # "none" => \E i \in 1 .. Len(order) : order[i] = r
    /\ \A j \in 1 .. Len(order) :
          order[j][2] > 1 => \E i \in 1 .. Len(order) : i < j /\ order[i] = Earlier(order[j])

\* A drain has the rows before its own ones on its list, or they are sent.
Drained ==
    /\ left \subseteq Rows
    /\ \A r \in left : /\ outbox[r] # "none"
                       /\ r[2] > 1 => outbox[Earlier(r)] = "sent" \/ Earlier(r) \in left

\* The row that is being sent is pending, and it is the next one of its reply.
SendsNext ==
    sending # Nobody =>
        /\ sending.row \in Rows /\ outbox[sending.row] = "pending"
        /\ sending.row[2] > 1 => outbox[Earlier(sending.row)] = "sent"

\* What the peer got of a row, by the status of the row.
Copies ==
    \A r \in Rows :
        /\ outbox[r] = "none" => received[r] = 0
        /\ outbox[r] = "pending" /\ r \notin doubtful => received[r] = 0
        /\ outbox[r] = "sent" => received[r] > 0
        /\ received[r] > 1 => r \in doubtful

OutboxInv ==
    OutboxTypes /\ Enqueued /\ Ordered /\ Drained /\ SendsNext /\ Copies /\ RepliesInOrderOnce

LEMMA RowParts ==
    ASSUME NEW r \in Rows
    PROVE  /\ r[1] \in Messages /\ r[2] \in Nat \ {0} /\ r[2] <= Chunks[r[1]] /\ r = <<r[1], r[2]>>
           /\ r[2] > 1 => /\ Earlier(r) \in Rows /\ Earlier(r) # r
                          /\ Earlier(r)[1] = r[1] /\ Earlier(r)[2] = r[2] - 1
<1>1. PICK m \in Messages : r \in {m} \X (1 .. Chunks[m])
  BY DEF Rows
<1>2. Chunks[m] \in Nat
  BY WeixinAssumption DEF Messages
<1>3. r[1] = m /\ r[2] \in 1 .. Chunks[m] /\ r = <<r[1], r[2]>>
  BY <1>1
<1>4. ASSUME r[2] > 1
      PROVE  Earlier(r) \in Rows /\ Earlier(r) # r /\ Earlier(r)[1] = r[1] /\ Earlier(r)[2] = r[2] - 1
  <2>1. Earlier(r) = <<m, r[2] - 1>> /\ r[2] - 1 \in 1 .. Chunks[m]
    BY <1>2, <1>3, <1>4 DEF Earlier
  <2>2. Earlier(r) \in {m} \X (1 .. Chunks[m])
    BY <2>1
  <2> QED BY <1>1, <1>2, <1>3, <2>1, <2>2 DEF Rows
<1> QED BY <1>1, <1>2, <1>3, <1>4

LEMMA NewRow ==
    ASSUME NEW m \in Messages, NEW k \in 1 .. Chunks[m]
    PROVE  <<m, k>> \in Rows
  BY DEF Rows

LEMMA OutboxInit == Init => OutboxInv
<1> SUFFICES ASSUME Init PROVE OutboxInv
  OBVIOUS
<1>1. order = <<>> /\ order \in Seq(Rows) /\ Len(order) = 0
  <2>1. <<>> \in Seq(Rows)
    BY EmptySeq
  <2> QED BY <2>1 DEF Init
<1>2. OutboxTypes /\ Enqueued /\ Drained /\ SendsNext /\ Copies /\ RepliesInOrderOnce
  BY RowParts DEF Init, OutboxTypes, Enqueued, Drained, SendsNext, Copies, RepliesInOrderOnce, Messages
<1>3. Ordered
  BY <1>1 DEF Ordered, Init
<1> QED BY <1>2, <1>3 DEF OutboxInv

\* Steps that touch no row and no handler; the drain may read its list.
Apart ==
    /\ UNCHANGED <<outbox, received, doubtful, order, sending, chunk, stage, event>>
    /\ left' = left \/ left' = {r \in Rows : outbox[r] = "pending"}

LEMMA ApartKeeps ==
    ASSUME OutboxInv, Apart
    PROVE  OutboxInv'
<1>1. OutboxTypes' /\ Enqueued' /\ Ordered' /\ SendsNext' /\ Copies' /\ RepliesInOrderOnce'
  BY DEF OutboxInv, OutboxTypes, Enqueued, Ordered, SendsNext, Copies, RepliesInOrderOnce, Apart,
         Earlier
<1>2. Drained'
  <2>1. CASE left' = left
    BY <2>1 DEF Apart, OutboxInv, Drained, Earlier
  <2>2. CASE left' = {r \in Rows : outbox[r] = "pending"}
    <3> SUFFICES ASSUME NEW r \in left', r[2] > 1
                 PROVE  outbox[Earlier(r)] = "sent" \/ Earlier(r) \in left'
      BY <2>2 DEF Drained, Apart, Earlier
    <3>1. r \in Rows /\ outbox[r] = "pending" /\ Earlier(r) \in Rows
      BY <2>2, RowParts
    <3>2. outbox[Earlier(r)] \in {"pending", "sent"}
      BY <3>1 DEF OutboxInv, OutboxTypes, Enqueued
    <3> QED BY <2>2, <3>1, <3>2
  <2> QED BY <2>1, <2>2 DEF Apart
<1> QED BY <1>1, <1>2 DEF OutboxInv

\* A handler goes on without touching a row.
LEMMA HandlerMoves ==
    ASSUME OutboxInv, NEW m \in Messages,
           UNCHANGED <<outbox, received, doubtful, order, left>>,
           \A n \in Messages \ {m} : UNCHANGED <<stage[n], chunk[n], event[n]>>,
           chunk' \in [Messages -> Nat \ {0}],
           sending' = sending \/ SendsNext',
           \A r \in Rows : r[1] = m =>
              /\ event'[m] = "none" \/ stage'[m] \in {"claimed", "ready", "turn"} => outbox[r] = "none"
              /\ stage'[m] # "none" => event'[m] # "none"
              /\ stage'[m] \in {"claimed", "ready", "turn"} => chunk'[m] = 1
              /\ stage'[m] = "enqueue" => (outbox[r] # "none" <=> r[2] < chunk'[m])
              /\ stage'[m] = "reply" => /\ outbox[r] # "none"
                                        /\ r[2] < chunk'[m] => outbox[r] = "sent"
    PROVE  OutboxInv'
<1>1. Enqueued'
  <2> SUFFICES ASSUME NEW r \in Rows
               PROVE  /\ event'[r[1]] = "none" \/ stage'[r[1]] \in {"claimed", "ready", "turn"}
                           => outbox[r] = "none"
                      /\ stage'[r[1]] # "none" => event'[r[1]] # "none"
                      /\ stage'[r[1]] \in {"claimed", "ready", "turn"} => chunk'[r[1]] = 1
                      /\ stage'[r[1]] = "enqueue" => (outbox[r] # "none" <=> r[2] < chunk'[r[1]])
                      /\ stage'[r[1]] = "reply" => /\ outbox[r] # "none"
                                                   /\ r[2] < chunk'[r[1]] => outbox[r] = "sent"
                      /\ outbox[r] # "none" /\ r[2] > 1 => outbox[Earlier(r)] # "none"
    BY DEF Enqueued, Earlier
  <2>1. CASE r[1] = m
    BY <2>1 DEF OutboxInv, Enqueued
  <2>2. CASE r[1] # m
    BY <2>2, RowParts DEF OutboxInv, Enqueued
  <2> QED BY <2>1, <2>2
<1>2. OutboxTypes' /\ Ordered' /\ Drained' /\ SendsNext' /\ Copies' /\ RepliesInOrderOnce'
  BY ZenonT(40)
  DEF OutboxInv, OutboxTypes, Ordered, Drained, SendsNext, Copies, RepliesInOrderOnce, Earlier
<1> QED BY <1>1, <1>2 DEF OutboxInv

\* Enqueue creates the next row of its message; all before it are there.
LEMMA CreateKeeps ==
    ASSUME TurnInv, OutboxInv, NEW m \in Messages, Enqueue(m), chunk[m] <= Chunks[m]
    PROVE  OutboxInv'
<1> DEFINE k == chunk[m]
           new == <<m, k>>
<1>1. /\ stage[m] = "enqueue" /\ outbox' = [outbox EXCEPT ![new] = "pending"]
      /\ order' = Append(order, new) /\ chunk' = [chunk EXCEPT ![m] = @ + 1]
      /\ UNCHANGED <<stage, event, received, doubtful, sending, left>>
  BY DEF Enqueue, HandlerStep, drainVars
<1>2. k \in Nat \ {0} /\ k \in 1 .. Chunks[m] /\ new \in Rows /\ new[1] = m /\ new[2] = k
  <2>1. k \in Nat \ {0}
    BY DEF OutboxInv, OutboxTypes
  <2>2. k \in 1 .. Chunks[m]
    BY <2>1, WeixinAssumption DEF Messages
  <2> QED BY <2>1, <2>2, NewRow
<1> HIDE DEF k, new
<1>3. /\ outbox[new] = "none" /\ outbox' \in [Rows -> {"none", "pending", "sent"}]
      /\ outbox'[new] = "pending" /\ \A r \in Rows \ {new} : outbox'[r] = outbox[r]
  BY <1>1, <1>2 DEF OutboxInv, OutboxTypes, Enqueued, k
<1>4. /\ chunk' \in [Messages -> Nat \ {0}] /\ chunk'[m] = k + 1
      /\ \A n \in Messages \ {m} : chunk'[n] = chunk[n]
  BY <1>1, <1>2 DEF OutboxInv, OutboxTypes, k
<1>5. \A r \in Rows : r[1] = m /\ r[2] = k => r = new
  BY <1>2, RowParts DEF new, k
<1>6. new[2] > 1 => outbox[Earlier(new)] # "none" /\ Earlier(new) # new /\ Earlier(new) \in Rows
  <2> SUFFICES ASSUME new[2] > 1
               PROVE  outbox[Earlier(new)] # "none" /\ Earlier(new) # new /\ Earlier(new) \in Rows
    OBVIOUS
  <2>1. /\ Earlier(new) \in Rows /\ Earlier(new) # new
        /\ Earlier(new)[1] = m /\ Earlier(new)[2] = k - 1
    BY <1>2, RowParts
  <2>2. Earlier(new)[2] < chunk[m]
    BY <1>2, <2>1 DEF k
  <2> QED BY <1>1, <2>1, <2>2 DEF OutboxInv, Enqueued
<1>7. Enqueued'
  <2> SUFFICES ASSUME NEW r \in Rows
               PROVE  /\ event[r[1]] = "none" \/ stage[r[1]] \in {"claimed", "ready", "turn"}
                           => outbox'[r] = "none"
                      /\ stage[r[1]] # "none" => event[r[1]] # "none"
                      /\ stage[r[1]] \in {"claimed", "ready", "turn"} => chunk'[r[1]] = 1
                      /\ stage[r[1]] = "enqueue" => (outbox'[r] # "none" <=> r[2] < chunk'[r[1]])
                      /\ stage[r[1]] = "reply" => /\ outbox'[r] # "none"
                                                  /\ r[2] < chunk'[r[1]] => outbox'[r] = "sent"
                      /\ outbox'[r] # "none" /\ r[2] > 1 => outbox'[Earlier(r)] # "none"
    BY <1>1 DEF Enqueued, Earlier
  <2>1. r[1] \in Messages /\ r[2] \in Nat \ {0} /\ r[2] <= Chunks[r[1]]
    BY RowParts
  <2>2. event[m] # "none"
    BY <1>1, <1>2 DEF OutboxInv, Enqueued
  <2>3. outbox'[r] # "none" /\ r[2] > 1 => outbox'[Earlier(r)] # "none"
    <3>1. CASE r = new
      BY <1>3, <1>6, <3>1
    <3>2. CASE r # new /\ r[2] > 1
      <4>1. Earlier(r) \in Rows
        BY <3>2, RowParts
      <4>2. outbox[r] # "none" => outbox[Earlier(r)] # "none"
        BY <3>2 DEF OutboxInv, Enqueued
      <4> QED BY <1>3, <3>2, <4>1, <4>2
    <3> QED BY <3>1, <3>2
  <2>4. CASE r[1] # m
    <3>1. outbox'[r] = outbox[r] /\ chunk'[r[1]] = chunk[r[1]]
      BY <1>2, <1>3, <1>4, <2>1, <2>4
    <3> QED BY <2>3, <2>4, <3>1 DEF OutboxInv, Enqueued
  <2>5. CASE r[1] = m
    <3>1. outbox[r] # "none" <=> r[2] < k
      BY <1>1, <2>5 DEF OutboxInv, Enqueued, k
    <3>2. outbox'[r] # "none" <=> r[2] < k + 1
      <4>1. CASE r = new
        BY <1>2, <1>3, <4>1
      <4>2. CASE r # new
        <5>1. r[2] # k
          BY <1>5, <2>5, <4>2
        <5> QED BY <1>2, <1>3, <2>1, <3>1, <4>2, <5>1
      <4> QED BY <4>1, <4>2
    <3> QED BY <1>1, <1>4, <2>2, <2>3, <2>5, <3>2
  <2> QED BY <2>4, <2>5
<1>8. Ordered'
  <2>1. /\ order \in Seq(Rows) /\ Len(order) \in Nat /\ order' \in Seq(Rows)
        /\ Len(order') = Len(order) + 1 /\ order'[Len(order) + 1] = new
        /\ \A i \in 1 .. Len(order) : order'[i] = order[i]
    BY <1>1, <1>2 DEF OutboxInv, Ordered
  <2>2. ASSUME NEW r \in Rows, outbox[r] # "none"
        PROVE  \E i \in 1 .. Len(order) : order'[i] = r
    BY <2>1, <2>2 DEF OutboxInv, Ordered
  <2>3. ASSUME NEW r \in Rows, outbox'[r] # "none"
        PROVE  \E i \in 1 .. Len(order') : order'[i] = r
    <3>1. CASE r = new
      BY <2>1, <3>1
    <3>2. CASE r # new
      <4>1. outbox[r] # "none"
        BY <1>3, <2>3, <3>2
      <4> QED BY <2>1, <2>2, <4>1
    <3> QED BY <3>1, <3>2
  <2>4. ASSUME NEW j \in 1 .. Len(order'), order'[j][2] > 1
        PROVE  \E i \in 1 .. Len(order') : i < j /\ order'[i] = Earlier(order'[j])
    <3>1. CASE j = Len(order) + 1
      <4>1. order'[j] = new
        BY <2>1, <3>1
      <4>2. PICK i \in 1 .. Len(order) : order'[i] = Earlier(new)
        BY <1>6, <2>2, <2>4, <4>1
      <4> QED BY <2>1, <3>1, <4>1, <4>2
    <3>2. CASE j # Len(order) + 1
      <4>1. j \in 1 .. Len(order) /\ order'[j] = order[j]
        BY <2>1, <3>2
      <4>2. PICK i \in 1 .. Len(order) : i < j /\ order[i] = Earlier(order[j])
        BY <2>4, <4>1 DEF OutboxInv, Ordered
      <4> QED BY <2>1, <4>1, <4>2
    <3> QED BY <3>1, <3>2
  <2> QED BY <2>1, <2>3, <2>4 DEF Ordered, Earlier
<1>9. Drained'
  <2>1. ASSUME NEW r \in left
        PROVE  /\ outbox'[r] # "none"
               /\ r[2] > 1 => outbox'[Earlier(r)] = "sent" \/ Earlier(r) \in left
    <3>1. r \in Rows /\ outbox[r] # "none" /\ (r[2] > 1 => Earlier(r) \in Rows)
      BY RowParts DEF OutboxInv, Drained
    <3>2. r[2] > 1 => outbox[Earlier(r)] = "sent" \/ Earlier(r) \in left
      BY DEF OutboxInv, Drained
    <3> QED BY <1>3, <3>1, <3>2
  <2> QED BY <1>1, <2>1 DEF Drained, OutboxInv, Earlier
<1>10. SendsNext'
  <2> SUFFICES ASSUME sending # Nobody
               PROVE  /\ sending.row \in Rows /\ outbox'[sending.row] = "pending"
                      /\ sending.row[2] > 1 => outbox'[Earlier(sending.row)] = "sent"
    BY <1>1 DEF SendsNext, Earlier
  <2>1. /\ sending.row \in Rows /\ outbox[sending.row] = "pending"
        /\ sending.row[2] > 1 => /\ outbox[Earlier(sending.row)] = "sent"
                                 /\ Earlier(sending.row) \in Rows
    BY RowParts DEF OutboxInv, SendsNext
  <2> QED BY <1>3, <2>1
<1>11. Copies' /\ RepliesInOrderOnce'
  BY <1>1, <1>3 DEF OutboxInv, Copies, RepliesInOrderOnce
<1> QED BY <1>1, <1>3, <1>4, <1>7, <1>8, <1>9, <1>10, <1>11 DEF OutboxInv, OutboxTypes

LEMMA HandleRows ==
    ASSUME TurnInv, OutboxInv, NEW m \in Messages, Handle(m)
    PROVE  OutboxInv'
<1>1. /\ chunk \in [Messages -> Nat \ {0}] /\ stage \in [Messages -> {"none", "claimed", "ready",
           "turn", "enqueue", "reply", "done", "error"}]
      /\ event \in [Messages -> {"none", "processing", "done", "error"}]
  BY DEF OutboxInv, OutboxTypes, TurnInv, HandlerTypes
<1>2. Chunks[m] \in Nat
  BY WeixinAssumption DEF Messages
<1>3. CASE Claim(m)
  <2>1. /\ UNCHANGED <<outbox, received, doubtful, order, sending, left>>
        /\ \/ UNCHANGED <<event, stage, chunk>>
           \/ /\ event[m] = "none" /\ event' = [event EXCEPT ![m] = "processing"]
              /\ stage' = [stage EXCEPT ![m] = "claimed"] /\ chunk' = [chunk EXCEPT ![m] = 1]
    BY <1>3 DEF Claim, Claimable, MarkActive, sendVars, drainVars
  <2>2. CASE UNCHANGED <<event, stage, chunk>>
    BY <2>1, <2>2, ApartKeeps DEF Apart
  <2>3. CASE /\ event[m] = "none" /\ event' = [event EXCEPT ![m] = "processing"]
             /\ stage' = [stage EXCEPT ![m] = "claimed"] /\ chunk' = [chunk EXCEPT ![m] = 1]
    <3>1. \A r \in Rows : r[1] = m => outbox[r] = "none"
      BY <2>3 DEF OutboxInv, Enqueued
    <3> QED BY <1>1, <2>1, <2>3, <3>1, HandlerMoves
  <2> QED BY <2>1, <2>2, <2>3
<1>4. CASE Ack(m) \/ BeginTurn(m) \/ EndTurn(m)
  <2>1. /\ UNCHANGED <<outbox, received, doubtful, order, sending, left, chunk, event>>
        /\ \/ stage[m] = "claimed" /\ stage' = [stage EXCEPT ![m] = "ready"]
           \/ stage[m] = "ready" /\ stage' = [stage EXCEPT ![m] = "turn"]
           \/ /\ stage[m] = "turn"
              /\ \/ stage' = [stage EXCEPT ![m] = "enqueue"]
                 \/ stage' = [stage EXCEPT ![m] = "error"]
    BY <1>4 DEF Ack, BeginTurn, EndTurn, HandlerStep, sendVars, drainVars
  <2>2. \A r \in Rows : r[1] = m => /\ outbox[r] = "none" /\ chunk[m] = 1 /\ event[m] # "none"
                                    /\ r[2] \in Nat \ {0}
    BY <2>1, RowParts DEF OutboxInv, Enqueued
  <2>3. stage'[m] \in {"ready", "turn", "enqueue", "error"}
        /\ \A n \in Messages \ {m} : stage'[n] = stage[n]
    BY <1>1, <2>1
  <2> QED BY <1>1, <2>1, <2>2, <2>3, HandlerMoves
<1>5. CASE Enqueue(m)
  <2>1. CASE chunk[m] <= Chunks[m]
    BY <1>5, <2>1, CreateKeeps
  <2>2. CASE ~(chunk[m] <= Chunks[m])
    <3>1. /\ UNCHANGED <<outbox, received, doubtful, order, sending, left, event>>
          /\ stage[m] = "enqueue" /\ stage' = [stage EXCEPT ![m] = "reply"]
          /\ chunk' = [chunk EXCEPT ![m] = 1]
      BY <1>5, <2>2 DEF Enqueue, HandlerStep, drainVars
    <3>2. \A r \in Rows : r[1] = m => outbox[r] # "none" /\ event[m] # "none" /\ ~(r[2] < 1)
      <4> SUFFICES ASSUME NEW r \in Rows, r[1] = m
                   PROVE  outbox[r] # "none" /\ event[m] # "none" /\ ~(r[2] < 1)
        OBVIOUS
      <4>1. r[2] \in Nat \ {0} /\ r[2] <= Chunks[m]
        BY RowParts
      <4>2. r[2] < chunk[m]
        BY <1>1, <1>2, <2>2, <4>1
      <4> QED BY <3>1, <4>1, <4>2 DEF OutboxInv, Enqueued
    <3> QED BY <1>1, <3>1, <3>2, HandlerMoves
  <2> QED BY <2>1, <2>2
<1>6. CASE Reply(m)
  <2>1. /\ UNCHANGED <<outbox, received, doubtful, order, left, event>> /\ stage[m] = "reply"
        /\ \/ /\ stage' = [stage EXCEPT ![m] = "done"] /\ UNCHANGED <<chunk, sending>>
           \/ /\ chunk[m] <= Chunks[m] /\ outbox[<<m, chunk[m]>>] = "pending"
              /\ sending' = [row |-> <<m, chunk[m]>>, by |-> "handler"]
              /\ UNCHANGED <<stage, chunk>>
           \/ /\ chunk[m] <= Chunks[m] /\ outbox[<<m, chunk[m]>>] # "pending"
              /\ chunk' = [chunk EXCEPT ![m] = @ + 1] /\ UNCHANGED <<stage, sending>>
    BY <1>1, <1>2, <1>6 DEF Reply, HandlerStep, WantsSend, Take, drainVars
  <2>2. \A r \in Rows : r[1] = m => /\ outbox[r] # "none" /\ event[m] # "none"
                                    /\ r[2] < chunk[m] => outbox[r] = "sent"
    BY <2>1 DEF OutboxInv, Enqueued
  <2>3. CASE stage' = [stage EXCEPT ![m] = "done"] /\ UNCHANGED <<chunk, sending>>
    BY <1>1, <2>1, <2>2, <2>3, HandlerMoves
  <2>4. ASSUME chunk[m] <= Chunks[m]
        PROVE  <<m, chunk[m]>> \in Rows
    <3>1. chunk[m] \in 1 .. Chunks[m]
      BY <1>1, <1>2, <2>4
    <3> QED BY <3>1, NewRow
  <2>5. CASE /\ chunk[m] <= Chunks[m] /\ outbox[<<m, chunk[m]>>] = "pending"
             /\ sending' = [row |-> <<m, chunk[m]>>, by |-> "handler"]
             /\ UNCHANGED <<stage, chunk>>
    <3>1. PICK r \in Rows : r = <<m, chunk[m]>>
      BY <2>4, <2>5
    <3>2. r[1] = m /\ r[2] = chunk[m] /\ chunk[m] \in Nat
      BY <1>1, <3>1
    <3>3. r[2] > 1 => outbox[Earlier(r)] = "sent"
      <4> SUFFICES ASSUME r[2] > 1 PROVE outbox[Earlier(r)] = "sent"
        OBVIOUS
      <4>1. Earlier(r) \in Rows /\ Earlier(r)[1] = m /\ Earlier(r)[2] = chunk[m] - 1
        BY <3>2, RowParts
      <4>2. Earlier(r)[2] < chunk[m]
        BY <3>2, <4>1
      <4> QED BY <2>2, <4>1, <4>2
    <3>4. sending'.row = r
      BY <2>5, <3>1
    <3>5. SendsNext'
      BY <2>1, <2>5, <3>1, <3>3, <3>4 DEF SendsNext, Earlier
    <3> QED BY <1>1, <2>1, <2>2, <2>5, <3>5, HandlerMoves
  <2>6. CASE /\ chunk[m] <= Chunks[m] /\ outbox[<<m, chunk[m]>>] # "pending"
             /\ chunk' = [chunk EXCEPT ![m] = @ + 1] /\ UNCHANGED <<stage, sending>>
    <3>1. outbox[<<m, chunk[m]>>] = "sent"
      <4>1. PICK r \in Rows : r = <<m, chunk[m]>>
        BY <2>4, <2>6
      <4>2. r[1] = m
        BY <4>1
      <4> QED BY <2>2, <2>6, <4>1, <4>2 DEF OutboxInv, OutboxTypes
    <3>2. \A r \in Rows : r[1] = m /\ r[2] < chunk'[m] => outbox[r] = "sent"
      <4> SUFFICES ASSUME NEW r \in Rows, r[1] = m, r[2] < chunk'[m] PROVE outbox[r] = "sent"
        OBVIOUS
      <4>1. r[2] \in Nat /\ r = <<m, r[2]>> /\ chunk'[m] = chunk[m] + 1 /\ chunk[m] \in Nat
        BY <1>1, <2>6, RowParts
      <4>2. r[2] < chunk[m] \/ r[2] = chunk[m]
        BY <4>1
      <4> QED BY <2>2, <3>1, <4>1, <4>2
    <3>3. /\ chunk' \in [Messages -> Nat \ {0}]
          /\ \A n \in Messages \ {m} : chunk'[n] = chunk[n]
      BY <1>1, <2>6
    <3> QED BY <1>1, <2>1, <2>2, <2>6, <3>2, <3>3, HandlerMoves
  <2> QED BY <2>1, <2>3, <2>5, <2>6
<1>7. CASE Finish(m)
  <2>1. /\ UNCHANGED <<outbox, received, doubtful, order, sending, left, chunk>>
        /\ event' = [event EXCEPT ![m] = stage[m]] /\ stage' = [stage EXCEPT ![m] = "none"]
        /\ stage[m] \in {"done", "error"}
    BY <1>7 DEF Finish, HandlerStep, sendVars, drainVars
  <2> QED BY <1>1, <2>1, HandlerMoves
<1> QED BY <1>3, <1>4, <1>5, <1>6, <1>7 DEF Handle

\* The drain takes the oldest row of its list, strikes one off that is sent, or ends.
LEMMA DrainRows ==
    ASSUME TurnInv, OutboxInv, DrainStep
    PROVE  OutboxInv'
<1>1. UNCHANGED <<stage, chunk, outbox, received, doubtful, order>>
  BY DEF DrainStep
<1>2. CASE left = {}
  <2>1. UNCHANGED <<sending, left>> /\ \A m \in Messages : event'[m] = event[m] \/ event'[m] = "done"
    BY <1>2 DEF DrainStep
  <2>2. Enqueued'
    BY <1>1, <2>1, RowParts DEF OutboxInv, Enqueued, Earlier
  <2> QED BY <1>1, <2>1, <2>2 DEF OutboxInv, OutboxTypes, Ordered, Drained, SendsNext, Copies,
                                  RepliesInOrderOnce, Earlier
<1>3. CASE left # {}
  <2>1. PICK r \in left :
          /\ \A s \in left : ~Before(s, r)
          /\ \/ outbox[r] = "pending" /\ sending' = [row |-> r, by |-> "drain"] /\ left' = left
             \/ outbox[r] # "pending" /\ sending' = sending /\ left' = left \ {r}
    BY <1>3 DEF DrainStep, WantsSend, Take, drainVars
  <2>2. event' = event
    BY <1>3 DEF DrainStep
  <2>3. r \in Rows /\ outbox[r] # "none"
    BY DEF OutboxInv, Drained
  <2>4. r[2] > 1 => outbox[Earlier(r)] = "sent"
    <3> SUFFICES ASSUME r[2] > 1, Earlier(r) \in left PROVE FALSE
      BY DEF OutboxInv, Drained
    <3>1. PICK j \in 1 .. Len(order) : order[j] = r
      BY <2>3 DEF OutboxInv, Ordered
    <3>2. PICK i \in 1 .. Len(order) : i < j /\ order[i] = Earlier(r)
      BY <3>1 DEF OutboxInv, Ordered
    <3>3. Before(Earlier(r), r)
      BY <3>1, <3>2 DEF Before
    <3> QED BY <2>1, <3>3
  <2>5. OutboxTypes' /\ Enqueued' /\ Ordered' /\ Copies' /\ RepliesInOrderOnce'
    BY <1>1, <2>2 DEF OutboxInv, OutboxTypes, Enqueued, Ordered, Copies, RepliesInOrderOnce, Earlier
  <2>6. CASE outbox[r] = "pending" /\ sending' = [row |-> r, by |-> "drain"] /\ left' = left
    <3>1. SendsNext' /\ Drained'
      BY <1>1, <2>3, <2>4, <2>6 DEF SendsNext, Drained, Earlier, OutboxInv
    <3> QED BY <2>5, <3>1 DEF OutboxInv
  <2>7. CASE outbox[r] # "pending" /\ sending' = sending /\ left' = left \ {r}
    <3>1. outbox[r] = "sent"
      BY <2>3, <2>7 DEF OutboxInv, OutboxTypes
    <3>2. Drained'
      BY <1>1, <2>7, <3>1 DEF Drained, Earlier, OutboxInv
    <3>3. SendsNext'
      BY <1>1, <2>7 DEF SendsNext, Earlier, OutboxInv
    <3> QED BY <2>5, <3>2, <3>3 DEF OutboxInv
  <2> QED BY <2>1, <2>6, <2>7
<1> QED BY <1>2, <1>3

\* What a row has before it does not come back to pending when another row is sent.
LEMMA SentRows ==
    ASSUME TurnInv, OutboxInv, SendSucceeds
    PROVE  OutboxInv'
<1>1. PICK s \in Rows : s = sending.row /\ outbox[s] = "pending"
                        /\ (s[2] > 1 => outbox[Earlier(s)] = "sent")
  BY DEF SendSucceeds, OutboxInv, SendsNext
<1>2. /\ outbox' = [outbox EXCEPT ![s] = "sent"] /\ received' = [received EXCEPT ![s] = @ + 1]
      /\ sending' = Nobody /\ UNCHANGED <<order, doubtful, stage, chunk, event, left>>
  BY <1>1 DEF SendSucceeds, handlerVars, drainVars
<1>3. /\ outbox' \in [Rows -> {"none", "pending", "sent"}] /\ outbox'[s] = "sent"
      /\ \A r \in Rows \ {s} : outbox'[r] = outbox[r]
      /\ received' \in [Rows -> Nat] /\ received'[s] = received[s] + 1 /\ received[s] \in Nat
      /\ \A r \in Rows \ {s} : received'[r] = received[r]
  BY <1>2 DEF OutboxInv, OutboxTypes
<1>4. OutboxTypes' /\ Ordered' /\ SendsNext'
  <2>1. \A r \in Rows : outbox'[r] # "none" => outbox[r] # "none"
    BY <1>1, <1>3
  <2>2. OutboxTypes'
    BY <1>2, <1>3 DEF OutboxInv, OutboxTypes
  <2>3. Ordered'
    BY <1>2, <2>1 DEF OutboxInv, Ordered, Earlier
  <2>4. SendsNext'
    BY <1>2 DEF SendsNext
  <2> QED BY <2>2, <2>3, <2>4
<1>5. \A r \in Rows : /\ outbox'[r] = "none" <=> outbox[r] = "none"
                      /\ outbox[r] = "sent" => outbox'[r] = "sent"
                      /\ r[2] > 1 => Earlier(r) \in Rows
  BY <1>1, <1>3, RowParts
<1>6. Enqueued'
  BY <1>2, <1>5 DEF OutboxInv, Enqueued, Earlier
<1>7. Drained'
  BY <1>2, <1>5 DEF OutboxInv, Drained, Earlier
<1>8. Copies'
  BY <1>1, <1>2, <1>3 DEF OutboxInv, Copies
<1>9. RepliesInOrderOnce'
  <2>1. s[2] > 1 => received[Earlier(s)] > 0 /\ Earlier(s) # s /\ Earlier(s) \in Rows
    BY <1>1, RowParts DEF OutboxInv, Copies
  <2>2. ASSUME NEW r \in Rows, received'[r] > 0, r[2] > 1
        PROVE  received'[Earlier(r)] > 0
    <3>1. received[Earlier(r)] > 0 /\ Earlier(r) \in Rows
      <4>1. CASE r = s
        BY <2>1, <2>2, <4>1
      <4>2. CASE r # s
        <5>1. received[r] > 0
          BY <1>3, <2>2, <4>2
        <5> QED BY <2>2, <5>1, RowParts DEF OutboxInv, RepliesInOrderOnce, Earlier
      <4> QED BY <4>1, <4>2
    <3> QED BY <1>3, <3>1
  <2> QED BY <1>2, <1>8, <2>2 DEF RepliesInOrderOnce, Copies, Earlier
<1> QED BY <1>4, <1>6, <1>7, <1>8, <1>9 DEF OutboxInv

\* A send that fails, or is cut off by a crash, may have reached the peer; its row is doubtful.
LEMMA DoubtfulRows ==
    ASSUME OutboxInv, sending # Nobody, doubtful' = doubtful \cup {sending.row},
           received' = received
             \/ \E copies \in {0, 1} : received' = [received EXCEPT ![sending.row] = @ + copies],
           outbox' = outbox, sending' = Nobody
    PROVE  Copies' /\ RepliesInOrderOnce' /\ received' \in [Rows -> Nat] /\ SendsNext'
<1>1. PICK s \in Rows : s = sending.row /\ outbox[s] = "pending"
                        /\ (s[2] > 1 => outbox[Earlier(s)] = "sent")
  BY DEF OutboxInv, SendsNext
<1>2. /\ received' \in [Rows -> Nat] /\ received \in [Rows -> Nat] /\ received'[s] >= received[s]
      /\ \A r \in Rows \ {s} : received'[r] = received[r]
  BY <1>1 DEF OutboxInv, OutboxTypes
<1>3. doubtful' = doubtful \cup {s}
  BY <1>1
<1>4. Copies'
  BY <1>1, <1>2, <1>3 DEF OutboxInv, Copies
<1>5. ASSUME NEW r \in Rows, received'[r] > 0, r[2] > 1
      PROVE  received'[Earlier(r)] > 0
  <2>1. Earlier(r) \in Rows
    BY <1>5, RowParts
  <2>2. received[Earlier(r)] > 0
    <3>1. CASE r = s
      BY <1>1, <1>5, <2>1, <3>1 DEF OutboxInv, Copies
    <3>2. CASE r # s
      <4>1. received[r] > 0
        BY <1>2, <1>5, <3>2
      <4> QED BY <1>5, <4>1 DEF OutboxInv, RepliesInOrderOnce, Earlier
    <3> QED BY <3>1, <3>2
  <2> QED BY <1>2, <2>1, <2>2
<1>6. RepliesInOrderOnce'
  BY <1>4, <1>5 DEF RepliesInOrderOnce, Copies, Earlier
<1> QED BY <1>2, <1>4, <1>6 DEF SendsNext

LEMMA FailedRows ==
    ASSUME TurnInv, OutboxInv, SendFails
    PROVE  OutboxInv'
<1>1. /\ sending # Nobody /\ sending' = Nobody
      /\ \/ UNCHANGED <<received, doubtful>>
         \/ /\ doubtful' = doubtful \cup {sending.row}
            /\ \E copies \in {0, 1} : received' = [received EXCEPT ![sending.row] = @ + copies]
      /\ UNCHANGED <<outbox, order, event, chunk>>
  BY DEF SendFails, GiveUpSending
<1>2. Copies' /\ RepliesInOrderOnce' /\ received' \in [Rows -> Nat] /\ SendsNext'
  <2>1. CASE UNCHANGED <<received, doubtful>>
    BY <1>1, <2>1 DEF OutboxInv, OutboxTypes, Copies, RepliesInOrderOnce, SendsNext
  <2>2. CASE /\ doubtful' = doubtful \cup {sending.row}
             /\ \E copies \in {0, 1} : received' = [received EXCEPT ![sending.row] = @ + copies]
    BY <1>1, <2>2, DoubtfulRows
  <2> QED BY <1>1, <2>1, <2>2
<1>3. \/ /\ stage' = [stage EXCEPT ![sending.row[1]] = "error"] /\ left' = left
      \/ stage' = stage /\ left' = {}
  BY DEF SendFails, GiveUpSending
<1>4. Enqueued'
  <2>1. PICK m \in Messages : m = sending.row[1] /\ event[m] # "none"
    BY <1>1, RowParts DEF OutboxInv, SendsNext, Enqueued
  <2>2. \A n \in Messages : stage'[n] = stage[n] \/ (n = m /\ stage'[n] = "error")
    BY <1>3, <2>1 DEF TurnInv, HandlerTypes
  <2>3. \A r \in Rows : \/ stage'[r[1]] = stage[r[1]]
                        \/ stage'[r[1]] = "error" /\ event[r[1]] # "none"
    BY <2>1, <2>2, RowParts
  <2> QED BY <1>1, <2>3 DEF OutboxInv, Enqueued, Earlier
<1>5. Drained'
  BY <1>1, <1>3 DEF OutboxInv, Drained, Earlier
<1> QED BY <1>1, <1>2, <1>4, <1>5 DEF OutboxInv, OutboxTypes, Ordered, Earlier

LEMMA CrashRows ==
    ASSUME TurnInv, OutboxInv, Crash
    PROVE  OutboxInv'
<1>1. /\ UNCHANGED <<outbox, order, event>> /\ left' = {} /\ sending' = Nobody
      /\ stage' = [m \in Messages |-> "none"] /\ chunk' \in [Messages -> Nat \ {0}]
      /\ doubtful' = IF sending = Nobody THEN doubtful ELSE doubtful \cup {sending.row}
      /\ \/ received' = received
         \/ sending # Nobody /\ received' = [received EXCEPT ![sending.row] = @ + 1]
  BY DEF Crash
<1>2. Copies' /\ RepliesInOrderOnce' /\ received' \in [Rows -> Nat] /\ SendsNext'
  <2>1. CASE sending = Nobody
    BY <1>1, <2>1 DEF OutboxInv, OutboxTypes, Copies, RepliesInOrderOnce, SendsNext
  <2>2. CASE sending # Nobody
    BY <1>1, <2>2, DoubtfulRows
  <2> QED BY <2>1, <2>2
<1>3. Enqueued'
  <2>1. \A r \in Rows : stage'[r[1]] = "none"
    BY <1>1, RowParts
  <2> QED BY <1>1, <2>1 DEF OutboxInv, Enqueued, Earlier
<1> QED BY <1>1, <1>2, <1>3 DEF OutboxInv, OutboxTypes, Ordered, Drained, Earlier

LEMMA OutboxStep ==
    ASSUME TurnInv, OutboxInv, [Next]_vars
    PROVE  OutboxInv'
<1>1. CASE Arrive \/ Poll \/ PollFails \/ AdvanceCursor \/ UNCHANGED vars
  BY <1>1, ApartKeeps DEF Apart, Arrive, Poll, PollFails, AdvanceCursor, MarkActive, MarkReconnect,
                          vars, handlerVars, drainVars, sendVars
<1>2. ASSUME NEW m \in Messages, AckTimeout(m) \/ Reject(m) PROVE OutboxInv'
  BY <1>2, ApartKeeps DEF Apart, AckTimeout, Reject, handlerVars, drainVars, sendVars
<1>3. CASE RetryAccount \/ Reconnect \/ Restart
  <2>1. Apart
    BY <1>3 DEF Apart, RetryAccount, Reconnect, Restart, StartAccount, RestartAccount, MarkActive,
                MarkReconnect, handlerVars, drainVars, sendVars
  <2> QED BY <2>1, ApartKeeps
<1>4. CASE ListPending
  <2>1. Apart
    BY <1>4 DEF Apart, ListPending, handlerVars, sendVars
  <2> QED BY <2>1, ApartKeeps
<1>5. CASE DrainStep
  BY <1>5, DrainRows
<1>6. CASE SendSucceeds
  BY <1>6, SentRows
<1>7. CASE SendFails
  BY <1>7, FailedRows
<1>8. CASE Crash
  BY <1>8, CrashRows
<1>9. ASSUME NEW m \in Messages, Handle(m) PROVE OutboxInv'
  BY <1>9, HandleRows
<1> QED BY <1>1, <1>2, <1>3, <1>4, <1>5, <1>6, <1>7, <1>8, <1>9 DEF Next, Drain, Send

\* The peer gets the chunks of a reply in their order, and a second copy of one only after an
\* attempt that failed or was cut off, for replies of any length: handlers and drains send the
\* same rows, over restarts of the account and crashes (_send, _drain_outbox).
THEOREM RepliesKeepOrder == Spec => []RepliesInOrderOnce
<1>1. OutboxInv => RepliesInOrderOnce
  BY DEF OutboxInv
<1> QED BY <1>1, TurnInit, TurnStep, OutboxInit, OutboxStep, PTL DEF Spec
=============================================================================
