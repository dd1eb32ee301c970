-------------------------------- MODULE Weixin --------------------------------
(***************************************************************************)
(* The Weixin channel of one account with one peer: the sidecar polls the  *)
(* server from a durable cursor and hands each message to the adapter; a   *)
(* handler thread claims it in the database, acknowledges it, runs its     *)
(* turn and sends the reply, chunk by chunk, through a durable Outbox.     *)
(* Chunks that could not be sent are sent again by a drain thread when the *)
(* account is active again.  The process may crash and restart; requests   *)
(* to the sidecar may fail, also after the server has done what they ask.  *)
(*                                                                         *)
(* A status frame of the sidecar takes effect with the poll that sent it.  *)
(* Notices about rate limits and workflow notifications are left out.      *)
(***************************************************************************)
EXTENDS Naturals, Sequences, FiniteSets

CONSTANTS
    Chunks,      \* the number of chunks of the reply to each message
    MaxFaults,   \* bound: requests that fail, and messages that are rejected
    MaxCrashes   \* bound: crashes of the process

ASSUME WeixinAssumption ==
    /\ Chunks \in Seq(Nat)
    /\ MaxFaults \in Nat /\ MaxCrashes \in Nat

Messages == 1 .. Len(Chunks)
Rows == UNION {{m} \X (1 .. Chunks[m]) : m \in Messages}

Off == "off"

VARIABLES
    arrived,   \* the messages that the server has
    cursor,    \* sync.json: the messages that the sidecar will not ask for again
    poll,      \* pollLoop: "idle", "waiting" for dispositions or "off", when it has ended;
               \* "none" if the sidecar does not have the account
    fetched,   \* the cursor of the response that the loop handles
    awaiting,  \* pendingAcks
    health,    \* the account's status in the sidecar: "active" or "degraded"
    frames,    \* message.received frames that no handler has begun with
    account,   \* channel_accounts.status
    event,     \* channel_event_receipts.status
    outbox,    \* weixin_outbound_messages.status
    order,     \* its rows, in the order of their creation
    stage,     \* where the handler of a message is
    chunk,     \* the chunk that the handler enqueues or sends next
    sending,   \* the row in the sidecar, under the send lock, and who sends it
    drain,     \* the drain thread: Off, "list" before it reads the rows, "send" after
    left,      \* the rows that it has read and not dealt with
    sentBy,    \* the events that the drain has completed
    retry,     \* _retry_account_start: Off, "on", or "again" if it is requested anew
    reauth,    \* _reauth_accounts
    up,        \* the process runs
    faults, crashes,
    turns,     \* history: the turns run for each message
    received,  \* history: the copies of each row that the peer got
    doubtful,  \* history: rows with an attempt that failed or was cut off
    gaveUp,    \* history: messages whose acknowledgement the sidecar did not wait for
    refused    \* history: messages that the adapter rejected without a claim

sidecarVars == <<arrived, cursor, poll, fetched, awaiting, health, frames>>
accountVars == <<account, retry, reauth>>
handlerVars == <<event, stage, chunk, turns>>
drainVars == <<drain, left, sentBy>>
sendVars == <<outbox, sending, received, doubtful>>
vars == <<sidecarVars, accountVars, handlerVars, drainVars, sendVars, order, up, faults,
          crashes, gaveUp, refused>>

Nobody == [row |-> <<0, 0>>, by |-> "nobody"]

Init ==
    /\ arrived = 0 /\ cursor = 0 /\ poll = "idle" /\ fetched = 0
    /\ awaiting = {} /\ frames = {} /\ health = "active"
    /\ account = "active" /\ retry = Off /\ reauth = FALSE
    /\ event = [m \in Messages |-> "none"]
    /\ stage = [m \in Messages |-> "none"]
    /\ chunk = [m \in Messages |-> 1]
    /\ turns = [m \in Messages |-> 0]
    /\ outbox = [r \in Rows |-> "none"]
    /\ order = <<>>
    /\ sending = Nobody
    /\ received = [r \in Rows |-> 0]
    /\ doubtful = {}
    /\ drain = Off /\ left = {} /\ sentBy = {}
    /\ up = TRUE /\ faults = 0 /\ crashes = 0 /\ gaveUp = {} /\ refused = {}

Fault == faults < MaxFaults /\ faults' = faults + 1
NoFault == UNCHANGED faults

(***************************************************************************)
(* The account.                                                            *)
(***************************************************************************)

\* _mark_active: rows that are pending are drained, unless a drain is at work.
MarkActive ==
    /\ account' = "active" /\ reauth' = FALSE
    /\ drain' = IF drain = Off THEN "list" ELSE drain
    /\ UNCHANGED <<left, sentBy>>

\* _mark_reconnect_required: only the user, or a message, makes it active again.
MarkReconnect ==
    /\ account' = "reconnect_required" /\ reauth' = TRUE

\* _schedule_account_retry.
ScheduleRetry == retry' = IF retry = Off THEN "on" ELSE "again"

\* _trigger_transport_recovery after a failed send: the token is stale, or the account is
\* to be started again.
Recover ==
    \/ MarkReconnect /\ UNCHANGED retry
    \/ ScheduleRetry /\ UNCHANGED <<account, reauth>>

\* OfficialAccount.stop: the acknowledgements that it waits for are resolved as "rejected",
\* which lets the poll loop write its cursor before it ends.
StopAccount ==
    /\ gaveUp' = gaveUp \cup awaiting
    /\ awaiting' = {}
    /\ cursor' = IF poll = "waiting" THEN fetched ELSE cursor
    /\ UNCHANGED <<arrived, fetched, frames>>

\* account.start in the sidecar: the account that runs is stopped and forgotten before the
\* new one says that it starts; that may fail.
RestartAccount(status) == StopAccount /\ poll' = "idle" /\ health' = status
LoseAccount == StopAccount /\ poll' = "none" /\ health' = "active"

\* start_account: it is active; it is degraded, and active with the next poll, which
\* starts the drain; the token is stale; or the request fails, and is tried again: the
\* sidecar has done all of it, has only stopped the account, or has not begun.
StartAccount(again, ended) ==
    \/ /\ RestartAccount("active") /\ MarkActive /\ retry' = ended /\ NoFault
    \/ /\ RestartAccount("degraded") /\ Fault
       /\ account' = "active" /\ retry' = ended
       /\ UNCHANGED <<reauth, drainVars>>
    \/ /\ LoseAccount /\ Fault /\ MarkReconnect /\ retry' = ended
       /\ UNCHANGED drainVars
    \/ /\ Fault /\ retry' = again
       /\ UNCHANGED <<account, reauth, drainVars>>
       /\ RestartAccount("active") \/ LoseAccount \/ UNCHANGED <<sidecarVars, gaveUp>>

\* _retry_account_start, after its delay.
RetryAccount ==
    /\ up /\ retry # Off
    /\ LET ended == IF retry = "again" THEN "on" ELSE Off
       IN  \/ /\ reauth /\ retry' = ended
              /\ UNCHANGED <<sidecarVars, account, reauth, drainVars, gaveUp, faults>>
           \/ ~reauth /\ StartAccount(retry, ended)
    /\ UNCHANGED <<handlerVars, sendVars, order, up, crashes, refused>>

\* The user scans the code again (WeixinBindingService.reconnect).
Reconnect ==
    /\ up /\ account = "reconnect_required"
    /\ RestartAccount("active") /\ MarkActive
    /\ UNCHANGED <<handlerVars, sendVars, retry, order, up, faults, crashes, refused>>

(***************************************************************************)
(* The sidecar's poll loop.                                                *)
(***************************************************************************)

Arrive ==
    /\ arrived < Len(Chunks)
    /\ arrived' = arrived + 1
    /\ UNCHANGED <<cursor, poll, fetched, awaiting, health, frames, accountVars, handlerVars,
                   drainVars, sendVars, order, up, faults, crashes, gaveUp, refused>>

\* getUpdates returns what is behind the cursor; an account that was degraded says that it
\* is active again before the messages are delivered.
Poll ==
    /\ up /\ poll = "idle"
    /\ arrived > cursor \/ health = "degraded"
    /\ fetched' = arrived
    /\ awaiting' = (cursor + 1) .. arrived
    /\ frames' = frames \cup awaiting'
    /\ poll' = "waiting"
    /\ health' = "active"
    /\ IF health = "active" THEN UNCHANGED <<account, reauth, drainVars>> ELSE MarkActive
    /\ UNCHANGED <<arrived, cursor, retry, handlerVars, sendVars, order, up, faults, crashes,
                   gaveUp, refused>>

\* Polls fail three times, or the token is stale, which ends the loop.
PollFails ==
    /\ up /\ poll = "idle" /\ Fault
    /\ \/ /\ health' = "degraded"
          /\ UNCHANGED <<poll, account, reauth>>
       \/ /\ poll' = "off" /\ MarkReconnect
          /\ UNCHANGED health
    /\ UNCHANGED <<arrived, cursor, fetched, awaiting, frames, retry, handlerVars, drainVars,
                   sendVars, order, up, crashes, gaveUp, refused>>

\* Mutant: the cursor is written before the dispositions are there.
AdvanceCursorEarly ==
    /\ up /\ poll = "waiting"
    /\ cursor' = fetched
    /\ poll' = "idle"
    /\ UNCHANGED <<arrived, fetched, awaiting, health, frames, accountVars, handlerVars,
                   drainVars, sendVars, order, up, faults, crashes, gaveUp, refused>>
AdvanceCursor ==
    /\ up /\ poll = "waiting" /\ awaiting = {}
    /\ cursor' = fetched
    /\ poll' = "idle"
    /\ UNCHANGED <<arrived, fetched, awaiting, health, frames, accountVars, handlerVars,
                   drainVars, sendVars, order, up, faults, crashes, gaveUp, refused>>

\* The timer of a pending acknowledgement: the message counts as rejected.
AckTimeout(m) ==
    /\ up /\ m \in awaiting /\ Fault
    /\ awaiting' = awaiting \ {m}
    /\ gaveUp' = gaveUp \cup {m}
    /\ UNCHANGED <<arrived, cursor, poll, fetched, health, frames, accountVars, handlerVars,
                   drainVars, sendVars, order, up, crashes, refused>>

(***************************************************************************)
(* The handler of a message.                                               *)
(***************************************************************************)

\* Mutant: the claim of an event that has failed may be taken again.
ClaimableAgain(m) == event[m] \in {"none", "error"}
\* claim_channel_event.
Claimable(m) == event[m] = "none"

\* _ack: the disposition reaches the sidecar, or the request fails, which is only logged.
Answer(m) ==
    \/ awaiting' = awaiting \ {m} /\ NoFault
    \/ UNCHANGED awaiting /\ Fault

\* handle_frame when it does not claim: the event is invalid, or the account is unknown, of
\* another peer or disabled, and the message is rejected.
Reject(m) ==
    /\ up /\ m \in frames /\ Fault
    /\ frames' = frames \ {m}
    /\ awaiting' \in {awaiting, awaiting \ {m}}
    /\ refused' = refused \cup {m}
    /\ UNCHANGED <<arrived, cursor, poll, fetched, health, accountVars, handlerVars, drainVars,
                   sendVars, order, up, crashes, gaveUp>>

\* handle_frame up to the claim, which a duplicate does not get.  A message that arrives while
\* the account has to reconnect shows that it is active again.
Claim(m) ==
    /\ up /\ m \in frames
    /\ frames' = frames \ {m}
    /\ IF account = "active" THEN UNCHANGED <<account, reauth, drainVars>> ELSE MarkActive
    /\ \/ /\ Claimable(m)
          /\ event' = [event EXCEPT ![m] = "processing"]
          /\ stage' = [stage EXCEPT ![m] = "claimed"]
          /\ chunk' = [chunk EXCEPT ![m] = 1]
          /\ UNCHANGED <<awaiting, faults>>
       \/ /\ ~Claimable(m) /\ Answer(m)
          /\ UNCHANGED <<event, stage, chunk>>
    /\ UNCHANGED <<arrived, cursor, poll, fetched, health, retry, turns, sendVars, order, up,
                   crashes, gaveUp, refused>>

\* The acknowledgement of a claimed message.
Ack(m) ==
    /\ up /\ stage[m] = "claimed"
    /\ stage' = [stage EXCEPT ![m] = "ready"]
    /\ Answer(m)
    /\ UNCHANGED <<arrived, cursor, poll, fetched, health, frames, accountVars, event, chunk,
                   turns, drainVars, sendVars, order, up, crashes, gaveUp, refused>>

\* What a handler does while the rest of the channel stands still.
HandlerStep == UNCHANGED <<sidecarVars, accountVars, drainVars, up, crashes, gaveUp, refused>>

\* Mutant: the locks are kept when a turn or a send raises.
KeepsConversation(m) == stage[m] \in {"turn", "enqueue", "reply"} \/ event[m] = "error"
\* The conversation's lock lets one turn run at a time.
HasConversation(m) == stage[m] \in {"turn", "enqueue", "reply"}

BeginTurn(m) ==
    /\ up /\ stage[m] = "ready"
    /\ \A n \in Messages : ~HasConversation(n)
    /\ stage' = [stage EXCEPT ![m] = "turn"]
    /\ turns' = [turns EXCEPT ![m] = @ + 1]
    /\ HandlerStep
    /\ UNCHANGED <<event, chunk, sendVars, order, faults>>

EndTurn(m) ==
    /\ up /\ stage[m] = "turn"
    /\ \/ stage' = [stage EXCEPT ![m] = "enqueue"] /\ NoFault
       \/ stage' = [stage EXCEPT ![m] = "error"] /\ Fault
    /\ HandlerStep
    /\ UNCHANGED <<event, chunk, turns, sendVars, order>>

\* _send writes all chunks to the Outbox, each in a transaction, before it sends the first.
Enqueue(m) ==
    /\ up /\ stage[m] = "enqueue"
    /\ IF chunk[m] <= Chunks[m]
       THEN /\ outbox' = [outbox EXCEPT ![<<m, chunk[m]>>] = "pending"]
            /\ order' = Append(order, <<m, chunk[m]>>)
            /\ chunk' = [chunk EXCEPT ![m] = @ + 1]
            /\ UNCHANGED stage
       ELSE /\ stage' = [stage EXCEPT ![m] = "reply"]
            /\ chunk' = [chunk EXCEPT ![m] = 1]
            /\ UNCHANGED <<outbox, order>>
    /\ HandlerStep
    /\ UNCHANGED <<event, turns, sending, received, doubtful, faults>>

\* Mutant: the row is not looked at again under the send lock.
WantsSendAlways(r) == TRUE
\* is_weixin_outbound_pending.
WantsSend(r) == outbox[r] = "pending"

Take(r, who) ==
    /\ sending = Nobody
    /\ sending' = [row |-> r, by |-> who]

\* _deliver_outbox_row, for the handler ...
Reply(m) ==
    /\ up /\ stage[m] = "reply"
    /\ IF chunk[m] > Chunks[m]
       THEN stage' = [stage EXCEPT ![m] = "done"] /\ UNCHANGED <<chunk, sending>>
       ELSE /\ sending = Nobody
            /\ IF WantsSend(<<m, chunk[m]>>)
               THEN Take(<<m, chunk[m]>>, "handler") /\ UNCHANGED chunk
               ELSE chunk' = [chunk EXCEPT ![m] = @ + 1] /\ UNCHANGED sending
            /\ UNCHANGED stage
    /\ HandlerStep
    /\ UNCHANGED <<event, turns, outbox, received, doubtful, order, faults>>

\* finish_channel_event; the conversation is free by then.
Finish(m) ==
    /\ up /\ stage[m] \in {"done", "error"}
    /\ event' = [event EXCEPT ![m] = stage[m]]
    /\ stage' = [stage EXCEPT ![m] = "none"]
    /\ HandlerStep
    /\ UNCHANGED <<chunk, turns, sendVars, order, faults>>

(***************************************************************************)
(* The drain thread and the sends of both.                                 *)
(***************************************************************************)

\* Row r was created before row s.
Before(r, s) == \E i, j \in 1 .. Len(order) : i < j /\ order[i] = r /\ order[j] = s

Undelivered(m) == \E r \in Rows : r[1] = m /\ outbox[r] = "pending"

\* list_pending_weixin_outbound, once; its rows are dealt with in the order of their creation.
ListPending ==
    /\ up /\ drain = "list"
    /\ left' = {r \in Rows : outbox[r] = "pending"}
    /\ drain' = IF left' = {} THEN Off ELSE "send"
    /\ sentBy' = {}
    /\ UNCHANGED <<sidecarVars, accountVars, handlerVars, sendVars, order, up, faults, crashes,
                   gaveUp, refused>>

\* The oldest row, or the end: the events that have no row left are done, whatever their
\* handlers said.
DrainStep ==
    /\ up /\ drain = "send"
    /\ \/ /\ left = {}
          /\ event' = [m \in Messages |-> IF m \in sentBy THEN "done" ELSE event[m]]
          /\ drain' = Off
          /\ UNCHANGED <<sending, left, sentBy>>
       \/ /\ sending = Nobody
          /\ \E r \in left :
                /\ \A s \in left : ~Before(s, r)
                /\ IF WantsSend(r)
                   THEN Take(r, "drain") /\ UNCHANGED drainVars
                   ELSE /\ left' = left \ {r}
                        /\ sentBy' = IF Undelivered(r[1]) THEN sentBy ELSE sentBy \cup {r[1]}
                        /\ UNCHANGED <<sending, drain>>
          /\ UNCHANGED event
    /\ UNCHANGED <<sidecarVars, accountVars, stage, chunk, turns, outbox, received, doubtful,
                   order, up, faults, crashes, gaveUp, refused>>

\* message.send returns: the row is sent, and the sender goes on with its next look at it.
SendSucceeds ==
    /\ up /\ sending # Nobody /\ poll # "none"
    /\ outbox' = [outbox EXCEPT ![sending.row] = "sent"]
    /\ received' = [received EXCEPT ![sending.row] = @ + 1]
    /\ sending' = Nobody
    /\ UNCHANGED <<sidecarVars, accountVars, handlerVars, drainVars, doubtful, order, up,
                   faults, crashes, gaveUp, refused>>

\* The sender of a row that failed gives up: the handler ends with an error, the drain
\* leaves its other rows to the next one.
GiveUpSending ==
    \/ /\ sending.by = "handler"
       /\ stage' = [stage EXCEPT ![sending.row[1]] = "error"]
       /\ UNCHANGED <<chunk, drain, left>>
    \/ /\ sending.by = "drain"
       /\ drain' = Off /\ left' = {}
       /\ UNCHANGED <<stage, chunk>>

\* message.send fails, or its answer is late: the row stays pending.  An account that the
\* sidecar does not have cannot send (requireAccount).
SendFails ==
    /\ up /\ sending # Nobody
    /\ \/ /\ poll = "none" /\ NoFault
          /\ UNCHANGED <<received, doubtful>>
       \/ /\ poll # "none" /\ Fault
          /\ \E copies \in {0, 1} : received' = [received EXCEPT ![sending.row] = @ + copies]
          /\ doubtful' = doubtful \cup {sending.row}
    /\ sending' = Nobody
    /\ Recover
    /\ GiveUpSending
    /\ UNCHANGED <<sidecarVars, event, turns, sentBy, outbox, order, up, crashes, gaveUp,
                   refused>>

(***************************************************************************)
(* The process.                                                            *)
(***************************************************************************)

\* The sidecar is a child of the process and dies with it.
Crash ==
    /\ up /\ crashes < MaxCrashes
    /\ up' = FALSE /\ crashes' = crashes + 1
    /\ \/ UNCHANGED received
       \/ sending # Nobody /\ received' = [received EXCEPT ![sending.row] = @ + 1]
    /\ doubtful' = IF sending = Nobody THEN doubtful ELSE doubtful \cup {sending.row}
    /\ sending' = Nobody
    /\ stage' = [m \in Messages |-> "none"] /\ chunk' = [m \in Messages |-> 1]
    /\ drain' = Off /\ left' = {} /\ sentBy' = {} /\ retry' = Off /\ reauth' = FALSE
    /\ poll' = "none" /\ fetched' = 0 /\ awaiting' = {} /\ frames' = {} /\ health' = "active"
    /\ UNCHANGED <<arrived, cursor, account, event, turns, outbox, order, faults, gaveUp,
                   refused>>

\* WeixinChannelAdapter.start.
Restart ==
    /\ ~up
    /\ up' = TRUE
    /\ StartAccount("on", Off)
    /\ UNCHANGED <<handlerVars, sendVars, order, crashes, refused>>

Handle(m) ==
    \/ Claim(m) \/ Ack(m) \/ BeginTurn(m) \/ EndTurn(m) \/ Enqueue(m) \/ Reply(m) \/ Finish(m)

Send == SendSucceeds \/ SendFails
Drain == ListPending \/ DrainStep

Next ==
    \/ Arrive \/ Poll \/ PollFails \/ AdvanceCursor
    \/ \E m \in Messages : AckTimeout(m) \/ Reject(m) \/ Handle(m)
    \/ RetryAccount \/ Reconnect
    \/ Drain \/ Send
    \/ Crash \/ Restart

Spec == Init /\ [][Next]_vars

\* Threads go on, requests to the sidecar and model calls have timeouts, and a failed
\* start is tried again.  Nobody need write, reconnect or restart the process.
FairSpec ==
    /\ Spec
    /\ WF_vars(Poll) /\ WF_vars(AdvanceCursor)
    /\ WF_vars(RetryAccount) /\ WF_vars(Drain) /\ WF_vars(Send)
    /\ \A m \in Messages : WF_vars(Handle(m))

(***************************************************************************)
(* Correctness.                                                            *)
(***************************************************************************)

TypeOK ==
    /\ arrived \in 0 .. Len(Chunks) /\ cursor \in 0 .. arrived /\ fetched \in 0 .. arrived
    /\ poll \in {"none", "off", "idle", "waiting"} /\ health \in {"active", "degraded"}
    /\ awaiting \subseteq 1 .. arrived /\ frames \subseteq 1 .. arrived
    /\ account \in {"active", "reconnect_required"} /\ retry \in {Off, "on", "again"}
    /\ event \in [Messages -> {"none", "processing", "done", "error"}]
    /\ stage \in [Messages -> {"none", "claimed", "ready", "turn", "enqueue", "reply", "done",
                               "error"}]
    /\ outbox \in [Rows -> {"none", "pending", "sent"}]
    /\ sending.row \in Rows \cup {<<0, 0>>} /\ sending.by \in {"nobody", "handler", "drain"}
    /\ drain \in {Off, "list", "send"} /\ left \subseteq Rows
    /\ sentBy \subseteq Messages /\ doubtful \subseteq Rows
    /\ gaveUp \subseteq Messages /\ refused \subseteq Messages

\* A message is answered by one turn at most, however often the sidecar delivers it again
\* after a lost acknowledgement, a restart of the account or a crash (handle_frame).
OneTurnPerMessage == \A m \in Messages : turns[m] <= 1

\* The sidecar's cursor passes a message that nobody has claimed only if the adapter has
\* rejected it, or if the sidecar has stopped waiting for its acknowledgement; the handler of
\* such a message is still to come, so that it takes a crash to lose it (pollLoop, deliver,
\* stop, handle_frame).  The design's section 8.3 promises more: a claim before the cursor.
LostOnlyByCrash ==
    \A m \in Messages : m <= cursor =>
        \/ event[m] # "none"
        \/ m \in refused
        \/ m \in gaveUp /\ (m \in frames \/ crashes > 0)

\* The peer gets each chunk in its place and once, although the handler and a drain send
\* the same rows: a second copy follows only an attempt that failed or was cut off
\* (_send, _drain_outbox, _deliver_outbox_row).
RepliesInOrderOnce ==
    \A r \in Rows :
        /\ received[r] > 1 => r \in doubtful
        /\ received[r] > 0 /\ r[2] > 1 => received[<<r[1], r[2] - 1>>] > 0

\* A handler ends and leaves its event with a final status, unless the process stops
\* before (handle_frame); after a crash the event stays claimed and is not answered.
HandlersEnd ==
    \A m \in Messages :
        stage[m] # "none" ~> (stage[m] = "none" /\ event[m] \in {"done", "error"}) \/ ~up

\* The comment in _drain_outbox: the next reconnect retries pending rows.  What a handler
\* has left in the Outbox is sent in the end, unless the user has to reconnect or the
\* process stops.
PendingIsRetried ==
    \A r \in Rows :
        outbox[r] = "pending" /\ stage[r[1]] = "none" ~>
            outbox[r] = "sent" \/ reauth \/ ~up
=============================================================================
