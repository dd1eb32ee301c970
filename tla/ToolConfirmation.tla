-------------------------- MODULE ToolConfirmation --------------------------
(***************************************************************************)
(* SQLiteToolConfirmationBroker: a worker thread asks for the approval of  *)
(* one exact tool call and polls the row of that request; HTTP threads     *)
(* decide it.  decide and expire both SELECT the row and then UPDATE it    *)
(* without looking at the status again, so a decision taken on a stale     *)
(* row overwrites the one that won.                                        *)
(*                                                                         *)
(* The statuses expired and cancelled, which the worker treats alike, are  *)
(* one here, "lapsed".  Who may decide (the requester, or a session        *)
(* manager) only rejects calls that change nothing, and is left out.       *)
(***************************************************************************)
EXTENDS Naturals, FiniteSets

CONSTANTS
    Requests,      \* the confirmations that can be asked for
    MaxDecisions   \* bound: the decisions of all requests

VARIABLES
    row,       \* the status of each row of tool_confirmations, "absent" without one
    deciding,  \* the decisions between their SELECT and their UPDATE
    answers,   \* the answers that decide has given, as history
    wait       \* the state of the worker that polls

confirmationVars == <<row, deciding, answers, wait>>

Decided == {"approved", "denied", "lapsed"}

ConfirmationTypeOK ==
    /\ row \in [Requests -> Decided \cup {"absent", "pending"}]
    /\ deciding \subseteq Requests \X Decided
    /\ answers \subseteq Requests \X Decided
    /\ wait \in [Requests -> Decided \cup {"idle", "polling", "lapsing"}]

ConfirmationInit ==
    /\ row = [r \in Requests |-> "absent"]
    /\ deciding = {}
    /\ answers = {}
    /\ wait = [r \in Requests |-> "idle"]

\* request: insert the row, announce it and begin to poll.
Ask(r) ==
    /\ row[r] = "absent"
    /\ row' = [row EXCEPT ![r] = "pending"]
    /\ wait' = [wait EXCEPT ![r] = "polling"]
    /\ UNCHANGED <<deciding, answers>>

\* A poll that finds the row decided returns its status.
Poll(r) ==
    /\ wait[r] = "polling"
    /\ row[r] # "pending"
    /\ wait' = [wait EXCEPT ![r] = row[r]]
    /\ UNCHANGED <<row, deciding, answers>>

\* Mutant: the wait has no deadline and does not look at the token.
GiveUpNever(r) == FALSE
\* The waiting time has passed, or the turn was cancelled while it waited, and
\* expire_tool_confirmation reads the row: it gives up a pending one, and returns the status of
\* any other, ...
GiveUp(r) ==
    /\ wait[r] = "polling"
    /\ wait' = [wait EXCEPT ![r] = IF row[r] = "pending" THEN "lapsing" ELSE row[r]]
    /\ UNCHANGED <<row, deciding, answers>>

\* ... and its UPDATE, whose status is what the worker gets.
Lapse(r) ==
    /\ wait[r] = "lapsing"
    /\ row' = [row EXCEPT ![r] = "lapsed"]
    /\ wait' = [wait EXCEPT ![r] = "lapsed"]
    /\ UNCHANGED <<deciding, answers>>

\* request returns the status it got, or raises when the store does.
Return(r) ==
    /\ wait' = [wait EXCEPT ![r] = "idle"]
    /\ UNCHANGED <<row, deciding, answers>>

\* decide_tool_confirmation reads a pending row, and lets it lapse instead when its expires_at has
\* passed: expires_at is cut to whole seconds of the wall clock, which may be set, so that can be at
\* any time, before the wait ends or after.
DecideRead(r, status) ==
    /\ row[r] = "pending"
    /\ Cardinality(deciding \cup answers) < MaxDecisions
    /\ deciding' = deciding \cup {<<r, status>>}
    /\ UNCHANGED <<row, answers, wait>>

\* The UPDATE of decide_tool_confirmation, whatever the row has become, and the answer.
DecideWrite(r, status) ==
    /\ <<r, status>> \in deciding
    /\ row' = [row EXCEPT ![r] = status]
    /\ deciding' = deciding \ {<<r, status>>}
    /\ answers' = answers \cup {<<r, status>>}
    /\ UNCHANGED <<wait>>

Decider ==
    \E r \in Requests, status \in Decided : DecideRead(r, status) \/ DecideWrite(r, status)

=============================================================================
