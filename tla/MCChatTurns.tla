----------------------------- MODULE MCChatTurns -----------------------------
(***************************************************************************)
(* Two turns of an owner and an administrator in one session.  The model   *)
(* asks for a call that is allowed and one that needs a confirmation.      *)
(***************************************************************************)
EXTENDS ChatTurns

CONSTANTS t1, t2, Owner, Admin, Read, Exec

MCKeys == {Owner, Admin}
MCStopAny == {Admin}
MCCalls == {Read, Exec}
MCRisky == {Exec}
\* The first turn is the owner's.
MCOwners == {o \in [Turns -> MCKeys] : \A t \in Turns : t = t1 => o[t] = Owner}
\* Only the first turn uses tools: at once, ...
MCBatch == [t \in Turns |-> IF t = t1 THEN {<<Read, Exec>>} ELSE {}]
\* ... or in any rounds.
MCBatches == [t \in Turns |-> IF t = t1 THEN {<<Read>>, <<Exec>>, <<Read, Exec>>} ELSE {}]
=============================================================================
