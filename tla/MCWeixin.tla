------------------------------- MODULE MCWeixin -------------------------------
(***************************************************************************)
(* Two messages, one with a reply of two chunks and one without a reply;   *)
(* a second instance has two replies for the drain to find.                *)
(***************************************************************************)
EXTENDS Weixin

LongAndEmpty == <<2, 0>>
TwoReplies == <<1, 1>>
=============================================================================
