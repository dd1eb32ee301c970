-------------------------- MODULE MCMemoryScheduler --------------------------
(***************************************************************************)
(* Two actors, one of them with two sessions.                              *)
(***************************************************************************)
EXTENDS MemoryScheduler

CONSTANTS Alice, Bob, s1, s2

MCKeys == {<<Alice, s1>>, <<Alice, s2>>, <<Bob, s1>>}
=============================================================================
