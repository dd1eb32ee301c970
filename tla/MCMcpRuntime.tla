---------------------------- MODULE MCMcpRuntime ----------------------------
(***************************************************************************)
(* Two servers that share the limit on tools, and a call of one of them.   *)
(***************************************************************************)
EXTENDS McpRuntime, TLC

CONSTANTS files, web, a

MCServerOf == [c \in Call |-> files]

\* The spec of the server with the call changes.
MCReloads == {[keep |-> {files, web}, changed |-> {files}]}
=============================================================================
