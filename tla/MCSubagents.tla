----------------------------- MODULE MCSubagents -----------------------------
(***************************************************************************)
(* A turn whose tasks have the three workspace modes.                      *)
(***************************************************************************)
EXTENDS Subagents

CONSTANTS p, look, edit, branch

MCModeOf ==
    (look :> "shared_readonly") @@ (edit :> "shared_exclusive") @@ (branch :> "worktree")
=============================================================================
