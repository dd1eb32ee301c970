------------------------ MODULE MCWorkflowLifecycle ------------------------
(***************************************************************************)
(* Model values for WorkflowLifecycle: four definitions, one per kind of   *)
(* trigger, plus a second recurring one; each configuration takes a subset.*)
(***************************************************************************)
EXTENDS WorkflowLifecycle, TLC

CONSTANTS t1, t2, Hourly, Daily, Once, Manual, BadCron

MCTriggerOf ==
    [c \in Contents |->
        CASE c = Manual -> "manual"
          [] c = Once -> "date"
          [] c = BadCron -> "invalid"
          [] OTHER -> "recurring"]

Symmetry == Permutations(Clients)
=============================================================================
