---------------------------- MODULE WorkspaceLanes ----------------------------
(***************************************************************************)
(* The lane of one workspace: many readers or one writer, and a writer     *)
(* that waits keeps new readers out.  WorkspaceManager lets a child with a *)
(* shared_exclusive workspace in as a writer, all others (also those that  *)
(* work in a Git worktree of their own) as readers.  The code counts       *)
(* holders; the model names them.                                          *)
(***************************************************************************)
EXTENDS FiniteSets

CONSTANTS Holder, Writer(_)

VARIABLES readers, writers, waiting

LaneInit == readers = {} /\ writers = {} /\ waiting = {}

\* A writer announces itself before it waits; it then enters in a step of its own.
Arrive(h) ==
    /\ waiting' = IF Writer(h) THEN waiting \cup {h} ELSE waiting
    /\ UNCHANGED <<readers, writers>>

\* Mutant: a writer looks at other writers only.
EnterBesideReaders(h) ==
    IF Writer(h)
    THEN /\ writers = {}
         /\ writers' = {h}
         /\ waiting' = waiting \ {h}
         /\ UNCHANGED readers
    ELSE /\ writers = {} /\ waiting = {}
         /\ readers' = readers \cup {h}
         /\ UNCHANGED <<writers, waiting>>

\* acquire_reader and acquire_writer, where their wait ends.
Enter(h) ==
    IF Writer(h)
    THEN /\ writers = {} /\ readers = {}
         /\ writers' = {h}
         /\ waiting' = waiting \ {h}
         /\ UNCHANGED readers
    ELSE /\ writers = {} /\ waiting = {}
         /\ readers' = readers \cup {h}
         /\ UNCHANGED <<writers, waiting>>

\* release_reader and release_writer.
Leave(h) ==
    /\ readers' = readers \ {h}
    /\ writers' = writers \ {h}
    /\ UNCHANGED waiting
=============================================================================
