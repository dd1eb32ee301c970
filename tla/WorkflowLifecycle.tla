-------------------------- MODULE WorkflowLifecycle --------------------------
(***************************************************************************)
(* The life of ONE workflow of the visual workflow scheduler: the rows of  *)
(* state/workflows.sqlite3 that describe it (agent/workflows/store.py),    *)
(* the APScheduler job that triggers it (agent/workflows/scheduler.py) and *)
(* the HTTP requests that change both (agent/workflows/runtime.py and      *)
(* agent/app/api/workflow_routes.py).  sqlite3 opens a transaction at the  *)
(* first statement that writes: every SELECT before it is an action, and   *)
(* so is every transaction; a request that makes several of them is a      *)
(* sequence of actions of its client, so that requests, the scheduler's    *)
(* worker and a crash of the Gateway interleave.  Runs on request (run,    *)
(* run-draft) change nothing here; WorkflowExecution models what they do.  *)
(* Rows of different workflows never meet, so one workflow is enough.      *)
(***************************************************************************)
EXTENDS Integers, FiniteSets

CONSTANTS
    Clients,     \* browser tabs, each with at most one request in flight
    Contents,    \* what an editor can put in a definition (trigger included)
    TriggerOf,   \* Contents -> kind of the schedule_trigger node
    MaxVersion,  \* bound on the version numbers an exploration reaches
    Ops,         \* the requests and faults this instance exercises
    None         \* no content, no job

TriggerKinds == {"manual", "recurring", "date", "invalid"}

\* "deny": the account may use workflows and not schedule them.
AllOps == {"save", "publish", "deny", "pause", "resume", "import", "delete", "crash"}

ASSUME ContentsAssumption == None \notin Contents
ASSUME TriggerAssumption == TriggerOf \in [Contents -> TriggerKinds]
ASSUME BoundAssumption == MaxVersion \in Nat \ {0}
ASSUME OpsAssumption == Ops \subseteq AllOps

Version == 1 .. MaxVersion
NoVersion == 0
Status == {"draft", "active", "paused"}

VARIABLES
    wf,        \* the workflow_definitions row; status "unborn" or "deleted": no row
    versions,  \* workflow_versions: version -> published content, None if no row
    sched,     \* the workflow_schedules row: exists, enabled, whose trigger it holds
    job,       \* the MemoryJobStore job: the content whose trigger it was built from
    gateway,   \* "up" or "down"
    view,      \* what each tab last loaded of the draft: version and status
    pc,        \* where each tab's request is
    snap,      \* what that request has read and is about to write
    worker,    \* the scheduler worker running this workflow's job
    late       \* the moment of the date triggers is past its misfire grace

vars == <<wf, versions, sched, job, gateway, view, pc, snap, worker, late>>

db == <<wf, versions, sched>>

RowExists == wf.status \in Status

NoSchedule == [exists |-> FALSE, enabled |-> FALSE, trigger |-> None]

\* A request holds a definition with its number and status; save_draft also the number a
\* changed draft would get and the active version it compares with.
Snap == [version : Version \cup {NoVersion}, content : Contents \cup {None}, status : Status,
         next : Version \cup {NoVersion}, active : Version \cup {NoVersion}]
Holding(v, c, s) ==
    [version |-> v, content |-> c, status |-> s, next |-> NoVersion, active |-> NoVersion]
NoSnap == Holding(NoVersion, None, "draft")

Labels == {"idle", "compare_active", "upsert_draft", "store_publish", "compare_published",
           "insert_version", "upsert_schedule", "list_active", "get_schedule",
           "enable_schedule", "register", "add_job", "unregister", "disable_schedule"}

TypeOK ==
    /\ wf \in [status : Status \cup {"unborn", "deleted"}, latest : Version \cup {NoVersion},
               active : Version \cup {NoVersion}, draft : Contents \cup {None}]
    /\ versions \in [Version -> Contents \cup {None}]
    /\ sched \in [exists : BOOLEAN, enabled : BOOLEAN, trigger : Contents \cup {None}]
    /\ job \in Contents \cup {None}
    /\ gateway \in {"up", "down"}
    /\ view \in [Clients -> [version : Version \cup {NoVersion}, status : Status]]
    /\ pc \in [Clients -> Labels]
    /\ snap \in [Clients -> Snap]
    /\ worker \in {"idle", "dispatched", "running"}
    /\ late \in BOOLEAN

Init ==
    /\ wf = [status |-> "unborn", latest |-> NoVersion, active |-> NoVersion, draft |-> None]
    /\ versions = [v \in Version |-> None]
    /\ sched = NoSchedule
    /\ job = None
    /\ gateway = "up"
    /\ view = [t \in Clients |-> [version |-> NoVersion, status |-> "draft"]]
    /\ pc = [t \in Clients |-> "idle"]
    /\ snap = [t \in Clients |-> NoSnap]
    /\ worker = "idle"
    /\ late = FALSE

Idle(t) == gateway = "up" /\ pc[t] = "idle"

(***************************************************************************)
(* What list_active_schedules returns for this workflow.                   *)
(***************************************************************************)
Listed == sched.enabled /\ wf.status = "active" /\ wf.active # NoVersion

(***************************************************************************)
(* Steps of a request: stop at a given point, or be answered.              *)
(***************************************************************************)
Goto(t, label) == pc' = [pc EXCEPT ![t] = label]
Answer(t) == Goto(t, "idle") /\ snap' = [snap EXCEPT ![t] = NoSnap]

\* What the tab shows afterwards: the workflow loaded again (the editor does that after a
\* pause or a resume), the draft that was saved, or the definition that publish returned.
Reload(t) ==
    view' = IF RowExists THEN [view EXCEPT ![t] = [version |-> wf.latest, status |-> wf.status]]
                         ELSE view
\* Mutant: the answer carries a status of its own.
ShowPublishedWord(t) ==
    view' = [view EXCEPT ![t] = [version |-> snap[t].version, status |-> "published"]]
ShowPublished(t) ==
    view' = [view EXCEPT ![t] = [version |-> snap[t].version, status |-> "active"]]

(***************************************************************************)
(* Drafts                                                                  *)
(***************************************************************************)
\* Mutant: a draft that is ahead of the active version is compared with it as well.
MustCompareAhead(v) == RowExists /\ wf.active # NoVersion

\* save_draft compares a definition that is not newer than the active version with it ...
MustCompare(v) == RowExists /\ wf.active # NoVersion /\ v <= wf.active

\* ... and gives it the next number if they differ.
NextNumber == IF wf.latest > wf.active THEN wf.latest + 1 ELSE wf.active + 1

\* save_draft begins with a SELECT of the row, outside of any transaction.
SelectRow(t, v, c, s) ==
    \/ /\ MustCompare(v) /\ NextNumber \in Version
       /\ snap' = [snap EXCEPT ![t] = [version |-> v, content |-> c, status |-> s,
                                      next |-> NextNumber, active |-> wf.active]]
       /\ Goto(t, "compare_active")
    \/ /\ ~MustCompare(v)
       /\ snap' = [snap EXCEPT ![t] = Holding(v, c, s)]
       /\ Goto(t, "upsert_draft")

\* The SELECT of the version that was active; it is gone if the workflow was deleted.
CompareActive(t) ==
    LET s == snap[t]
        number == IF versions[s.active] # s.content THEN s.next ELSE s.version
    IN /\ pc[t] = "compare_active"
       /\ snap' = [snap EXCEPT ![t] = Holding(number, s.content, s.status)]
       /\ Goto(t, "upsert_draft")
       /\ UNCHANGED <<db, job, gateway, view, worker, late>>

NewRow(v, c, s) == [status |-> s, latest |-> v, active |-> NoVersion, draft |-> c]

\* Mutant: the upsert moves active_version along with the draft.
StoreDraftActivating(s) ==
    wf' = IF RowExists
          THEN [wf EXCEPT !.status = s.status, !.latest = s.version, !.draft = s.content,
                         !.active = IF @ = NoVersion THEN @ ELSE s.version]
          ELSE NewRow(s.version, s.content, s.status)

\* The upsert, whatever the row has become since the SELECT.  It never touches
\* active_version; without a row it inserts one.
StoreDraft(s) ==
    wf' = IF RowExists
          THEN [wf EXCEPT !.status = s.status, !.latest = s.version, !.draft = s.content]
          ELSE NewRow(s.version, s.content, s.status)

UpsertDraft(t) ==
    /\ pc[t] = "upsert_draft"
    /\ StoreDraft(snap[t])
    /\ view' = [view EXCEPT ![t] = [version |-> snap[t].version, status |-> snap[t].status]]
    /\ Answer(t)
    /\ UNCHANGED <<versions, sched, job, gateway, worker, late>>

\* POST /workflows: the editor's default definition, version 1 and status draft, under an
\* identifier nobody else knows yet.
CreateWorkflow(t, c) ==
    /\ Idle(t) /\ wf.status = "unborn"
    /\ wf' = NewRow(1, c, "draft")
    /\ view' = [view EXCEPT ![t] = [version |-> 1, status |-> "draft"]]
    /\ UNCHANGED <<versions, sched, job, gateway, pc, snap, worker, late>>

\* GET /workflows/{id}: the draft with the status of the row.
OpenWorkflow(t) ==
    /\ Idle(t) /\ RowExists
    /\ Reload(t)
    /\ UNCHANGED <<db, job, gateway, pc, snap, worker, late>>

\* PUT /workflows/{id}/draft as the editor sends it: the version and status it loaded, and
\* that version as expected_version.  A conflict makes the editor load and save again,
\* which is OpenWorkflow and this action.  Without a row there is nothing to conflict with.
SaveDraft(t, c) ==
    /\ "save" \in Ops
    /\ Idle(t) /\ view[t].version # NoVersion
    /\ RowExists => wf.latest = view[t].version
    /\ SelectRow(t, view[t].version, c, view[t].status)
    /\ UNCHANGED <<db, job, gateway, view, worker, late>>

\* POST /workflows/{id}/node-red: parse_flow builds a definition with the defaults version 1
\* and status draft, saved without an expected_version.
ImportNodeRed(t, c) ==
    /\ "import" \in Ops
    /\ Idle(t) /\ RowExists
    /\ SelectRow(t, 1, c, "draft")
    /\ UNCHANGED <<db, job, gateway, view, worker, late>>

\* DELETE /workflows/{id}: the row and, by cascade, its versions and its schedule.
DeleteWorkflow(t) ==
    /\ "delete" \in Ops
    /\ Idle(t) /\ RowExists
    /\ wf' = [status |-> "deleted", latest |-> NoVersion, active |-> NoVersion, draft |-> None]
    /\ versions' = [v \in Version |-> None]
    /\ sched' = NoSchedule
    /\ UNCHANGED <<job, gateway, view, pc, snap, worker, late>>

(***************************************************************************)
(* POST /workflows/{id}/publish                                            *)
(***************************************************************************)
\* The route reads the draft it is going to publish.
PublishBegin(t) ==
    /\ "publish" \in Ops
    /\ Idle(t) /\ RowExists
    /\ snap' = [snap EXCEPT ![t] = Holding(wf.latest, wf.draft, "draft")]
    /\ Goto(t, "store_publish")
    /\ UNCHANGED <<db, job, gateway, view, worker, late>>

\* What follows the publication: a manual workflow is answered, a scheduled one goes on
\* unless policy.require refuses the account a schedule.
AfterStorePublish(t) ==
    LET manual == TriggerOf[snap[t].content] = "manual"
    IN \/ manual /\ Answer(t) /\ ShowPublished(t)
       \/ ~manual /\ Goto(t, "upsert_schedule") /\ UNCHANGED <<snap, view>>
       \/ ~manual /\ "deny" \in Ops /\ Answer(t) /\ UNCHANGED view

\* WorkflowStore.publish: the SELECT of the row (WORKFLOW_NOT_FOUND without one) ...
StorePublish(t) ==
    /\ pc[t] = "store_publish"
    /\ \/ /\ ~RowExists
          /\ Answer(t)
       \/ /\ RowExists
          /\ Goto(t, IF wf.active = snap[t].version THEN "compare_published"
                                                   ELSE "insert_version")
          /\ UNCHANGED snap
    /\ UNCHANGED <<db, job, gateway, view, worker, late>>

\* ... of the version if it was the active one, which is returned if nothing changed ...
ComparePublished(t) ==
    /\ pc[t] = "compare_published"
    /\ \/ /\ versions[snap[t].version] = snap[t].content
          /\ AfterStorePublish(t)
       \/ /\ versions[snap[t].version] # snap[t].content
          /\ Goto(t, "insert_version") /\ UNCHANGED <<snap, view>>
    /\ UNCHANGED <<db, job, gateway, worker, late>>

\* Mutant: INSERT OR REPLACE instead of INSERT.
InsertsAnyway(s) == RowExists

\* ... and the INSERT into workflow_versions, refused by its primary key if the number is
\* taken and by its foreign key without a row.
Inserts(s) == RowExists /\ versions[s.version] = None

\* The transaction that inserts the version and activates it; otherwise publish raises
\* WORKFLOW_VERSION_IMMUTABLE.
InsertVersion(t) ==
    LET s == snap[t]
    IN /\ pc[t] = "insert_version"
       /\ \/ /\ Inserts(s)
             /\ versions' = [versions EXCEPT ![s.version] = s.content]
             /\ wf' = [wf EXCEPT !.active = s.version, !.status = "active"]
             /\ AfterStorePublish(t)
          \/ /\ ~Inserts(s)
             /\ Answer(t)
             /\ UNCHANGED <<wf, versions, view>>
       /\ UNCHANGED <<sched, job, gateway, worker, late>>

\* WorkflowStore.upsert_schedule: enabled again, with the trigger just published.  Without
\* a definition row the foreign key refuses it.
UpsertSchedule(t) ==
    /\ pc[t] = "upsert_schedule"
    /\ \/ /\ RowExists
          /\ sched' = [exists |-> TRUE, enabled |-> TRUE, trigger |-> snap[t].content]
          /\ Goto(t, "list_active") /\ UNCHANGED snap
       \/ /\ ~RowExists
          /\ Answer(t) /\ UNCHANGED sched
    /\ UNCHANGED <<wf, versions, job, gateway, view, worker, late>>

\* publish looks its own schedule up among the active ones; not there, next() raises.
ListActive(t) ==
    /\ pc[t] = "list_active"
    /\ \/ /\ Listed
          /\ snap' = [snap EXCEPT ![t].content = sched.trigger]
          /\ Goto(t, "register")
       \/ /\ ~Listed
          /\ Answer(t)
    /\ UNCHANGED <<db, job, gateway, view, worker, late>>

(***************************************************************************)
(* WorkflowScheduler.register and unregister                               *)
(***************************************************************************)
\* register begins with enable_schedule (an UPDATE, so nothing happens without a row) ...
RegisterEnable(t) ==
    /\ pc[t] = "register"
    /\ sched' = [sched EXCEPT !.enabled = sched.exists]
    /\ Goto(t, "add_job")
    /\ UNCHANGED <<wf, versions, job, gateway, view, snap, worker, late>>

\* ... then builds the trigger, which may raise, and adds or replaces the job.
AddJob(t) ==
    /\ pc[t] = "add_job"
    /\ \/ /\ TriggerOf[snap[t].content] = "invalid"
          /\ UNCHANGED <<job, view>>
       \/ /\ TriggerOf[snap[t].content] # "invalid"
          /\ job' = snap[t].content
          /\ IF snap[t].version = NoVersion THEN Reload(t) ELSE ShowPublished(t)
    /\ Answer(t)
    /\ UNCHANGED <<db, gateway, worker, late>>

\* Mutant: unregister leaves the job in memory.
RemoveJobNot(t) ==
    /\ pc[t] = "unregister"
    /\ Goto(t, "disable_schedule")
    /\ UNCHANGED <<db, job, gateway, view, snap, worker, late>>

\* unregister removes the job ...
RemoveJob(t) ==
    /\ pc[t] = "unregister"
    /\ job' = None
    /\ Goto(t, "disable_schedule")
    /\ UNCHANGED <<db, gateway, view, snap, worker, late>>

\* ... and disables the schedule.  The editor then loads the workflow again.
DisableSchedule(t) ==
    /\ pc[t] = "disable_schedule"
    /\ sched' = [sched EXCEPT !.enabled = FALSE]
    /\ Reload(t)
    /\ Answer(t)
    /\ UNCHANGED <<wf, versions, job, gateway, worker, late>>

(***************************************************************************)
(* POST /workflows/{id}/pause and /resume                                  *)
(***************************************************************************)
Pause(t) ==
    /\ "pause" \in Ops
    /\ Idle(t) /\ RowExists
    /\ wf' = [wf EXCEPT !.status = "paused"]
    /\ Goto(t, "unregister")
    /\ UNCHANGED <<versions, sched, job, gateway, view, snap, worker, late>>

Resume(t) ==
    /\ "resume" \in Ops
    /\ Idle(t) /\ RowExists
    /\ wf' = [wf EXCEPT !.status = "active"]
    /\ Goto(t, "get_schedule")
    /\ UNCHANGED <<versions, sched, job, gateway, view, snap, worker, late>>

ResumeGetSchedule(t) ==
    /\ pc[t] = "get_schedule"
    /\ \/ /\ sched.exists
          /\ snap' = [snap EXCEPT ![t] = Holding(NoVersion, sched.trigger, "draft")]
          /\ Goto(t, "enable_schedule")
          /\ UNCHANGED view
       \/ /\ ~sched.exists
          /\ Answer(t)
          /\ Reload(t)
    /\ UNCHANGED <<db, job, gateway, worker, late>>

\* Mutant: resume enables the schedule and forgets to register it.
ResumeEnableOnly(t) ==
    /\ pc[t] = "enable_schedule"
    /\ sched' = [sched EXCEPT !.enabled = sched.exists]
    /\ Answer(t) /\ Reload(t)
    /\ UNCHANGED <<wf, versions, job, gateway, worker, late>>

ResumeEnable(t) ==
    /\ pc[t] = "enable_schedule"
    /\ sched' = [sched EXCEPT !.enabled = sched.exists]
    /\ Goto(t, "register")
    /\ UNCHANGED <<wf, versions, job, gateway, view, snap, worker, late>>

(***************************************************************************)
(* The scheduler's worker; it does not look at the status.                 *)
(***************************************************************************)
Published == RowExists /\ wf.active # NoVersion

\* APScheduler hands the job to a worker.  A date job has no next run and is removed; past
\* its grace it is only logged as missed.
Fire ==
    /\ gateway = "up" /\ job # None /\ worker = "idle"
    /\ IF TriggerOf[job] = "date"
       THEN /\ job' = None
            /\ worker' = IF late THEN "idle" ELSE "dispatched"
       ELSE worker' = "dispatched" /\ UNCHANGED job
    /\ UNCHANGED <<db, gateway, view, pc, snap, late>>

\* max_instances=1: while a run of this job is going on, a due run is skipped.
FireSkipped ==
    /\ gateway = "up" /\ job # None /\ worker # "idle"
    /\ TriggerOf[job] = "date"
    /\ job' = None
    /\ UNCHANGED <<db, gateway, view, pc, snap, worker, late>>

\* _dispatch -> scheduled_workflow_run -> WorkflowRuntime.run: load the active version.
DispatchRun ==
    /\ worker = "dispatched"
    /\ worker' = IF Published THEN "running" ELSE "idle"
    /\ UNCHANGED <<db, job, gateway, view, pc, snap, late>>

DispatchEnd ==
    /\ worker = "running"
    /\ worker' = "idle"
    /\ UNCHANGED <<db, job, gateway, view, pc, snap, late>>

\* Time: the instant of the date triggers and the misfire grace after it go by.
GracePasses ==
    /\ ~late /\ \E c \in Contents : TriggerOf[c] = "date"
    /\ late' = TRUE
    /\ UNCHANGED <<db, job, gateway, view, pc, snap, worker>>

(***************************************************************************)
(* The Gateway stops at any point: only the database and the tabs remain.  *)
(* WorkflowScheduler.start, before any request is served, registers what   *)
(* the database lists; a trigger that cannot be built makes it raise and   *)
(* the Gateway does not come up.                                           *)
(***************************************************************************)
Crash ==
    /\ "crash" \in Ops
    /\ gateway = "up"
    /\ gateway' = "down"
    /\ job' = None
    /\ pc' = [t \in Clients |-> "idle"]
    /\ snap' = [t \in Clients |-> NoSnap]
    /\ worker' = "idle"
    /\ UNCHANGED <<db, view, late>>

\* Mutant: every enabled schedule is registered, whatever the status of its workflow.
StartEnabled ==
    /\ gateway = "down"
    /\ gateway' = "up"
    /\ job' = IF sched.enabled THEN sched.trigger ELSE None
    /\ UNCHANGED <<db, view, pc, snap, worker, late>>

Start ==
    /\ gateway = "down"
    /\ Listed => TriggerOf[sched.trigger] # "invalid"
    /\ gateway' = "up"
    /\ job' = IF Listed THEN sched.trigger ELSE None
    /\ UNCHANGED <<db, view, pc, snap, worker, late>>

RequestStep(t) ==
    \/ CompareActive(t) \/ UpsertDraft(t)
    \/ StorePublish(t) \/ ComparePublished(t) \/ InsertVersion(t)
    \/ UpsertSchedule(t) \/ ListActive(t)
    \/ RegisterEnable(t) \/ AddJob(t) \/ RemoveJob(t) \/ DisableSchedule(t)
    \/ ResumeGetSchedule(t) \/ ResumeEnable(t)

Request(t) ==
    \/ \E c \in Contents : CreateWorkflow(t, c) \/ SaveDraft(t, c) \/ ImportNodeRed(t, c)
    \/ OpenWorkflow(t) \/ DeleteWorkflow(t) \/ PublishBegin(t)
    \/ Pause(t) \/ Resume(t)

Worker == Fire \/ FireSkipped \/ DispatchRun \/ DispatchEnd

Next ==
    \/ \E t \in Clients : Request(t) \/ RequestStep(t)
    \/ Worker
    \/ GracePasses
    \/ Crash \/ Start

Spec == Init /\ [][Next]_vars

(***************************************************************************)
(* Fairness: a request thread that can go on does so, APScheduler's timer  *)
(* goes off, a worker loads what it is to run, and a supervisor starts the *)
(* Gateway again.  A run need not end: WorkflowRuntime.run waits in        *)
(* executor.shutdown() for handlers that hang, however long.               *)
(***************************************************************************)
Fairness ==
    /\ \A t \in Clients : WF_vars(RequestStep(t))
    /\ WF_vars(Fire) /\ WF_vars(DispatchRun) /\ WF_vars(Start)

FairSpec == Spec /\ Fairness

-----------------------------------------------------------------------------
(***************************************************************************)
(* Properties                                                              *)
(***************************************************************************)
Quiescent == gateway = "up" /\ \A t \in Clients : pc[t] = "idle"

\* Published version numbers form one line whatever requests interleave: they are exactly
\* 1 .. active_version, and the draft is at most one ahead, although save_draft and publish
\* (store.py) write what they have read before.  So active_version never goes back to an
\* older publication.  The draft may fall behind: a save that read the row before another
\* tab saved and published overwrites the newer draft, and then cannot be published until
\* it is saved again.
VersionsLinear ==
    RowExists =>
        /\ \A v \in Version : versions[v] # None <=> v <= wf.active
        /\ wf.latest \in 1 .. (wf.active + 1)

\* A published version is never overwritten or dropped while its workflow exists, even by
\* a publication whose draft was read before other requests went through.
PublishedImmutable ==
    [][RowExists /\ RowExists' =>
          \A v \in Version : versions[v] # None => versions'[v] = versions[v]]_vars

\* active_version always points at a stored version: get_published cannot come back empty
\* for a published workflow.
ActiveIsStored ==
    RowExists /\ wf.active # NoVersion => versions[wf.active] # None

\* Between requests, the in-memory job of an active or a paused workflow is the one a
\* restart would rebuild from SQLite: "APScheduler is never the business source of truth"
\* (scheduler.py:26).  A job that a restart would not rebuild fires for a paused workflow; a
\* missing one never fires.  Deletions and imports do not tell the scheduler: the job of a
\* deleted workflow finds nothing to run, that of an imported draft still runs.
JobMatchesStore ==
    Quiescent /\ wf.status \in {"active", "paused"} =>
        job = (IF Listed THEN sched.trigger ELSE None)

\* A workflow whose schedule stays listed is dispatched again and again, or one of its runs
\* never ends: max_instances=1 (scheduler.py:63) then keeps the job from ever firing again.
ScheduleKeepsFiring ==
    \/ []<>(~Listed \/ gateway = "down")
    \/ []<>(worker = "dispatched")
    \/ <>[](worker = "running")
=============================================================================
