----------------------- MODULE WorkflowLifecycleProofs -----------------------
(***************************************************************************)
(* Theorems about WorkflowLifecycle, for any set of definitions and any    *)
(* bound on the version numbers, and for any number of clients but in the  *)
(* last theorem, JobAgreesWithRows, which is about one tab.                *)
(***************************************************************************)
EXTENDS WorkflowLifecycle, TLAPS

(***************************************************************************)
(* The inductive invariant behind type correctness: what a request holds   *)
(* at each point, and that the active version is stored, on which          *)
(* ActiveIsStored rests.                                                   *)
(***************************************************************************)
Publishing == {"store_publish", "compare_published", "insert_version"}
Drafting == {"compare_active", "upsert_draft"}

RowIsFilled == RowExists => wf.latest \in Version /\ wf.draft \in Contents
NoRowNoActive == ~RowExists => wf.active = NoVersion
SnapIsDraft ==
    \A t \in Clients :
        /\ pc[t] \in Publishing \cup Drafting =>
              snap[t].version \in Version /\ snap[t].content \in Contents
        /\ pc[t] = "compare_active" => snap[t].next \in Version /\ snap[t].active \in Version
Stored == wf.active # NoVersion => versions[wf.active] # None

TypeInv == TypeOK /\ RowIsFilled /\ NoRowNoActive /\ SnapIsDraft /\ Stored

\* TypeInv holds initially, conjunct by conjunct.
LEMMA InitTypeInv == Init => TypeInv
<1> SUFFICES ASSUME Init PROVE TypeInv
  OBVIOUS
<1> USE BoundAssumption DEF Init, RowExists, Status, NoVersion, NoSchedule, Version
<1>1. /\ wf \in [status : Status \cup {"unborn", "deleted"}, latest : Version \cup {NoVersion},
                active : Version \cup {NoVersion}, draft : Contents \cup {None}]
      /\ versions \in [Version -> Contents \cup {None}]
      /\ sched \in [exists : BOOLEAN, enabled : BOOLEAN, trigger : Contents \cup {None}]
  OBVIOUS
<1>2. /\ view \in [Clients -> [version : Version \cup {NoVersion}, status : Status]]
      /\ snap \in [Clients -> Snap]
      /\ pc \in [Clients -> Labels]
  BY DEF Snap, NoSnap, Holding, Labels
<1>3. TypeOK
  BY <1>1, <1>2 DEF TypeOK
<1>4. RowIsFilled /\ NoRowNoActive /\ SnapIsDraft /\ Stored
  BY DEF RowIsFilled, NoRowNoActive, SnapIsDraft, Stored, Publishing, Drafting
<1>5. QED
  BY <1>3, <1>4 DEF TypeInv

\* What a request may hold: a definition, or nothing.
LEMMA HoldingType ==
    ASSUME NEW v \in Version \cup {NoVersion}, NEW c \in Contents \cup {None}, NEW s \in Status
    PROVE  /\ Holding(v, c, s) \in Snap
           /\ NoSnap \in Snap
           /\ Holding(v, c, s).version = v
           /\ Holding(v, c, s).content = c
           /\ Holding(v, c, s).status = s
BY DEF Holding, NoSnap, Snap, Status, NoVersion

(***************************************************************************)
(* What the upsert of save_draft does to the row: the active version       *)
(* stays, the draft is replaced and its number is a version number.        *)
(***************************************************************************)
LEMMA StoreDraftEffect ==
    ASSUME TypeInv, NEW s \in Snap, s.version \in Version, s.content \in Contents, StoreDraft(s)
    PROVE  /\ wf' \in [status : Status \cup {"unborn", "deleted"},
                        latest : Version \cup {NoVersion},
                        active : Version \cup {NoVersion}, draft : Contents \cup {None}]
           /\ wf'.latest = s.version
           /\ wf'.draft = s.content
           /\ wf'.status = s.status
           /\ wf'.active = wf.active
           /\ RowExists'
<1> USE DEF TypeInv, TypeOK, NoRowNoActive, RowExists, NoVersion, Snap
<1>1. CASE RowExists
  <2>1. wf' = [wf EXCEPT !.status = s.status, !.latest = s.version, !.draft = s.content]
    BY <1>1 DEF StoreDraft
  <2>2. QED
    BY <2>1
<1>2. CASE ~RowExists
  <2>1. wf' = [status |-> s.status, latest |-> s.version, active |-> NoVersion,
               draft |-> s.content]
    BY <1>2 DEF StoreDraft, NewRow
  <2>2. QED
    BY <1>2, <2>1
<1>3. QED
  BY <1>1, <1>2

(***************************************************************************)
(* One step of Next preserves it: first the requests on drafts, then the   *)
(* publication, then the job, then the worker and the faults.              *)
(***************************************************************************)
LEMMA SelectTypeInv ==
    ASSUME TypeInv, NEW t \in Clients, NEW c \in Contents,
           SaveDraft(t, c) \/ ImportNodeRed(t, c)
    PROVE  TypeInv'
<1> USE BoundAssumption DEF NoVersion, Version
<1>1. /\ UNCHANGED <<wf, versions, sched, job, gateway, view, worker, late>>
      /\ \E v \in Version, s \in Status : SelectRow(t, v, c, s)
  <2>1. view[t].version \in Version \cup {NoVersion} /\ view[t].status \in Status
    BY DEF TypeInv, TypeOK
  <2>2. 1 \in Version /\ "draft" \in Status
    BY DEF Status
  <2>3. CASE SaveDraft(t, c)
    BY <2>1, <2>3 DEF SaveDraft, db
  <2>4. CASE ImportNodeRed(t, c)
    BY <2>2, <2>4 DEF ImportNodeRed, db
  <2>5. QED
    BY <2>3, <2>4
<1>2. PICK v \in Version, s \in Status : SelectRow(t, v, c, s)
  BY <1>1
<1>3. /\ pc \in [Clients -> Labels] /\ snap \in [Clients -> Snap]
      /\ wf.active \in Version \cup {NoVersion}
  BY DEF TypeInv, TypeOK
<1>4. CASE MustCompare(v)
  <2> DEFINE r == [version |-> v, content |-> c, status |-> s, next |-> NextNumber,
                   active |-> wf.active]
  <2>1. /\ NextNumber \in Version /\ wf.active \in Version
        /\ snap' = [snap EXCEPT ![t] = r]
        /\ pc' = [pc EXCEPT ![t] = "compare_active"]
    BY <1>2, <1>3, <1>4 DEF SelectRow, MustCompare, Goto
  <2>2. r \in Snap
    BY <2>1 DEF Snap
  <2>3. TypeOK'
    BY <1>1, <1>3, <2>1, <2>2 DEF TypeInv, TypeOK, Labels
  <2>4. SnapIsDraft'
    <3> SUFFICES ASSUME NEW u \in Clients
                 PROVE  /\ pc'[u] \in Publishing \cup Drafting =>
                              snap'[u].version \in Version /\ snap'[u].content \in Contents
                        /\ pc'[u] = "compare_active" =>
                              snap'[u].next \in Version /\ snap'[u].active \in Version
      BY DEF SnapIsDraft
    <3>1. CASE u = t
      BY <1>3, <2>1, <3>1
    <3>2. CASE u # t
      BY <1>3, <2>1, <3>2 DEF TypeInv, SnapIsDraft
    <3>3. QED
      BY <3>1, <3>2
  <2>5. QED
    BY <1>1, <2>3, <2>4 DEF TypeInv, RowIsFilled, NoRowNoActive, Stored, RowExists
<1>5. CASE ~MustCompare(v)
  <2>1. /\ snap' = [snap EXCEPT ![t] = Holding(v, c, s)]
        /\ pc' = [pc EXCEPT ![t] = "upsert_draft"]
    BY <1>2, <1>5 DEF SelectRow, Goto
  <2>2. /\ Holding(v, c, s) \in Snap
        /\ Holding(v, c, s).version = v /\ Holding(v, c, s).content = c
    BY HoldingType
  <2>3. TypeOK'
    BY <1>1, <1>3, <2>1, <2>2 DEF TypeInv, TypeOK, Labels
  <2>4. SnapIsDraft'
    BY <1>3, <2>1, <2>2 DEF TypeInv, SnapIsDraft, Publishing, Drafting
  <2>5. QED
    BY <1>1, <2>3, <2>4 DEF TypeInv, RowIsFilled, NoRowNoActive, Stored, RowExists
<1>6. QED
  BY <1>4, <1>5

\* The comparison with the active version, the upsert, and the first row.
LEMMA DraftTypeInv ==
    ASSUME TypeInv, NEW t \in Clients,
           CompareActive(t) \/ UpsertDraft(t) \/ \E c \in Contents : CreateWorkflow(t, c)
    PROVE  TypeInv'
<1> USE BoundAssumption DEF NoVersion, Version
<1>1. /\ pc \in [Clients -> Labels] /\ snap \in [Clients -> Snap]
      /\ view \in [Clients -> [version : Version \cup {NoVersion}, status : Status]]
  BY DEF TypeInv, TypeOK
<1>2. CASE CompareActive(t)
  <2> DEFINE number == IF versions[snap[t].active] # snap[t].content THEN snap[t].next
                                                                     ELSE snap[t].version
             h == Holding(number, snap[t].content, snap[t].status)
  <2>1. /\ pc[t] = "compare_active"
        /\ pc' = [pc EXCEPT ![t] = "upsert_draft"]
        /\ snap' = [snap EXCEPT ![t] = h]
        /\ UNCHANGED <<wf, versions, sched, job, gateway, view, worker, late>>
    BY <1>2 DEF CompareActive, Goto, db
  <2>2. /\ number \in Version /\ snap[t].content \in Contents /\ snap[t].status \in Status
    BY <1>1, <2>1 DEF TypeInv, SnapIsDraft, Publishing, Drafting, Snap
  <2>3. h \in Snap /\ h.version \in Version /\ h.content \in Contents
    BY <2>2, HoldingType
  <2>4. TypeOK'
    BY <1>1, <2>1, <2>3 DEF TypeInv, TypeOK, Labels
  <2>5. SnapIsDraft'
    BY <1>1, <2>1, <2>3 DEF TypeInv, SnapIsDraft, Publishing, Drafting
  <2>6. QED
    BY <2>1, <2>4, <2>5 DEF TypeInv, RowIsFilled, NoRowNoActive, Stored, RowExists
<1>3. CASE UpsertDraft(t)
  <2>1. /\ pc[t] = "upsert_draft"
        /\ StoreDraft(snap[t])
        /\ view' = [view EXCEPT ![t] = [version |-> snap[t].version, status |-> snap[t].status]]
        /\ pc' = [pc EXCEPT ![t] = "idle"]
        /\ snap' = [snap EXCEPT ![t] = NoSnap]
        /\ UNCHANGED <<versions, sched, job, gateway, worker, late>>
    BY <1>3 DEF UpsertDraft, Answer, Goto
  <2>2. snap[t] \in Snap /\ snap[t].version \in Version /\ snap[t].content \in Contents
    BY <1>1, <2>1 DEF TypeInv, SnapIsDraft, Publishing, Drafting
  <2>3. /\ wf' \in [status : Status \cup {"unborn", "deleted"}, latest : Version \cup {NoVersion},
                    active : Version \cup {NoVersion}, draft : Contents \cup {None}]
        /\ wf'.latest \in Version /\ wf'.draft \in Contents /\ wf'.active = wf.active
        /\ RowExists'
    BY <2>1, <2>2, StoreDraftEffect
  <2>4. NoSnap \in Snap /\ "idle" \in Labels
    BY DEF NoSnap, Holding, Snap, Status, Labels
  <2>5. view' \in [Clients -> [version : Version \cup {NoVersion}, status : Status]]
    <3>1. snap[t].version \in Version \cup {NoVersion} /\ snap[t].status \in Status
      BY <2>2 DEF Snap
    <3>2. QED
      BY <1>1, <2>1, <3>1
  <2>6. TypeOK'
    BY <1>1, <2>1, <2>3, <2>4, <2>5 DEF TypeInv, TypeOK
  <2>7. SnapIsDraft'
    BY <1>1, <2>1 DEF TypeInv, SnapIsDraft, Publishing, Drafting
  <2>8. QED
    BY <2>1, <2>3, <2>6, <2>7 DEF TypeInv, RowIsFilled, NoRowNoActive, Stored
<1>4. ASSUME NEW c \in Contents, CreateWorkflow(t, c) PROVE TypeInv'
  <2>1. /\ ~RowExists
        /\ wf' = [status |-> "draft", latest |-> 1, active |-> NoVersion, draft |-> c]
        /\ view' = [view EXCEPT ![t] = [version |-> 1, status |-> "draft"]]
        /\ UNCHANGED <<versions, sched, job, gateway, pc, snap, worker, late>>
    BY <1>4 DEF CreateWorkflow, NewRow, RowExists, Status
  <2>2. view' \in [Clients -> [version : Version \cup {NoVersion}, status : Status]]
    BY <1>1, <2>1 DEF Status
  <2>3. TypeOK'
    BY <2>1, <2>2 DEF TypeInv, TypeOK, Status
  <2>4. QED
    BY <2>1, <2>3
       DEF TypeInv, RowIsFilled, NoRowNoActive, SnapIsDraft, Stored, RowExists, Status
<1>5. QED
  BY <1>2, <1>3, <1>4

\* What follows a publication: the request is answered or goes on to the schedule.
LEMMA AfterPublishTypes ==
    ASSUME TypeInv, NEW t \in Clients,
           snap[t].version \in Version,
           AfterStorePublish(t) \/ (Answer(t) /\ UNCHANGED view)
    PROVE  /\ pc' \in [Clients -> Labels]
           /\ snap' \in [Clients -> Snap]
           /\ view' \in [Clients -> [version : Version \cup {NoVersion}, status : Status]]
           /\ pc'[t] \in {"idle", "upsert_schedule"}
           /\ \A u \in Clients : u # t => pc'[u] = pc[u] /\ snap'[u] = snap[u]
<1> USE DEF TypeInv, TypeOK
<1>1. NoSnap \in Snap
  BY DEF NoSnap, Holding, Snap, Status
<1>2. CASE Answer(t) /\ (ShowPublished(t) \/ UNCHANGED view)
  BY <1>1, <1>2 DEF Answer, Goto, ShowPublished, Labels, Status
<1>3. CASE Goto(t, "upsert_schedule") /\ UNCHANGED <<snap, view>>
  BY <1>3 DEF Goto, Labels
<1>4. QED
  BY <1>2, <1>3 DEF AfterStorePublish

\* The SELECTs and the transaction of a publication: either the rows stay, or the version
\* appears.
LEMMA PublishTypeInv ==
    ASSUME TypeInv, NEW t \in Clients,
           StorePublish(t) \/ ComparePublished(t) \/ InsertVersion(t)
    PROVE  TypeInv'
<1> USE BoundAssumption DEF NoVersion, Version
<1>1. /\ pc[t] \in Publishing
      /\ snap[t].version \in Version
      /\ snap[t].content \in Contents
      /\ UNCHANGED <<sched, job, gateway, worker, late>>
      /\ pc \in [Clients -> Labels] /\ snap \in [Clients -> Snap]
  BY DEF StorePublish, ComparePublished, InsertVersion, TypeInv, SnapIsDraft, TypeOK, db,
         Publishing
<1>2. /\ pc' \in [Clients -> Labels]
      /\ snap' \in [Clients -> Snap]
      /\ view' \in [Clients -> [version : Version \cup {NoVersion}, status : Status]]
      /\ pc'[t] \in Publishing => snap'[t] = snap[t]
      /\ pc'[t] # "compare_active" /\ pc'[t] # "upsert_draft"
      /\ \A u \in Clients : u # t => pc'[u] = pc[u] /\ snap'[u] = snap[u]
  <2>1. CASE AfterStorePublish(t) \/ (Answer(t) /\ UNCHANGED view)
    BY <1>1, <2>1, AfterPublishTypes DEF Publishing
  <2>2. CASE /\ Goto(t, "compare_published") \/ Goto(t, "insert_version")
             /\ UNCHANGED <<snap, view>>
    BY <1>1, <2>2 DEF Goto, Labels, TypeInv, TypeOK
  <2>3. QED
    BY <2>1, <2>2 DEF StorePublish, ComparePublished, InsertVersion
<1>3. SnapIsDraft'
  <2> SUFFICES ASSUME NEW u \in Clients
               PROVE  /\ pc'[u] \in Publishing \cup Drafting =>
                            snap'[u].version \in Version /\ snap'[u].content \in Contents
                      /\ pc'[u] = "compare_active" =>
                            snap'[u].next \in Version /\ snap'[u].active \in Version
    BY DEF SnapIsDraft
  <2>1. CASE u = t
    BY <1>1, <1>2, <2>1 DEF Drafting
  <2>2. CASE u # t
    BY <1>2, <2>2 DEF TypeInv, SnapIsDraft
  <2>3. QED
    BY <2>1, <2>2
<1>4. CASE UNCHANGED <<wf, versions>>
  <2>1. TypeOK'
    BY <1>1, <1>2, <1>4 DEF TypeInv, TypeOK
  <2>2. QED
    BY <1>3, <1>4, <2>1 DEF TypeInv, RowIsFilled, NoRowNoActive, Stored, RowExists
<1>5. CASE /\ versions' = [versions EXCEPT ![snap[t].version] = snap[t].content]
           /\ wf' = [wf EXCEPT !.active = snap[t].version, !.status = "active"]
           /\ RowExists
  <2>1. /\ wf' \in [status : Status \cup {"unborn", "deleted"}, latest : Version \cup {NoVersion},
                    active : Version \cup {NoVersion}, draft : Contents \cup {None}]
        /\ versions' \in [Version -> Contents \cup {None}]
        /\ wf'.latest = wf.latest /\ wf'.draft = wf.draft
        /\ wf'.active = snap[t].version /\ wf'.status = "active"
        /\ versions'[snap[t].version] = snap[t].content
    BY <1>1, <1>5 DEF TypeInv, TypeOK, Status
  <2>2. TypeOK'
    BY <1>1, <1>2, <2>1 DEF TypeInv, TypeOK
  <2>3. RowIsFilled' /\ NoRowNoActive'
    BY <1>5, <2>1 DEF TypeInv, RowIsFilled, NoRowNoActive, RowExists, Status
  <2>4. Stored'
    BY <1>1, <2>1, ContentsAssumption DEF Stored
  <2>5. QED
    BY <1>3, <2>2, <2>3, <2>4 DEF TypeInv
<1>6. QED
  BY <1>4, <1>5 DEF StorePublish, ComparePublished, InsertVersion, Inserts, db

\* The steps that leave the definition row and the versions alone.
LEMMA JobTypeInv ==
    ASSUME TypeInv, NEW t \in Clients,
           \/ UpsertSchedule(t) \/ ListActive(t) \/ RegisterEnable(t) \/ AddJob(t)
           \/ RemoveJob(t) \/ DisableSchedule(t) \/ ResumeGetSchedule(t) \/ ResumeEnable(t)
    PROVE  TypeInv'
<1> USE DEF NoVersion
<1>1. UNCHANGED <<wf, versions, gateway, worker, late>>
  BY DEF UpsertSchedule, ListActive, RegisterEnable, AddJob, RemoveJob, DisableSchedule,
         ResumeGetSchedule, ResumeEnable, db
<1>2. /\ pc' \in [Clients -> Labels]
      /\ pc'[t] \notin Publishing \cup Drafting
      /\ \A u \in Clients : u # t => pc'[u] = pc[u]
  BY DEF UpsertSchedule, ListActive, RegisterEnable, AddJob, RemoveJob, DisableSchedule,
         ResumeGetSchedule, ResumeEnable, Goto, Answer, TypeInv, TypeOK, Labels, Publishing,
         Drafting
<1>3. /\ snap' \in [Clients -> Snap]
      /\ \A u \in Clients : u # t => snap'[u] = snap[u]
  <2>1. /\ snap \in [Clients -> Snap]
        /\ sched.trigger \in Contents \cup {None}
        /\ NoSnap \in Snap
        /\ Holding(NoVersion, sched.trigger, "draft") \in Snap
    BY HoldingType DEF TypeInv, TypeOK, Status
  <2>2. \/ snap' = [snap EXCEPT ![t] = NoSnap]
        \/ snap' = [snap EXCEPT ![t].content = sched.trigger]
        \/ snap' = [snap EXCEPT ![t] = Holding(NoVersion, sched.trigger, "draft")]
        \/ snap' = snap
    BY DEF UpsertSchedule, ListActive, RegisterEnable, AddJob, RemoveJob, DisableSchedule,
           ResumeGetSchedule, ResumeEnable, Answer
  <2>3. [snap[t] EXCEPT !.content = sched.trigger] \in Snap
    BY <2>1 DEF Snap
  <2>4. QED
    BY <2>1, <2>2, <2>3
<1>4. view' \in [Clients -> [version : Version \cup {NoVersion}, status : Status]]
  <2>1. Reload(t) \/ ShowPublished(t) \/ UNCHANGED view
    BY DEF UpsertSchedule, ListActive, RegisterEnable, AddJob, RemoveJob, DisableSchedule,
           ResumeGetSchedule, ResumeEnable
  <2>2. CASE Reload(t)
    BY <2>2 DEF Reload, RowExists, TypeInv, TypeOK
  <2>3. CASE ShowPublished(t)
    BY <2>3 DEF ShowPublished, Status, Snap, TypeInv, TypeOK
  <2>4. QED
    BY <2>1, <2>2, <2>3 DEF TypeInv, TypeOK
<1>5. sched' \in [exists : BOOLEAN, enabled : BOOLEAN, trigger : Contents \cup {None}]
  <2>1. /\ sched \in [exists : BOOLEAN, enabled : BOOLEAN, trigger : Contents \cup {None}]
        /\ snap[t].content \in Contents \cup {None}
        /\ sched.exists \in BOOLEAN
    BY DEF TypeInv, TypeOK, Snap
  <2>2. \/ sched' = [exists |-> TRUE, enabled |-> TRUE, trigger |-> snap[t].content]
        \/ sched' = [sched EXCEPT !.enabled = sched.exists]
        \/ sched' = [sched EXCEPT !.enabled = FALSE]
        \/ sched' = sched
    BY DEF UpsertSchedule, ListActive, RegisterEnable, AddJob, RemoveJob, DisableSchedule,
           ResumeGetSchedule, ResumeEnable, db
  <2>3. ASSUME NEW b \in BOOLEAN
        PROVE  [sched EXCEPT !.enabled = b]
                 \in [exists : BOOLEAN, enabled : BOOLEAN, trigger : Contents \cup {None}]
    BY <2>1
  <2>4. [exists |-> TRUE, enabled |-> TRUE, trigger |-> snap[t].content]
           \in [exists : BOOLEAN, enabled : BOOLEAN, trigger : Contents \cup {None}]
    BY <2>1
  <2>5. CASE sched' = [sched EXCEPT !.enabled = sched.exists]
    BY <2>1, <2>3, <2>5
  <2>6. CASE sched' = [sched EXCEPT !.enabled = FALSE]
    BY <2>3, <2>6
  <2>7. QED
    BY <2>1, <2>2, <2>4, <2>5, <2>6
<1>6. job' \in Contents \cup {None}
  BY DEF UpsertSchedule, ListActive, RegisterEnable, AddJob, RemoveJob, DisableSchedule,
         ResumeGetSchedule, ResumeEnable, TypeInv, TypeOK, Snap
<1>7. TypeOK'
  BY <1>1, <1>2, <1>3, <1>4, <1>5, <1>6 DEF TypeInv, TypeOK
<1>8. QED
  BY <1>1, <1>2, <1>3, <1>7
     DEF TypeInv, RowIsFilled, NoRowNoActive, SnapIsDraft, Stored, RowExists, Drafting

\* TypeInv is inductive: one step per action of Next.
LEMMA NextTypeInv == TypeInv /\ [Next]_vars => TypeInv'
<1> SUFFICES ASSUME TypeInv, [Next]_vars PROVE TypeInv'
  OBVIOUS
<1> USE ContentsAssumption, BoundAssumption
<1>1. ASSUME NEW t \in Clients, NEW c \in Contents, SaveDraft(t, c) \/ ImportNodeRed(t, c)
      PROVE  TypeInv'
  BY <1>1, SelectTypeInv
<1>2. ASSUME NEW t \in Clients,
             CompareActive(t) \/ UpsertDraft(t) \/ \E c \in Contents : CreateWorkflow(t, c)
      PROVE  TypeInv'
  BY <1>2, DraftTypeInv
<1>3. ASSUME NEW t \in Clients, StorePublish(t) \/ ComparePublished(t) \/ InsertVersion(t)
      PROVE  TypeInv'
  BY <1>3, PublishTypeInv
<1>4. ASSUME NEW t \in Clients,
             \/ UpsertSchedule(t) \/ ListActive(t) \/ RegisterEnable(t) \/ AddJob(t)
             \/ RemoveJob(t) \/ DisableSchedule(t) \/ ResumeGetSchedule(t) \/ ResumeEnable(t)
      PROVE  TypeInv'
  BY <1>4, JobTypeInv
<1> USE DEF TypeInv, TypeOK, RowIsFilled, NoRowNoActive, SnapIsDraft, Stored, RowExists, Status,
            NoVersion, NoSchedule, Version, db, Publishing, Drafting
<1>5. ASSUME NEW t \in Clients, OpenWorkflow(t) PROVE TypeInv'
  BY <1>5 DEF OpenWorkflow, Reload, Idle
<1>6. ASSUME NEW t \in Clients, DeleteWorkflow(t) PROVE TypeInv'
  BY <1>6 DEF DeleteWorkflow, Idle
<1>7. ASSUME NEW t \in Clients, PublishBegin(t) PROVE TypeInv'
  <2>1. /\ wf.latest \in Version /\ wf.draft \in Contents
        /\ snap' = [snap EXCEPT ![t] = Holding(wf.latest, wf.draft, "draft")]
        /\ pc' = [pc EXCEPT ![t] = "store_publish"]
        /\ UNCHANGED <<wf, versions, sched, job, gateway, view, worker, late>>
    BY <1>7 DEF PublishBegin, Goto
  <2>2. /\ Holding(wf.latest, wf.draft, "draft") \in Snap
        /\ Holding(wf.latest, wf.draft, "draft").version = wf.latest
        /\ Holding(wf.latest, wf.draft, "draft").content = wf.draft
    BY <2>1, HoldingType
  <2>3. QED
    BY <2>1, <2>2 DEF Labels
<1>8. ASSUME NEW t \in Clients, Pause(t) \/ Resume(t) PROVE TypeInv'
  <2>1. /\ wf' \in [status : Status \cup {"unborn", "deleted"}, latest : Version \cup {NoVersion},
                    active : Version \cup {NoVersion}, draft : Contents \cup {None}]
        /\ wf'.latest = wf.latest /\ wf'.draft = wf.draft /\ wf'.active = wf.active
        /\ RowExists /\ RowExists'
    BY <1>8, ZenonT(40) DEF Pause, Resume, Idle
  <2>2. /\ pc' = [pc EXCEPT ![t] = "unregister"] \/ pc' = [pc EXCEPT ![t] = "get_schedule"]
        /\ UNCHANGED <<versions, sched, job, gateway, view, snap, worker, late>>
    BY <1>8 DEF Pause, Resume, Goto
  <2>3. TypeOK'
    BY <2>1, <2>2 DEF Labels
  <2>4. QED
    BY <2>1, <2>2, <2>3
<1>9. CASE Fire
  <2>1. worker' \in {"idle", "dispatched", "running"} /\ job' \in Contents \cup {None}
    BY <1>9 DEF Fire
  <2>2. QED
    BY <1>9, <2>1 DEF Fire
<1>10. CASE FireSkipped \/ DispatchEnd
  BY <1>10 DEF FireSkipped, DispatchEnd
<1>11. CASE DispatchRun
  BY <1>11 DEF DispatchRun
<1>12. CASE GracePasses
  BY <1>12 DEF GracePasses
<1>13. CASE Crash
  <2>1. NoSnap \in Snap
    BY DEF NoSnap, Holding, Snap
  <2>2. QED
    BY <1>13, <2>1 DEF Crash, Labels
<1>14. CASE Start
  BY <1>14 DEF Start, Listed
<1>15. CASE UNCHANGED vars
  BY <1>15 DEF vars
<1>16. QED
  BY <1>1, <1>2, <1>3, <1>4, <1>5, <1>6, <1>7, <1>8, <1>9, <1>10, <1>11, <1>12, <1>13, <1>14,
     <1>15 DEF Next, Request, RequestStep, Worker

(***************************************************************************)
(* Type correctness, whatever the clients and the faults do: TypeOK.       *)
(***************************************************************************)
THEOREM TypeCorrect == Spec => []TypeOK
<1>1. TypeInv => TypeOK
  BY DEF TypeInv
<1>2. QED
  BY InitTypeInv, NextTypeInv, <1>1, PTL DEF Spec

(***************************************************************************)
(* A published workflow always has a stored active version: ActiveIsStored.*)
(***************************************************************************)
THEOREM ActiveAlwaysStored == Spec => []ActiveIsStored
<1>1. TypeInv => ActiveIsStored
  BY SMTT(30) DEF TypeInv, Stored, ActiveIsStored
<1>2. QED
  BY InitTypeInv, NextTypeInv, <1>1, PTL DEF Spec

(***************************************************************************)
(* The only steps that write workflow_versions.                            *)
(***************************************************************************)
LEMMA VersionsStep ==
    ASSUME TypeInv, [Next]_vars
    PROVE  \/ UNCHANGED versions
           \/ \E t \in Clients : DeleteWorkflow(t)
           \/ \E t \in Clients :
                  /\ InsertVersion(t)
                  /\ versions[snap[t].version] = None
                  /\ versions' = [versions EXCEPT ![snap[t].version] = snap[t].content]
                  /\ wf' = [wf EXCEPT !.active = snap[t].version, !.status = "active"]
<1>1. ASSUME NEW t \in Clients, InsertVersion(t)
      PROVE  \/ UNCHANGED versions
             \/ /\ versions[snap[t].version] = None
                /\ versions' = [versions EXCEPT ![snap[t].version] = snap[t].content]
                /\ wf' = [wf EXCEPT !.active = snap[t].version, !.status = "active"]
  BY <1>1 DEF InsertVersion, Inserts
<1>2. ASSUME NEW t \in Clients, NEW c \in Contents,
             CreateWorkflow(t, c) \/ SaveDraft(t, c) \/ ImportNodeRed(t, c)
      PROVE  UNCHANGED versions
  BY <1>2 DEF CreateWorkflow, SaveDraft, ImportNodeRed, db
<1>3. ASSUME NEW t \in Clients,
             OpenWorkflow(t) \/ PublishBegin(t) \/ Pause(t) \/ Resume(t)
      PROVE  UNCHANGED versions
  BY <1>3 DEF OpenWorkflow, PublishBegin, Pause, Resume, db
<1>4. ASSUME NEW t \in Clients,
             \/ CompareActive(t) \/ UpsertDraft(t) \/ StorePublish(t) \/ ComparePublished(t)
             \/ UpsertSchedule(t) \/ ListActive(t) \/ RegisterEnable(t) \/ AddJob(t)
             \/ RemoveJob(t) \/ DisableSchedule(t) \/ ResumeGetSchedule(t) \/ ResumeEnable(t)
      PROVE  UNCHANGED versions
  BY <1>4 DEF CompareActive, UpsertDraft, StorePublish, ComparePublished, UpsertSchedule,
              ListActive, RegisterEnable, AddJob, RemoveJob, DisableSchedule,
              ResumeGetSchedule, ResumeEnable, db
<1>5. CASE Worker \/ GracePasses \/ Crash \/ Start \/ UNCHANGED vars
  BY <1>5 DEF Worker, Fire, FireSkipped, DispatchRun, DispatchEnd, GracePasses, Crash, Start,
              db, vars
<1>6. QED
  BY <1>1, <1>2, <1>3, <1>4, <1>5 DEF Next, Request, RequestStep

(***************************************************************************)
(* No step, of any request or fault, changes a published version of a      *)
(* workflow that stays: PublishedImmutable.                                *)
(***************************************************************************)
THEOREM PublishedNeverChanges == Spec => PublishedImmutable
<1>1. ASSUME TypeInv, [Next]_vars
      PROVE  [RowExists /\ RowExists' =>
                \A v \in Version : versions[v] # None => versions'[v] = versions[v]]_vars
  <2> SUFFICES ASSUME RowExists', NEW v \in Version, versions[v] # None
               PROVE  versions'[v] = versions[v]
    OBVIOUS
  <2>1. versions \in [Version -> Contents \cup {None}]
    BY <1>1 DEF TypeInv, TypeOK
  <2>2. ASSUME NEW t \in Clients, DeleteWorkflow(t) PROVE FALSE
    BY <2>2 DEF DeleteWorkflow, RowExists, Status
  <2>3. QED
    BY <1>1, <2>1, <2>2, VersionsStep
<1>2. QED
  BY InitTypeInv, NextTypeInv, <1>1, PTL DEF Spec, PublishedImmutable

(***************************************************************************)
(* Without Node-RED imports (which bring back version 1) and deletions,    *)
(* version numbers stay in one line: VersionsLinear.  The invariant must   *)
(* also know that what a request has read and is about to write is not     *)
(* beyond the next number, however long ago it was read (active_version    *)
(* only grows), and that a tab has loaded nothing before the row exists.   *)
(***************************************************************************)
NothingYet ==
    ~RowExists => /\ \A v \in Version : versions[v] = None
                  /\ \A t \in Clients : view[t].version = NoVersion
NotBeyondNext(t) ==
    /\ pc[t] # "idle" => RowExists
    /\ pc[t] \in Publishing \cup Drafting => snap[t].version <= wf.active + 1
    /\ pc[t] = "compare_active" => snap[t].next <= wf.active + 1

LinearInv == VersionsLinear /\ NothingYet /\ \A t \in Clients : NotBeyondNext(t)

\* LinearInv holds before the workflow exists.
LEMMA InitLinearInv == Init => LinearInv
BY DEF Init, LinearInv, VersionsLinear, NothingYet, NotBeyondNext, RowExists, Status, NoVersion,
       Publishing, Drafting

\* A step that keeps the numbers, adds no publication, loads nothing into an empty tab and
\* reads nothing into a request that is going to write it.
LEMMA QuietLinear ==
    ASSUME LinearInv,
           UNCHANGED versions, wf'.latest = wf.latest, wf'.active = wf.active,
           RowExists' = RowExists,
           ~RowExists => UNCHANGED view,
           \A t \in Clients : pc'[t] # "idle" => RowExists,
           \A t \in Clients :
               \/ pc'[t] \notin Publishing \cup Drafting
               \/ snap'[t] = snap[t] /\ (pc'[t] = pc[t] \/ {pc[t], pc'[t]} \subseteq Publishing)
    PROVE  LinearInv'
<1>1. VersionsLinear' /\ NothingYet'
  BY DEF LinearInv, VersionsLinear, NothingYet
<1>2. ASSUME NEW t \in Clients PROVE NotBeyondNext(t)'
  <2>1. NotBeyondNext(t)
    BY DEF LinearInv
  <2>2. CASE pc'[t] \notin Publishing \cup Drafting
    BY <2>2 DEF NotBeyondNext, Drafting
  <2>3. CASE snap'[t] = snap[t] /\ pc'[t] = pc[t]
    BY <2>1, <2>3 DEF NotBeyondNext
  <2>4. CASE snap'[t] = snap[t] /\ {pc[t], pc'[t]} \subseteq Publishing
    BY <2>1, <2>4 DEF NotBeyondNext, Publishing
  <2>5. QED
    BY <2>2, <2>3, <2>4
<1>3. QED
  BY <1>1, <1>2 DEF LinearInv

\* The requests on drafts: the first row, the SELECT, the comparison and the upsert.
LEMMA DraftLinearInv ==
    ASSUME "import" \notin Ops, TypeInv, LinearInv, NEW t \in Clients,
           \/ \E c \in Contents : CreateWorkflow(t, c) \/ SaveDraft(t, c)
           \/ CompareActive(t) \/ UpsertDraft(t)
    PROVE  LinearInv'
<1> USE BoundAssumption DEF NoVersion
<1>1. /\ pc \in [Clients -> Labels] /\ snap \in [Clients -> Snap]
      /\ wf.active \in Version \cup {NoVersion}
      /\ \A u \in Clients : NotBeyondNext(u)
  BY DEF TypeInv, TypeOK, LinearInv
<1>2. ASSUME NEW c \in Contents, CreateWorkflow(t, c) PROVE LinearInv'
  <2>1. /\ ~RowExists
        /\ wf' = [status |-> "draft", latest |-> 1, active |-> NoVersion, draft |-> c]
        /\ RowExists'
        /\ UNCHANGED <<versions, pc, snap>>
    BY <1>2 DEF CreateWorkflow, NewRow, RowExists, Status
  <2>2. \A v \in Version : v > 0 /\ versions[v] = None
    BY <2>1 DEF LinearInv, NothingYet, Version
  <2>3. \A u \in Clients : pc[u] = "idle"
    BY <1>1, <2>1 DEF NotBeyondNext
  <2>4. \A u \in Clients : NotBeyondNext(u)'
    BY <2>1, <2>3 DEF NotBeyondNext, Publishing, Drafting
  <2>5. VersionsLinear' /\ NothingYet'
    BY <2>1, <2>2 DEF VersionsLinear, NothingYet, Version
  <2>6. QED
    BY <2>4, <2>5 DEF LinearInv
<1>3. ASSUME NEW c \in Contents, SaveDraft(t, c) PROVE LinearInv'
  <2> DEFINE v == view[t].version
             s == view[t].status
  <2>1. /\ RowExists
        /\ v = wf.latest
        /\ SelectRow(t, v, c, s)
        /\ UNCHANGED <<wf, versions, view>>
    BY <1>3 DEF SaveDraft, LinearInv, NothingYet, db
  <2>2. /\ v \in Version /\ v <= wf.active + 1
    BY <1>1, <2>1 DEF TypeInv, TypeOK, RowIsFilled, LinearInv, VersionsLinear, Version
  <2>3. VersionsLinear' /\ NothingYet'
    BY <2>1 DEF LinearInv, VersionsLinear, NothingYet, RowExists
  <2>4. CASE MustCompare(v)
    <3>1. /\ snap' = [snap EXCEPT ![t] = [version |-> v, content |-> c, status |-> s,
                                          next |-> NextNumber, active |-> wf.active]]
          /\ pc' = [pc EXCEPT ![t] = "compare_active"]
          /\ NextNumber = wf.active + 1
      BY <1>1, <2>1, <2>2, <2>4 DEF SelectRow, Goto, MustCompare, NextNumber, Version
    <3>2. ASSUME NEW u \in Clients PROVE NotBeyondNext(u)'
      <4>1. CASE u = t
        <5>1. /\ RowExists' /\ wf'.active = wf.active
              /\ snap'[u].version = v /\ snap'[u].next = wf.active + 1
          BY <1>1, <2>1, <3>1, <4>1 DEF RowExists
        <5>2. QED
          BY <1>1, <2>2, <5>1 DEF NotBeyondNext, Version
      <4>2. CASE u # t
        BY <1>1, <2>1, <3>1, <4>2 DEF NotBeyondNext, RowExists
      <4>3. QED
        BY <4>1, <4>2
    <3>3. QED
      BY <2>3, <3>2 DEF LinearInv
  <2>5. CASE ~MustCompare(v)
    <3>1. /\ snap' = [snap EXCEPT ![t] = Holding(v, c, s)]
          /\ pc' = [pc EXCEPT ![t] = "upsert_draft"]
      BY <2>1, <2>5 DEF SelectRow, Goto
    <3>2. ASSUME NEW u \in Clients PROVE NotBeyondNext(u)'
      <4>1. CASE u = t
        <5>1. /\ RowExists' /\ wf'.active = wf.active
              /\ snap'[u].version = v /\ pc'[u] = "upsert_draft"
          BY <1>1, <2>1, <3>1, <4>1 DEF RowExists, Holding
        <5>2. QED
          BY <2>2, <5>1 DEF NotBeyondNext
      <4>2. CASE u # t
        BY <1>1, <2>1, <3>1, <4>2 DEF NotBeyondNext, RowExists
      <4>3. QED
        BY <4>1, <4>2
    <3>3. QED
      BY <2>3, <3>2 DEF LinearInv
  <2>6. QED
    BY <2>4, <2>5
<1>4. CASE CompareActive(t)
  <2> DEFINE number == IF versions[snap[t].active] # snap[t].content THEN snap[t].next
                                                                     ELSE snap[t].version
  <2>1. /\ pc[t] = "compare_active"
        /\ pc' = [pc EXCEPT ![t] = "upsert_draft"]
        /\ snap' = [snap EXCEPT ![t] = Holding(number, snap[t].content, snap[t].status)]
        /\ UNCHANGED <<wf, versions, view>>
    BY <1>4 DEF CompareActive, Goto, db
  <2>2. number <= wf.active + 1
    BY <1>1, <2>1 DEF NotBeyondNext, Drafting
  <2>3. VersionsLinear' /\ NothingYet'
    BY <2>1 DEF LinearInv, VersionsLinear, NothingYet, RowExists
  <2>4. ASSUME NEW u \in Clients PROVE NotBeyondNext(u)'
    <3>1. CASE u = t
      <4>1. /\ RowExists' /\ wf'.active = wf.active
            /\ snap'[u].version = number /\ pc'[u] = "upsert_draft"
        BY <1>1, <2>1, <3>1 DEF RowExists, NotBeyondNext, Holding
      <4>2. QED
        BY <2>2, <4>1 DEF NotBeyondNext
    <3>2. CASE u # t
      BY <1>1, <2>1, <3>2 DEF NotBeyondNext, RowExists
    <3>3. QED
      BY <3>1, <3>2
  <2>5. QED
    BY <2>3, <2>4 DEF LinearInv
<1>5. CASE UpsertDraft(t)
  <2>1. /\ pc[t] = "upsert_draft" /\ RowExists
        /\ StoreDraft(snap[t])
        /\ pc' = [pc EXCEPT ![t] = "idle"]
        /\ snap' = [snap EXCEPT ![t] = NoSnap]
        /\ UNCHANGED versions
        /\ snap[t].version <= wf.active + 1
    BY <1>1, <1>5 DEF UpsertDraft, Answer, Goto, NotBeyondNext, Drafting
  <2>2. /\ snap[t] \in Snap /\ snap[t].version \in Version /\ snap[t].content \in Contents
    BY <1>1, <2>1 DEF TypeInv, SnapIsDraft, Drafting
  <2>3. wf'.latest = snap[t].version /\ wf'.active = wf.active /\ RowExists'
    BY <2>1, <2>2, StoreDraftEffect
  <2>4. VersionsLinear' /\ NothingYet'
    <3>1. wf'.latest \in 1 .. (wf'.active + 1)
      BY <1>1, <2>1, <2>2, <2>3 DEF Version
    <3>2. QED
      BY <2>1, <2>3, <3>1 DEF LinearInv, VersionsLinear, NothingYet
  <2>5. ASSUME NEW u \in Clients PROVE NotBeyondNext(u)'
    BY <1>1, <2>1, <2>3 DEF NotBeyondNext, Publishing, Drafting
  <2>6. QED
    BY <2>4, <2>5 DEF LinearInv
<1>6. QED
  BY <1>2, <1>3, <1>4, <1>5

\* A publication: only the number after active_version is free, so the INSERT succeeds for
\* that one alone.
LEMMA PublishLinearInv ==
    ASSUME TypeInv, LinearInv, NEW t \in Clients,
           PublishBegin(t) \/ StorePublish(t) \/ ComparePublished(t) \/ InsertVersion(t)
    PROVE  LinearInv'
<1> USE BoundAssumption DEF NoVersion
<1>1. /\ pc \in [Clients -> Labels] /\ snap \in [Clients -> Snap]
      /\ wf.active \in Version \cup {NoVersion}
      /\ \A u \in Clients : NotBeyondNext(u)
  BY DEF TypeInv, TypeOK, LinearInv
<1>2. CASE PublishBegin(t)
  <2>1. /\ RowExists
        /\ UNCHANGED <<wf, versions, view>>
        /\ pc' = [pc EXCEPT ![t] = "store_publish"]
        /\ snap' = [snap EXCEPT ![t] = Holding(wf.latest, wf.draft, "draft")]
    BY <1>2 DEF PublishBegin, Goto, db
  <2>2. wf.latest <= wf.active + 1
    BY <1>1, <2>1 DEF LinearInv, VersionsLinear, Version
  <2>3. VersionsLinear' /\ NothingYet'
    BY <2>1 DEF LinearInv, VersionsLinear, NothingYet, RowExists
  <2>4. ASSUME NEW u \in Clients PROVE NotBeyondNext(u)'
    <3>1. CASE u = t
      <4>1. /\ RowExists' /\ wf'.active = wf.active
            /\ snap'[u].version = wf.latest /\ pc'[u] = "store_publish"
        BY <1>1, <2>1, <3>1 DEF RowExists, Holding
      <4>2. QED
        BY <2>2, <4>1 DEF NotBeyondNext
    <3>2. CASE u # t
      BY <1>1, <2>1, <3>2 DEF NotBeyondNext, RowExists
    <3>3. QED
      BY <3>1, <3>2
  <2>5. QED
    BY <2>3, <2>4 DEF LinearInv
<1>3. CASE StorePublish(t) \/ ComparePublished(t) \/ InsertVersion(t)
  <2>1. /\ pc[t] \in Publishing /\ RowExists
        /\ snap[t].version \in Version /\ snap[t].content \in Contents
        /\ snap[t].version <= wf.active + 1
        /\ wf.latest \in 1 .. (wf.active + 1)
        /\ \A v \in Version : versions[v] # None <=> v <= wf.active
    <3>1. pc[t] \in Publishing
      BY <1>3 DEF StorePublish, ComparePublished, InsertVersion, Publishing
    <3>2. RowExists
      BY <1>1, <3>1 DEF NotBeyondNext, Publishing
    <3>3. QED
      BY <1>1, <3>1, <3>2 DEF NotBeyondNext, LinearInv, VersionsLinear, TypeInv, SnapIsDraft
  <2>2. \A u \in Clients :
            \/ pc'[u] \notin Publishing \cup Drafting
            \/ snap'[u] = snap[u] /\ (pc'[u] = pc[u] \/ {pc[u], pc'[u]} \subseteq Publishing)
    <3>1. CASE AfterStorePublish(t) \/ (Answer(t) /\ UNCHANGED view)
      BY <2>1, <3>1, AfterPublishTypes DEF Publishing, Drafting
    <3>2. CASE /\ Goto(t, "compare_published") \/ Goto(t, "insert_version")
               /\ UNCHANGED <<snap, view>>
      BY <1>1, <2>1, <3>2 DEF Goto, Publishing
    <3>3. QED
      BY <1>3, <3>1, <3>2 DEF StorePublish, ComparePublished, InsertVersion
  <2>3. CASE UNCHANGED <<wf, versions>>
    BY <2>1, <2>2, <2>3, QuietLinear DEF RowExists
  <2>4. CASE /\ versions[snap[t].version] = None
             /\ versions' = [versions EXCEPT ![snap[t].version] = snap[t].content]
             /\ wf' = [wf EXCEPT !.active = snap[t].version, !.status = "active"]
    <3>1. snap[t].version = wf.active + 1
      BY <1>1, <2>1, <2>4 DEF Version
    <3>2. /\ wf'.active = wf.active + 1 /\ wf'.latest = wf.latest
          /\ RowExists'
      BY <2>4, <3>1 DEF TypeInv, TypeOK, RowExists, Status
    <3>3. \A v \in Version : versions'[v] # None <=> v <= wf'.active
      BY <1>1, <2>1, <2>4, <3>1, <3>2, ContentsAssumption DEF TypeInv, TypeOK, Version
    <3>4. ASSUME NEW u \in Clients PROVE NotBeyondNext(u)'
      <4>1. CASE pc'[u] \notin Publishing \cup Drafting
        BY <3>2, <4>1 DEF NotBeyondNext, Drafting
      <4>2. CASE /\ pc'[u] \in Publishing \cup Drafting
                 /\ snap'[u] = snap[u]
                 /\ pc'[u] = pc[u] \/ {pc[u], pc'[u]} \subseteq Publishing
        <5>1. /\ snap'[u].version \in Version /\ snap'[u].version <= wf.active + 1
              /\ pc'[u] = "compare_active" =>
                    snap'[u].next \in Version /\ snap'[u].next <= wf.active + 1
          BY <1>1, <4>2 DEF NotBeyondNext, TypeInv, SnapIsDraft, Publishing, Drafting
        <5>2. QED
          BY <1>1, <3>2, <5>1 DEF NotBeyondNext, Version
      <4>3. QED
        BY <2>2, <4>1, <4>2
    <3>5. VersionsLinear' /\ NothingYet'
      BY <1>1, <2>1, <3>2, <3>3 DEF VersionsLinear, NothingYet, Version
    <3>6. QED
      BY <3>4, <3>5 DEF LinearInv
  <2>5. QED
    BY <1>3, <2>3, <2>4 DEF StorePublish, ComparePublished, InsertVersion, Inserts, db
<1>4. QED
  BY <1>2, <1>3

\* LinearInv is inductive relative to TypeInv: one step per kind of action.
LEMMA NextLinearInv ==
    ASSUME "import" \notin Ops, "delete" \notin Ops, TypeInv, LinearInv, [Next]_vars
    PROVE  LinearInv'
<1>1. ASSUME NEW t \in Clients,
             \/ \E c \in Contents : CreateWorkflow(t, c) \/ SaveDraft(t, c)
             \/ CompareActive(t) \/ UpsertDraft(t)
      PROVE  LinearInv'
  BY <1>1, DraftLinearInv
<1>2. ASSUME NEW t \in Clients,
             PublishBegin(t) \/ StorePublish(t) \/ ComparePublished(t) \/ InsertVersion(t)
      PROVE  LinearInv'
  BY <1>2, PublishLinearInv
<1>3. \A u \in Clients : pc[u] # "idle" => RowExists
  BY DEF LinearInv, NotBeyondNext
<1>4. ASSUME NEW t \in Clients, OpenWorkflow(t) PROVE LinearInv'
  BY <1>3, <1>4, QuietLinear DEF OpenWorkflow, RowExists, db
<1>5. ASSUME NEW t \in Clients, Pause(t) \/ Resume(t) PROVE LinearInv'
  <2>1. /\ RowExists' /\ RowExists /\ wf'.latest = wf.latest /\ wf'.active = wf.active
        /\ UNCHANGED <<versions, view, snap>>
    BY <1>5 DEF Pause, Resume, RowExists, Status, TypeInv, TypeOK
  <2>2. \A u \in Clients : pc'[u] \notin Publishing \cup Drafting \/ pc'[u] = pc[u]
    BY <1>5 DEF Pause, Resume, Goto, TypeInv, TypeOK, Publishing, Drafting
  <2>3. QED
    BY <2>1, <2>2, QuietLinear
<1>6. ASSUME NEW t \in Clients,
             \/ UpsertSchedule(t) \/ ListActive(t) \/ RegisterEnable(t) \/ AddJob(t)
             \/ RemoveJob(t) \/ DisableSchedule(t) \/ ResumeGetSchedule(t) \/ ResumeEnable(t)
      PROVE  LinearInv'
  <2>1. UNCHANGED <<wf, versions>>
    BY <1>6 DEF UpsertSchedule, ListActive, RegisterEnable, AddJob, RemoveJob, DisableSchedule,
                ResumeGetSchedule, ResumeEnable, db
  <2>2. /\ \A u \in Clients : u # t => pc'[u] = pc[u] /\ snap'[u] = snap[u]
        /\ pc'[t] \notin Publishing \cup Drafting
    BY <1>6 DEF UpsertSchedule, ListActive, RegisterEnable, AddJob, RemoveJob, DisableSchedule,
                ResumeGetSchedule, ResumeEnable, Goto, Answer, TypeInv, TypeOK, Publishing,
                Drafting
  <2>3. RowExists
    BY <1>3, <1>6 DEF UpsertSchedule, ListActive, RegisterEnable, AddJob, RemoveJob,
                DisableSchedule, ResumeGetSchedule, ResumeEnable
  <2>4. QED
    BY <2>1, <2>2, <2>3, QuietLinear DEF RowExists
<1>7. CASE Worker \/ GracePasses \/ Start \/ UNCHANGED vars
  <2>1. UNCHANGED <<wf, versions, view, pc, snap>>
    BY <1>7 DEF Worker, Fire, FireSkipped, DispatchRun, DispatchEnd, GracePasses, Start, db, vars
  <2>2. QED
    BY <1>3, <2>1, QuietLinear DEF RowExists
<1>8. CASE Crash
  <2>1. UNCHANGED <<wf, versions, view>> /\ \A u \in Clients : pc'[u] = "idle"
    BY <1>8 DEF Crash, db
  <2>2. \A u \in Clients : pc'[u] \notin Publishing \cup Drafting
    BY <2>1 DEF Publishing, Drafting
  <2>3. QED
    BY <2>1, <2>2, QuietLinear DEF RowExists
<1>9. ASSUME NEW t \in Clients,
             (\E c \in Contents : ImportNodeRed(t, c)) \/ DeleteWorkflow(t)
       PROVE  FALSE
  BY <1>9 DEF ImportNodeRed, DeleteWorkflow
<1>10. CASE \E t \in Clients : Request(t)
  BY <1>1, <1>2, <1>4, <1>5, <1>9, <1>10 DEF Request
<1>11. CASE \E t \in Clients : RequestStep(t)
  BY <1>1, <1>2, <1>6, <1>11 DEF RequestStep
<1>12. QED
  BY <1>7, <1>8, <1>10, <1>11 DEF Next

(***************************************************************************)
(* Versions form one line whatever saves and publications interleave.      *)
(***************************************************************************)
THEOREM VersionsStayLinear ==
    ASSUME "import" \notin Ops, "delete" \notin Ops
    PROVE  Spec => []VersionsLinear
<1>1. TypeInv /\ LinearInv /\ [Next]_vars => LinearInv'
  BY NextLinearInv
<1>2. LinearInv => VersionsLinear
  BY DEF LinearInv
<1>3. QED
  BY InitTypeInv, NextTypeInv, InitLinearInv, <1>1, <1>2, PTL DEF Spec

(***************************************************************************)
(* The job agrees with the rows between the requests of ONE tab, wherever  *)
(* the Gateway stops and starts again: JobMatchesStore.  Two tabs break it *)
(* (no lock spans a request); so do the other kinds of trigger: a date job *)
(* is gone once fired, an invalid one is listed without a job, and a       *)
(* manual republication leaves the old schedule.  A tab that saves writes  *)
(* back the status it has loaded, which is stale after a crash and brings  *)
(* back a deleted row, so it is assumed to save only without these.  The   *)
(* account may schedule: refused after the version was activated, a        *)
(* publication leaves the schedule it had.                                 *)
(***************************************************************************)
MaySchedule == "deny" \notin Ops
OneTab == Clients # {} /\ \A t, u \in Clients : t = u
AllRecurring == \A c \in Contents : TriggerOf[c] = "recurring"
SavesCurrentStatus == "save" \in Ops => "crash" \notin Ops /\ "delete" \notin Ops

(***************************************************************************)
(* The inductive invariant: what holds at each point of a request, so that *)
(* its end, or a restart at that point, finds the job and the rows in      *)
(* step.                                                                   *)
(***************************************************************************)
AtRest(t) == pc[t] \in {"idle"} \cup Publishing \cup Drafting

DownIsIdle == gateway = "down" => job = None /\ \A t \in Clients : pc[t] = "idle"
ScheduleOfPublication ==
    /\ sched.enabled => sched.exists
    /\ sched.exists => RowExists /\ wf.active # NoVersion /\ sched.trigger \in Contents
JobHasSchedule == wf.status # "deleted" /\ ~sched.exists => job = None
PausedHasNoJob ==
    wf.status = "paused" => job = None \/ \E t \in Clients : pc[t] = "unregister"
Registered ==
    \A t \in Clients :
        gateway = "up" /\ AtRest(t) /\ wf.status = "active" =>
            job = (IF Listed THEN sched.trigger ELSE None)
Midway ==
    \A t \in Clients :
        /\ pc[t] # "idle" => RowExists
        /\ pc[t] \in Drafting => snap[t].status \in {wf.status, "draft"}
        /\ pc[t] = "compare_published" => wf.active = snap[t].version
        /\ pc[t] \in {"upsert_schedule", "list_active"} =>
              wf.active # NoVersion /\ snap[t].content \in Contents
        /\ pc[t] = "list_active" => sched.enabled
        /\ pc[t] \in {"get_schedule", "enable_schedule", "register", "add_job"} =>
              wf.status = "active"
        /\ pc[t] \in {"enable_schedule", "register", "add_job"} =>
              sched.exists /\ snap[t].content = sched.trigger
        /\ pc[t] = "add_job" => sched.enabled
        /\ pc[t] \in {"unregister", "disable_schedule"} => wf.status = "paused"
        /\ pc[t] = "disable_schedule" => job = None
ViewIsCurrent ==
    "save" \in Ops =>
        \A t \in Clients :
            \/ view[t].version = NoVersion
            \/ RowExists /\ view[t].status = wf.status
            \/ wf.status = "active" /\ pc[t] \in {"upsert_schedule", "list_active"}
            \/ ~AtRest(t) /\ pc[t] \notin {"upsert_schedule", "list_active"}

JobInv ==
    /\ DownIsIdle /\ ScheduleOfPublication /\ JobHasSchedule /\ PausedHasNoJob
    /\ Registered /\ Midway /\ ViewIsCurrent

\* JobInv holds initially.
LEMMA InitJobInv == Init => JobInv
BY DEF Init, JobInv, DownIsIdle, ScheduleOfPublication, JobHasSchedule, PausedHasNoJob, Registered,
       Midway, ViewIsCurrent, RowExists, Status, NoSchedule, NoVersion, AtRest, Publishing, Drafting

\* The requests on drafts change the row and the view, and leave schedule and job alone.
LEMMA DraftJobInv ==
    ASSUME OneTab, SavesCurrentStatus, TypeInv, JobInv, NEW t \in Clients,
           \/ \E c \in Contents : CreateWorkflow(t, c) \/ SaveDraft(t, c) \/ ImportNodeRed(t, c)
           \/ CompareActive(t) \/ UpsertDraft(t)
    PROVE  JobInv'
<1> USE DEF OneTab, Idle, AtRest, Listed, NoVersion, Publishing, Drafting
<1> DEFINE Mapped == DownIsIdle /\ ScheduleOfPublication /\ JobHasSchedule /\ PausedHasNoJob
<1>1. /\ pc \in [Clients -> Labels] /\ snap \in [Clients -> Snap]
      /\ view \in [Clients -> [version : Version \cup {NoVersion}, status : Status]]
  BY DEF TypeInv, TypeOK
<1>2. ASSUME NEW c \in Contents, CreateWorkflow(t, c) PROVE JobInv'
  <2>1. /\ wf.status = "unborn" /\ ~RowExists /\ gateway = "up"
        /\ wf' = [status |-> "draft", latest |-> 1, active |-> NoVersion, draft |-> c]
        /\ view' = [view EXCEPT ![t] = [version |-> 1, status |-> "draft"]]
        /\ UNCHANGED <<sched, job, gateway, pc, snap>>
        /\ RowExists'
    BY <1>2 DEF CreateWorkflow, NewRow, RowExists, Status
  <2>2. ~sched.exists /\ ~sched.enabled /\ job = None /\ pc[t] = "idle"
    BY <1>2, <2>1 DEF JobInv, ScheduleOfPublication, JobHasSchedule, CreateWorkflow
  <2>3. view'[t].status = "draft"
    BY <1>1, <2>1
  <2>4. Mapped' /\ Registered'
    BY <2>1, <2>2 DEF DownIsIdle, ScheduleOfPublication, JobHasSchedule, PausedHasNoJob, Registered
  <2>5. Midway' /\ ViewIsCurrent'
    BY <2>1, <2>2, <2>3 DEF Midway, ViewIsCurrent
  <2>6. QED
    BY <2>4, <2>5 DEF JobInv
<1>3. ASSUME NEW c \in Contents, SaveDraft(t, c) \/ ImportNodeRed(t, c) PROVE JobInv'
  <2>1. /\ gateway = "up" /\ pc[t] = "idle" /\ RowExists
        /\ "save" \in Ops /\ view[t].version # NoVersion => view[t].status = wf.status
        /\ \E v, s : SelectRow(t, v, c, s) /\ s \in {wf.status, "draft"}
        /\ UNCHANGED <<wf, sched, job, gateway, view>>
    <3>1. CASE SaveDraft(t, c)
      <4>1. "save" \in Ops /\ view[t].version # NoVersion /\ pc[t] = "idle"
        BY <3>1 DEF SaveDraft
      <4>2. RowExists /\ view[t].status = wf.status
        BY <4>1 DEF JobInv, ViewIsCurrent
      <4>3. QED
        BY <3>1, <4>2 DEF SaveDraft, db
    <3>2. CASE ImportNodeRed(t, c)
      BY <3>2 DEF ImportNodeRed, db, JobInv, ViewIsCurrent
    <3>3. QED
      BY <1>3, <3>1, <3>2
  <2>2. PICK v, s : SelectRow(t, v, c, s) /\ s \in {wf.status, "draft"}
    BY <2>1
  <2>3. /\ pc'[t] \in Drafting /\ snap'[t].status = s
    BY <1>1, <2>2 DEF SelectRow, Goto, Holding
  <2>4. RowExists'
    BY <2>1 DEF RowExists
  <2>5. Mapped' /\ Registered'
    BY <2>1, <2>3, <2>4
       DEF JobInv, DownIsIdle, ScheduleOfPublication, JobHasSchedule, PausedHasNoJob, Registered
  <2>6. Midway' /\ ViewIsCurrent'
    BY <2>1, <2>2, <2>3, <2>4 DEF JobInv, Midway, ViewIsCurrent
  <2>7. QED
    BY <2>5, <2>6 DEF JobInv
<1>4. CASE CompareActive(t)
  <2>1. /\ pc[t] = "compare_active"
        /\ pc'[t] = "upsert_draft" /\ snap'[t].status = snap[t].status
        /\ UNCHANGED <<wf, sched, job, gateway, view>>
    BY <1>1, <1>4 DEF CompareActive, Goto, Holding, db
  <2>2. RowExists /\ RowExists' /\ gateway = "up"
    BY <2>1 DEF JobInv, Midway, DownIsIdle, RowExists, TypeInv, TypeOK
  <2>3. Mapped' /\ Registered'
    BY <2>1, <2>2
       DEF JobInv, DownIsIdle, ScheduleOfPublication, JobHasSchedule, PausedHasNoJob, Registered
  <2>4. Midway' /\ ViewIsCurrent'
    BY <2>1, <2>2 DEF JobInv, Midway, ViewIsCurrent
  <2>5. QED
    BY <2>3, <2>4 DEF JobInv
<1>5. CASE UpsertDraft(t)
  <2>1. /\ pc[t] = "upsert_draft"
        /\ StoreDraft(snap[t])
        /\ view' = [view EXCEPT ![t] = [version |-> snap[t].version, status |-> snap[t].status]]
        /\ UNCHANGED <<sched, job, gateway>>
        /\ pc'[t] = "idle"
    BY <1>1, <1>5 DEF UpsertDraft, Answer, Goto
  <2>2. /\ RowExists /\ gateway = "up" /\ snap[t].status \in {wf.status, "draft"}
    BY <2>1 DEF JobInv, Midway, DownIsIdle, TypeInv, TypeOK
  <2>3. /\ snap[t] \in Snap /\ snap[t].version \in Version /\ snap[t].content \in Contents
    BY <1>1, <2>1 DEF TypeInv, SnapIsDraft
  <2>4. /\ wf'.status = snap[t].status /\ wf'.active = wf.active
        /\ RowExists'
    BY <2>1, <2>3, StoreDraftEffect
  <2>5. view'[t].status = wf'.status
    BY <1>1, <2>1, <2>4
  <2>6. wf.status # "deleted"
    BY <2>2 DEF RowExists, Status
  <2>7. Mapped' /\ Registered'
    BY <2>1, <2>2, <2>4, <2>6
       DEF JobInv, DownIsIdle, ScheduleOfPublication, JobHasSchedule, PausedHasNoJob, Registered
  <2>8. Midway' /\ ViewIsCurrent'
    BY <2>1, <2>2, <2>4, <2>5 DEF JobInv, Midway, ViewIsCurrent
  <2>9. QED
    BY <2>7, <2>8 DEF JobInv
<1>6. QED
  BY <1>2, <1>3, <1>4, <1>5

\* A publication up to its transaction: afterwards the row is active, or as it was.
LEMMA PublishJobInv ==
    ASSUME OneTab, AllRecurring, MaySchedule, TypeInv, JobInv, NEW t \in Clients,
           StorePublish(t) \/ ComparePublished(t) \/ InsertVersion(t)
    PROVE  JobInv'
<1> USE DEF OneTab, AtRest, Listed, Publishing, Drafting
<1> DEFINE Mapped == DownIsIdle /\ ScheduleOfPublication /\ JobHasSchedule /\ PausedHasNoJob
<1>1. /\ pc[t] \in Publishing
      /\ UNCHANGED <<sched, job, gateway>>
      /\ pc \in [Clients -> Labels]
      /\ snap \in [Clients -> Snap]
  BY DEF StorePublish, ComparePublished, InsertVersion, TypeInv, TypeOK, db
<1>2. /\ RowExists /\ gateway = "up" /\ wf.status # "deleted"
      /\ snap[t].version \in Version /\ snap[t].content \in Contents
      /\ TriggerOf[snap[t].content] = "recurring"
      /\ snap[t].version # NoVersion
  BY <1>1 DEF TypeInv, TypeOK, SnapIsDraft, JobInv, DownIsIdle, Midway, AllRecurring, Version,
              NoVersion, RowExists, Status
<1>3. CASE /\ UNCHANGED <<wf, view>>
           /\ pc'[t] \in {"idle"} \cup Publishing
           /\ pc'[t] = "compare_published" => wf.active = snap'[t].version
  <2>1. RowExists'
    BY <1>2, <1>3 DEF RowExists
  <2>2. Mapped' /\ Registered'
    BY <1>1, <1>2, <1>3, <2>1
       DEF JobInv, DownIsIdle, ScheduleOfPublication, JobHasSchedule, PausedHasNoJob, Registered
  <2>3. Midway' /\ ViewIsCurrent'
    BY <1>1, <1>2, <1>3, <2>1 DEF JobInv, Midway, ViewIsCurrent
  <2>4. QED
    BY <2>2, <2>3 DEF JobInv
<1>4. CASE /\ AfterStorePublish(t)
           /\ \/ UNCHANGED wf /\ wf.active = snap[t].version
              \/ wf' = [wf EXCEPT !.active = snap[t].version, !.status = "active"]
  <2>1. /\ pc' = [pc EXCEPT ![t] = "upsert_schedule"]
        /\ UNCHANGED <<snap, view>>
        /\ pc'[t] = "upsert_schedule"
    BY <1>1, <1>2, <1>4 DEF AfterStorePublish, Goto, MaySchedule
  <2>2. /\ wf'.active # NoVersion /\ wf'.status \in {wf.status, "active"}
        /\ RowExists'
    BY <1>2, <1>4 DEF TypeInv, TypeOK, RowExists, Status
  <2>3. Mapped' /\ Registered'
    BY <1>1, <1>2, <2>1, <2>2
       DEF JobInv, DownIsIdle, ScheduleOfPublication, JobHasSchedule, PausedHasNoJob, Registered
  <2>4. Midway' /\ ViewIsCurrent'
    BY <1>1, <1>2, <2>1, <2>2 DEF JobInv, Midway, ViewIsCurrent
  <2>5. QED
    BY <2>3, <2>4 DEF JobInv
<1>5. CASE StorePublish(t)
  <2>1. /\ pc'[t] \in {"compare_published", "insert_version"}
        /\ pc'[t] = "compare_published" => wf.active = snap[t].version
        /\ UNCHANGED <<wf, view, snap>>
    BY <1>1, <1>2, <1>5 DEF StorePublish, Goto, db
  <2>2. QED
    BY <1>3, <2>1
<1>6. CASE ComparePublished(t)
  <2>1. CASE AfterStorePublish(t)
    BY <1>4, <1>6, <2>1 DEF ComparePublished, db, JobInv, Midway
  <2>2. CASE Goto(t, "insert_version") /\ UNCHANGED <<snap, view>>
    BY <1>1, <1>3, <1>6, <2>2 DEF ComparePublished, Goto, db
  <2>3. QED
    BY <1>6, <2>1, <2>2 DEF ComparePublished
<1>7. CASE InsertVersion(t)
  <2>1. CASE Answer(t) /\ UNCHANGED <<wf, view>>
    BY <1>1, <1>3, <2>1 DEF Answer, Goto
  <2>2. CASE /\ AfterStorePublish(t)
             /\ wf' = [wf EXCEPT !.active = snap[t].version, !.status = "active"]
    BY <1>4, <2>2
  <2>3. QED
    BY <1>7, <2>1, <2>2 DEF InsertVersion
<1>8. QED
  BY <1>5, <1>6, <1>7

\* The steps of a request on the schedule and the job, one per label.
LEMMA ScheduleJobInv ==
    ASSUME OneTab, AllRecurring, TypeInv, JobInv, NEW t \in Clients,
           \/ UpsertSchedule(t) \/ ListActive(t) \/ RegisterEnable(t) \/ AddJob(t)
           \/ RemoveJob(t) \/ DisableSchedule(t) \/ ResumeGetSchedule(t) \/ ResumeEnable(t)
    PROVE  JobInv'
<1> USE DEF OneTab, AtRest, Listed, db, NoVersion, Publishing, Drafting
<1> DEFINE Mapped == DownIsIdle /\ ScheduleOfPublication /\ JobHasSchedule /\ PausedHasNoJob
<1>1. /\ pc[t] # "idle" /\ gateway = "up" /\ RowExists
      /\ UNCHANGED <<wf, gateway>>
      /\ RowExists'
      /\ wf.status # "deleted"
      /\ sched \in [exists : BOOLEAN, enabled : BOOLEAN, trigger : Contents \cup {None}]
      /\ pc \in [Clients -> Labels]
  BY DEF UpsertSchedule, ListActive, RegisterEnable, AddJob, RemoveJob, DisableSchedule,
         ResumeGetSchedule, ResumeEnable, JobInv, DownIsIdle, Midway, RowExists, TypeInv, TypeOK,
         Status
<1>2. /\ snap \in [Clients -> Snap]
      /\ view \in [Clients -> [version : Version \cup {NoVersion}, status : Status]]
  BY DEF TypeInv, TypeOK
<1>3. ASSUME UpsertSchedule(t) PROVE JobInv'
  <2>1. /\ pc[t] = "upsert_schedule" /\ UNCHANGED <<job, view, snap>>
        /\ sched' = [exists |-> TRUE, enabled |-> TRUE, trigger |-> snap[t].content]
        /\ pc' = [pc EXCEPT ![t] = "list_active"]
        /\ pc'[t] = "list_active"
    BY <1>1, <1>3 DEF UpsertSchedule, Goto
  <2>2. wf.active # NoVersion /\ snap[t].content \in Contents
    BY <2>1 DEF JobInv, Midway
  <2>3. Mapped' /\ Registered'
    BY <1>1, <2>1, <2>2
       DEF JobInv, DownIsIdle, ScheduleOfPublication, JobHasSchedule, PausedHasNoJob, Registered
  <2>4. Midway' /\ ViewIsCurrent'
    BY <1>1, <2>1, <2>2 DEF JobInv, Midway, ViewIsCurrent
  <2>5. QED
    BY <2>3, <2>4 DEF JobInv
<1>4. ASSUME ListActive(t) PROVE JobInv'
  <2>1. /\ pc[t] = "list_active" /\ UNCHANGED <<sched, job, view>>
        /\ sched.enabled /\ sched.exists /\ wf.active # NoVersion
    BY <1>4 DEF ListActive, JobInv, Midway, ScheduleOfPublication
  <2>2. CASE Listed
    <3>1. /\ snap' = [snap EXCEPT ![t].content = sched.trigger]
          /\ pc' = [pc EXCEPT ![t] = "register"]
          /\ pc'[t] = "register" /\ snap'[t].content = sched.trigger
      BY <1>1, <1>2, <1>4, <2>2 DEF ListActive, Goto, Snap
    <3>2. Mapped' /\ Registered'
      BY <1>1, <2>1, <2>2, <3>1
         DEF JobInv, DownIsIdle, ScheduleOfPublication, JobHasSchedule, PausedHasNoJob, Registered
    <3>3. Midway' /\ ViewIsCurrent'
      BY <1>1, <2>1, <2>2, <3>1 DEF JobInv, Midway, ViewIsCurrent
    <3>4. QED
      BY <3>2, <3>3 DEF JobInv
  <2>3. CASE ~Listed
    <3>1. /\ pc' = [pc EXCEPT ![t] = "idle"]
          /\ pc'[t] = "idle" /\ wf.status # "active"
      BY <1>1, <1>4, <2>1, <2>3 DEF ListActive, Answer, Goto
    <3>2. Mapped' /\ Registered'
      BY <1>1, <2>1, <2>3, <3>1
         DEF JobInv, DownIsIdle, ScheduleOfPublication, JobHasSchedule, PausedHasNoJob, Registered
    <3>3. Midway' /\ ViewIsCurrent'
      BY <1>1, <2>1, <2>3, <3>1 DEF JobInv, Midway, ViewIsCurrent
    <3>4. QED
      BY <3>2, <3>3 DEF JobInv
  <2>4. QED
    BY <2>2, <2>3
<1>5. ASSUME RegisterEnable(t) PROVE JobInv'
  <2>1. /\ pc[t] = "register" /\ UNCHANGED <<job, view, snap>>
        /\ sched.exists
        /\ sched' = [sched EXCEPT !.enabled = sched.exists]
        /\ pc' = [pc EXCEPT ![t] = "add_job"]
        /\ pc'[t] = "add_job"
    BY <1>1, <1>5 DEF RegisterEnable, Goto, JobInv, Midway
  <2>2. sched'.enabled /\ sched'.exists /\ sched'.trigger = sched.trigger
    BY <1>1, <2>1
  <2>3. Mapped' /\ Registered'
    BY <1>1, <2>1, <2>2
       DEF JobInv, DownIsIdle, ScheduleOfPublication, JobHasSchedule, PausedHasNoJob, Registered
  <2>4. Midway' /\ ViewIsCurrent'
    BY <1>1, <2>1, <2>2 DEF JobInv, Midway, ViewIsCurrent
  <2>5. QED
    BY <2>3, <2>4 DEF JobInv
<1>6. ASSUME AddJob(t) PROVE JobInv'
  <2>1. /\ pc[t] = "add_job" /\ UNCHANGED sched
        /\ sched.exists /\ sched.enabled /\ wf.status = "active"
        /\ snap[t].content = sched.trigger
        /\ sched.trigger \in Contents /\ wf.active # NoVersion
        /\ pc' = [pc EXCEPT ![t] = "idle"]
        /\ pc'[t] = "idle"
    BY <1>1, <1>6 DEF AddJob, Answer, Goto, JobInv, Midway, ScheduleOfPublication
  <2>2. job' = sched.trigger /\ (Reload(t) \/ ShowPublished(t))
    BY <1>6, <2>1 DEF AddJob, AllRecurring
  <2>3. view'[t].status = "active"
    BY <1>1, <1>2, <2>1, <2>2 DEF Reload, ShowPublished
  <2>4. Mapped' /\ Registered'
    BY <1>1, <2>1, <2>2
       DEF JobInv, DownIsIdle, ScheduleOfPublication, JobHasSchedule, PausedHasNoJob, Registered
  <2>5. Midway' /\ ViewIsCurrent'
    BY <1>1, <2>1, <2>3 DEF JobInv, Midway, ViewIsCurrent
  <2>6. QED
    BY <2>4, <2>5 DEF JobInv
<1>7. ASSUME RemoveJob(t) PROVE JobInv'
  <2>1. /\ pc[t] = "unregister" /\ UNCHANGED <<sched, view, snap>>
        /\ wf.status = "paused" /\ job' = None
        /\ pc' = [pc EXCEPT ![t] = "disable_schedule"]
        /\ pc'[t] = "disable_schedule"
    BY <1>1, <1>7 DEF RemoveJob, Goto, JobInv, Midway
  <2>2. Mapped' /\ Registered'
    BY <1>1, <2>1
       DEF JobInv, DownIsIdle, ScheduleOfPublication, JobHasSchedule, PausedHasNoJob, Registered
  <2>3. Midway' /\ ViewIsCurrent'
    BY <1>1, <2>1 DEF JobInv, Midway, ViewIsCurrent
  <2>4. QED
    BY <2>2, <2>3 DEF JobInv
<1>8. ASSUME DisableSchedule(t) PROVE JobInv'
  <2>1. /\ pc[t] = "disable_schedule" /\ UNCHANGED job
        /\ wf.status = "paused" /\ job = None
        /\ sched' = [sched EXCEPT !.enabled = FALSE]
        /\ Reload(t)
        /\ pc' = [pc EXCEPT ![t] = "idle"]
        /\ pc'[t] = "idle"
    BY <1>1, <1>8 DEF DisableSchedule, Answer, Goto, JobInv, Midway
  <2>2. ~sched'.enabled /\ sched'.exists = sched.exists /\ sched'.trigger = sched.trigger
    BY <1>1, <2>1
  <2>3. view'[t].status = "paused"
    BY <1>1, <1>2, <2>1 DEF Reload
  <2>4. Mapped' /\ Registered'
    BY <1>1, <2>1, <2>2
       DEF JobInv, DownIsIdle, ScheduleOfPublication, JobHasSchedule, PausedHasNoJob, Registered
  <2>5. Midway' /\ ViewIsCurrent'
    BY <1>1, <2>1, <2>3 DEF JobInv, Midway, ViewIsCurrent
  <2>6. QED
    BY <2>4, <2>5 DEF JobInv
<1>9. ASSUME ResumeGetSchedule(t) PROVE JobInv'
  <2>1. /\ pc[t] = "get_schedule" /\ UNCHANGED <<sched, job>>
        /\ wf.status = "active"
    BY <1>9 DEF ResumeGetSchedule, JobInv, Midway
  <2>2. CASE sched.exists
    <3>1. /\ snap' = [snap EXCEPT ![t] = Holding(NoVersion, sched.trigger, "draft")]
          /\ pc' = [pc EXCEPT ![t] = "enable_schedule"] /\ UNCHANGED view
          /\ pc'[t] = "enable_schedule" /\ snap'[t].content = sched.trigger
      BY <1>1, <1>2, <1>9, <2>2 DEF ResumeGetSchedule, Goto, Holding
    <3>2. Mapped' /\ Registered'
      BY <1>1, <2>1, <2>2, <3>1
         DEF JobInv, DownIsIdle, ScheduleOfPublication, JobHasSchedule, PausedHasNoJob, Registered
    <3>3. Midway' /\ ViewIsCurrent'
      BY <1>1, <2>1, <2>2, <3>1 DEF JobInv, Midway, ViewIsCurrent
    <3>4. QED
      BY <3>2, <3>3 DEF JobInv
  <2>3. CASE ~sched.exists
    <3>1. /\ pc' = [pc EXCEPT ![t] = "idle"] /\ Reload(t)
          /\ pc'[t] = "idle"
      BY <1>1, <1>9, <2>3 DEF ResumeGetSchedule, Answer, Goto
    <3>2. view'[t].status = wf.status
      BY <1>1, <1>2, <3>1 DEF Reload
    <3>3. Mapped' /\ Registered'
      BY <1>1, <2>1, <2>3, <3>1
         DEF JobInv, DownIsIdle, ScheduleOfPublication, JobHasSchedule, PausedHasNoJob, Registered
    <3>4. Midway' /\ ViewIsCurrent'
      BY <1>1, <2>1, <2>3, <3>1, <3>2 DEF JobInv, Midway, ViewIsCurrent
    <3>5. QED
      BY <3>3, <3>4 DEF JobInv
  <2>4. QED
    BY <2>2, <2>3
<1>10. ASSUME ResumeEnable(t) PROVE JobInv'
  <2>1. /\ pc[t] = "enable_schedule" /\ UNCHANGED <<job, view, snap>>
        /\ sched.exists
        /\ sched' = [sched EXCEPT !.enabled = sched.exists]
        /\ pc' = [pc EXCEPT ![t] = "register"]
        /\ pc'[t] = "register"
    BY <1>1, <1>10 DEF ResumeEnable, Goto, JobInv, Midway
  <2>2. sched'.enabled /\ sched'.exists /\ sched'.trigger = sched.trigger
    BY <1>1, <2>1
  <2>3. Mapped' /\ Registered'
    BY <1>1, <2>1, <2>2
       DEF JobInv, DownIsIdle, ScheduleOfPublication, JobHasSchedule, PausedHasNoJob, Registered
  <2>4. Midway' /\ ViewIsCurrent'
    BY <1>1, <2>1, <2>2 DEF JobInv, Midway, ViewIsCurrent
  <2>5. QED
    BY <2>3, <2>4 DEF JobInv
<1>11. QED
  BY <1>3, <1>4, <1>5, <1>6, <1>7, <1>8, <1>9, <1>10

\* The beginnings of the other requests: only the status and the counter move.
LEMMA RequestJobInv ==
    ASSUME OneTab, SavesCurrentStatus, TypeInv, JobInv, NEW t \in Clients,
           \/ OpenWorkflow(t) \/ DeleteWorkflow(t) \/ PublishBegin(t)
           \/ Pause(t) \/ Resume(t)
    PROVE  JobInv'
<1> USE DEF OneTab, AtRest, Listed, db, Idle, NoVersion, Publishing, Drafting
<1> DEFINE Mapped == DownIsIdle /\ ScheduleOfPublication /\ JobHasSchedule /\ PausedHasNoJob
<1>1. /\ pc[t] = "idle" /\ gateway = "up" /\ RowExists
      /\ UNCHANGED <<job, gateway>>
      /\ wf.status # "deleted"
      /\ pc \in [Clients -> Labels]
      /\ view \in [Clients -> [version : Version \cup {NoVersion}, status : Status]]
  BY DEF OpenWorkflow, DeleteWorkflow, PublishBegin, Pause, Resume, RowExists, Status, TypeInv,
         TypeOK
<1>2. ASSUME OpenWorkflow(t) PROVE JobInv'
  <2>1. UNCHANGED <<wf, sched, pc, snap>> /\ Reload(t)
    BY <1>2 DEF OpenWorkflow
  <2>2. view'[t].status = wf.status
    BY <1>1, <2>1 DEF Reload
  <2>3. RowExists'
    BY <1>1, <2>1 DEF RowExists
  <2>4. Mapped' /\ Registered'
    BY <1>1, <2>1, <2>3
       DEF JobInv, DownIsIdle, ScheduleOfPublication, JobHasSchedule, PausedHasNoJob, Registered
  <2>5. Midway' /\ ViewIsCurrent'
    BY <1>1, <2>1, <2>2, <2>3 DEF JobInv, Midway, ViewIsCurrent
  <2>6. QED
    BY <2>4, <2>5 DEF JobInv
<1>3. ASSUME DeleteWorkflow(t) PROVE JobInv'
  <2>1. /\ "delete" \in Ops /\ "save" \notin Ops
        /\ wf' = [status |-> "deleted", latest |-> NoVersion, active |-> NoVersion, draft |-> None]
        /\ sched' = NoSchedule
        /\ UNCHANGED <<pc, snap>>
    BY <1>3 DEF DeleteWorkflow, SavesCurrentStatus
  <2>2. ~sched'.exists /\ ~sched'.enabled /\ wf'.status = "deleted"
    BY <2>1 DEF NoSchedule
  <2>3. Mapped' /\ Registered'
    BY <1>1, <2>1, <2>2
       DEF JobInv, DownIsIdle, ScheduleOfPublication, JobHasSchedule, PausedHasNoJob, Registered
  <2>4. Midway' /\ ViewIsCurrent'
    BY <1>1, <2>1 DEF JobInv, Midway, ViewIsCurrent
  <2>5. QED
    BY <2>3, <2>4 DEF JobInv
<1>4. ASSUME PublishBegin(t) PROVE JobInv'
  <2>1. /\ UNCHANGED <<wf, sched, view>>
        /\ pc' = [pc EXCEPT ![t] = "store_publish"]
        /\ pc'[t] = "store_publish"
    BY <1>1, <1>4 DEF PublishBegin, Goto
  <2>2. RowExists'
    BY <1>1, <2>1 DEF RowExists
  <2>3. Mapped' /\ Registered'
    BY <1>1, <2>1, <2>2
       DEF JobInv, DownIsIdle, ScheduleOfPublication, JobHasSchedule, PausedHasNoJob, Registered
  <2>4. Midway' /\ ViewIsCurrent'
    BY <1>1, <2>1, <2>2 DEF JobInv, Midway, ViewIsCurrent
  <2>5. QED
    BY <2>3, <2>4 DEF JobInv
<1>5. ASSUME Pause(t) PROVE JobInv'
  <2>1. /\ wf' = [wf EXCEPT !.status = "paused"]
        /\ wf'.status = "paused" /\ wf'.active = wf.active
        /\ UNCHANGED <<sched, view, snap>>
        /\ pc' = [pc EXCEPT ![t] = "unregister"]
        /\ pc'[t] = "unregister"
    BY <1>1, <1>5 DEF Pause, Goto, TypeInv, TypeOK
  <2>2. RowExists'
    BY <2>1 DEF RowExists, Status
  <2>3. Mapped' /\ Registered'
    BY <1>1, <2>1, <2>2
       DEF JobInv, DownIsIdle, ScheduleOfPublication, JobHasSchedule, PausedHasNoJob, Registered
  <2>4. Midway' /\ ViewIsCurrent'
    BY <1>1, <2>1, <2>2 DEF JobInv, Midway, ViewIsCurrent
  <2>5. QED
    BY <2>3, <2>4 DEF JobInv
<1>6. ASSUME Resume(t) PROVE JobInv'
  <2>1. /\ wf' = [wf EXCEPT !.status = "active"]
        /\ wf'.status = "active" /\ wf'.active = wf.active
        /\ UNCHANGED <<sched, view, snap>>
        /\ pc' = [pc EXCEPT ![t] = "get_schedule"]
        /\ pc'[t] = "get_schedule"
    BY <1>1, <1>6 DEF Resume, Goto, TypeInv, TypeOK
  <2>2. RowExists'
    BY <2>1 DEF RowExists, Status
  <2>3. Mapped' /\ Registered'
    BY <1>1, <2>1, <2>2
       DEF JobInv, DownIsIdle, ScheduleOfPublication, JobHasSchedule, PausedHasNoJob, Registered
  <2>4. Midway' /\ ViewIsCurrent'
    BY <1>1, <2>1, <2>2 DEF JobInv, Midway, ViewIsCurrent
  <2>5. QED
    BY <2>3, <2>4 DEF JobInv
<1>7. QED
  BY <1>2, <1>3, <1>4, <1>5, <1>6

\* The worker, a stop of the Gateway at any point of a request, and its start.
LEMMA ProcessJobInv ==
    ASSUME AllRecurring, SavesCurrentStatus, TypeInv, JobInv,
           Worker \/ GracePasses \/ Crash \/ Start \/ UNCHANGED vars
    PROVE  JobInv'
<1> USE DEF AtRest, Listed, db, Publishing, Drafting
<1>1. ASSUME Fire \/ FireSkipped \/ DispatchRun \/ DispatchEnd \/ GracePasses \/ UNCHANGED vars
      PROVE  JobInv'
  <2>1. UNCHANGED <<wf, sched, job, gateway, view, pc, snap>>
    <3>1. job # None => TriggerOf[job] # "date"
      BY DEF AllRecurring, TypeInv, TypeOK
    <3>2. QED
      BY <1>1, <3>1 DEF Fire, FireSkipped, DispatchRun, DispatchEnd, GracePasses, vars
  <2>2. QED
    BY <2>1 DEF JobInv, DownIsIdle, ScheduleOfPublication, JobHasSchedule, PausedHasNoJob,
               Registered, Midway, ViewIsCurrent, RowExists
<1>2. ASSUME Crash PROVE JobInv'
  <2>1. /\ "save" \notin Ops
        /\ UNCHANGED <<wf, sched>>
        /\ gateway' = "down" /\ job' = None /\ \A t \in Clients : pc'[t] = "idle"
    BY <1>2 DEF Crash, SavesCurrentStatus
  <2>2. QED
    BY <2>1 DEF JobInv, DownIsIdle, ScheduleOfPublication, JobHasSchedule, PausedHasNoJob,
               Registered, Midway, ViewIsCurrent, RowExists
<1>3. ASSUME Start PROVE JobInv'
  <2>1. /\ gateway = "down" /\ gateway' = "up"
        /\ job' = IF Listed THEN sched.trigger ELSE None
        /\ \A t \in Clients : pc[t] = "idle"
        /\ UNCHANGED <<wf, sched, view, pc, snap>>
    BY <1>3 DEF Start, JobInv, DownIsIdle
  <2>2. ~sched.exists \/ wf.status = "paused" => job' = None
    BY <2>1 DEF JobInv, ScheduleOfPublication
  <2>3. QED
    BY <2>1, <2>2 DEF JobInv, DownIsIdle, ScheduleOfPublication, JobHasSchedule, PausedHasNoJob,
                      Registered, Midway, ViewIsCurrent, RowExists
<1>4. QED
  BY <1>1, <1>2, <1>3 DEF Worker

\* JobInv is inductive relative to TypeInv.
LEMMA NextJobInv ==
    ASSUME OneTab, AllRecurring, MaySchedule, SavesCurrentStatus, TypeInv, JobInv, [Next]_vars
    PROVE  JobInv'
<1>1. CASE \E t \in Clients : Request(t)
  BY <1>1, DraftJobInv, RequestJobInv DEF Request
<1>2. CASE \E t \in Clients : RequestStep(t)
  BY <1>2, DraftJobInv, PublishJobInv, ScheduleJobInv DEF RequestStep
<1>3. CASE Worker \/ GracePasses \/ Crash \/ Start \/ UNCHANGED vars
  BY <1>3, ProcessJobInv
<1>4. QED
  BY <1>1, <1>2, <1>3 DEF Next

(***************************************************************************)
(* With one tab and recurring triggers, whatever the Gateway's stops cut   *)
(* short: between requests the job is the one a restart would rebuild.     *)
(***************************************************************************)
THEOREM JobAgreesWithRows ==
    ASSUME OneTab, AllRecurring, MaySchedule, SavesCurrentStatus
    PROVE  Spec => []JobMatchesStore
<1>1. TypeInv /\ JobInv /\ [Next]_vars => JobInv'
  BY NextJobInv
<1>2. ASSUME JobInv, Quiescent, wf.status \in {"active", "paused"}
      PROVE  job = (IF Listed THEN sched.trigger ELSE None)
  <2>1. CASE wf.status = "paused"
    BY <1>2, <2>1 DEF JobInv, PausedHasNoJob, Quiescent, Listed
  <2>2. CASE wf.status = "active"
    BY <1>2, <2>2 DEF JobInv, Registered, Quiescent, AtRest, OneTab
  <2>3. QED
    BY <1>2, <2>1, <2>2
<1>3. JobInv => JobMatchesStore
  BY <1>2 DEF JobMatchesStore
<1>4. QED
  BY InitTypeInv, NextTypeInv, InitJobInv, <1>1, <1>3, PTL DEF Spec
=============================================================================
