---------------------- MODULE CatalogPublicationProofs ----------------------
(***************************************************************************)
(* Proofs about CatalogPublication for any number of videos, quotes,       *)
(* workers and handlers.  Two inductive invariants carry them: PaymentInv  *)
(* relates an approval to its job, its runs and the gateway; PlanInv       *)
(* relates every plan that is kept anywhere to the generation it was made  *)
(* for.  A third, ViewInv, says how far a run's approval has come in the   *)
(* gateway; with it every step is one that GatewayView allows.             *)
(***************************************************************************)
EXTENDS CatalogPublication, TLAPS

\* States of an approval that no job was queued for.
Unapproved == {"none", "draft", "superseded"}

\* Which steps belong to which of the two jobs.
PcInv ==
  \A w \in Worker :
    /\ worker[w].pc \in {"leased", "read", "mark", "store", "repair"} => worker[w].quote # None
    /\ worker[w].pc \in {"check", "revision", "build", "insert"} => worker[w].quote = None

\* Only an approval that is open or published has an active job, and only one
\* that was approved has a job at all.
JobInv ==
  \A q \in Quote :
    /\ finalize[q].status \in {"queued", "running"}
         => approval[q].state \in {"approved", "uploading", "complete"}
    /\ finalize[q].status # "none" => approval[q].state \notin Unapproved

\* The fence without the lease's time.
Holds(w, q) ==
  /\ worker[w].quote = q
  /\ finalize[q].status = "running"
  /\ finalize[q].owner = w
  /\ finalize[q].attempts = worker[w].gen

\* A run belongs to an approval that was given, and while it still holds the job
\* nobody else has decided the approval since the run has read it.
RunInv ==
  \A w \in Worker, q \in Quote :
    /\ worker[w].quote = q => approval[q].state \notin Unapproved
    /\ worker[w].pc \in {"mark", "store"} /\ Holds(w, q)
         => approval[q].state \in {"approved", "uploading"}

\* The gateway pays nothing before the approval, and nothing after it was
\* cancelled.
GatewayInv ==
  \A q \in Quote :
    /\ approval[q].state \in Unapproved => ~gw[q].admitted /\ ~gw[q].paid
    /\ approval[q].state = "approval_required" => gw[q].phase = "cancelled" /\ ~gw[q].paid

\* A published approval is in the history.
DoneInv == \A q \in Quote : approval[q].state = "complete" => q \in done

\* The inductive invariant of the payment properties.
PaymentInv == PcInv /\ JobInv /\ RunInv /\ GatewayInv /\ DoneInv /\ OneCatalogPayment

\* The operations on jobs return jobs.
LEMMA JobTypes ==
  ASSUME NEW j \in Job
  PROVE  /\ \A w \in Worker : Claimed(j, w) \in Job
         /\ \A s \in {"succeeded", "failed", "queued"} : Released(j, s) \in Job
         /\ \A b \in BOOLEAN : [Released(j, "queued") EXCEPT !.due = b] \in Job
         /\ Requeued(j) \in Job /\ Enqueued(j) \in Job /\ Lapsed(j) \in Job
         /\ [j EXCEPT !.due = TRUE] \in Job
         /\ Resumed(j) \in Job
<1>1. ASSUME NEW w \in Worker PROVE Claimed(j, w) \in Job
  <2>1. j.attempts + 1 \in Nat /\ w \in Worker \cup {None}
    BY DEF Job
  <2> QED BY <2>1 DEF Job, Claimed
<1>2. \A s \in {"succeeded", "failed", "queued"} : Released(j, s) \in Job
  BY DEF Job, Released
<1>3. \A b \in BOOLEAN, i \in Job : [i EXCEPT !.due = b] \in Job
  BY DEF Job
<1>4. NewJob \in Job
  BY CatalogAssumption DEF Job, NewJob, NoJob
<1>5. Requeued(j) \in Job /\ Enqueued(j) \in Job /\ Lapsed(j) \in Job
  BY <1>4 DEF Job, Requeued, Enqueued, Lapsed
<1>6. Resumed(j) \in Job
  <2> DEFINE max == IF j.max > j.attempts THEN j.max ELSE j.attempts + 1
  <2>1. max \in Nat
    BY DEF Job
  <2> HIDE DEF max
  <2>2. [j EXCEPT !.status = "queued", !.due = TRUE, !.max = max] \in Job
    BY <2>1 DEF Job
  <2> QED BY <2>2 DEF Resumed, max
<1> QED BY <1>1, <1>2, <1>3, <1>5, <1>6

\* The values a row, a plan, a job, a run and an approval start from.
LEMMA NewTypes == /\ NoRow \in Row /\ NoPlan \in Plan /\ NoJob \in Job /\ NewJob \in Job
                  /\ IdleWorker \in WorkerState /\ NoApproval \in GatewayRow
<1>1. NoRow \in Row /\ NoPlan \in Plan
  BY DEF Row, NoRow, Plan, NoPlan
<1>2. NoJob \in Job /\ NewJob \in Job
  BY CatalogAssumption DEF Job, NewJob, NoJob
<1>3. IdleWorker \in WorkerState
  BY <1>1 DEF WorkerState, IdleWorker, Pc, Class
<1>4. NoApproval \in GatewayRow
  BY DEF GatewayRow, NoApproval
<1> QED BY <1>1, <1>2, <1>3, <1>4

\* Type correctness, one lemma for each group of actions.
LEMMA InitType == Init => TypeOK
<1> SUFFICES ASSUME Init PROVE TypeOK
  OBVIOUS
<1>1. row \in [Video -> Row]
  BY NewTypes DEF Init, Row
<1>2. snapshot \in Snapshot
  <2>1. \A v \in Listed : [video |-> v, public |-> FALSE, show |-> FALSE] \in Entry
    BY CatalogAssumption DEF Entry
  <2> QED BY <2>1 DEF Init, Snapshot
<1>3. approval \in [Quote -> [state: ApprovalState, plan: Plan]]
  BY NewTypes DEF Init, ApprovalState
<1> QED BY <1>1, <1>2, <1>3, NewTypes DEF Init, TypeOK

\* build_catalog returns catalog entries.
LEMMA CatalogType == TypeOK => Catalog \in SUBSET Entry
BY DEF TypeOK, Catalog, EntryOf, Entry, Row

\* An update of a row and its trigger.
LEMMA SetRowType ==
  ASSUME TypeOK, NEW v \in Video, NEW new \in Row, SetRow(v, new)
  PROVE  row' \in [Video -> Row] /\ generation' \in Nat
BY DEF TypeOK, SetRow

\* What happens to a video keeps the types.
LEMMA VideoSteps ==
  ASSUME TypeOK, NEW v \in Video, Videos(v)
  PROVE  TypeOK'
<1> USE CatalogAssumption DEF TypeOK
<1>1. ASSUME NEW auto \in BOOLEAN, AcceptUpload(v, auto) PROVE TypeOK'
  <2>1. [NoRow EXCEPT !.status = "waiting", !.auto = auto] \in Row
    BY DEF NoRow, Row
  <2>2. row' \in [Video -> Row] /\ generation' \in Nat
    BY <1>1, <2>1, SetRowType DEF AcceptUpload
  <2> QED BY <1>1, <2>2 DEF AcceptUpload
<1>2. CASE QuoteVideo(v)
  <2>1. EntryOf(v, row[v].auto) \in Entry
    BY DEF EntryOf, Entry, Row
  <2>2. [revision |-> generation, all |-> {e \in Catalog : e.video # v} \cup {EntryOf(v, row[v].auto)}] \in Plan
    BY <2>1, CatalogType DEF Plan
  <2> QED BY <1>2, <2>2 DEF QuoteVideo
<1>3. ASSUME NEW t \in Task, VideoReady(t, v) PROVE TypeOK'
  <2>1. plan[v] \in Plan /\ plan[v].all \in SUBSET Entry
    BY DEF Plan
  <2>a. row[v] \in Row
    OBVIOUS
  <2>2. [row[v] EXCEPT !.status = "ready", !.public = row[v].auto] \in Row
    <3> HIDE DEF TypeOK
    <3> QED BY <2>a DEF Row
  <2>3. row' \in [Video -> Row] /\ generation' \in Nat
    BY <1>3, <2>2, SetRowType DEF VideoReady
  <2>4. snapshot' \in Snapshot /\ stale' \in BOOLEAN
    BY <1>3, <2>1 DEF VideoReady, Commits, Snapshot
  <2> QED BY <1>3, <2>3, <2>4, NewTypes DEF VideoReady
<1>4. ASSUME NEW t \in Task, DeleteVideo(t, v) PROVE TypeOK'
  <2>1. row' \in [Video -> Row] /\ generation' \in Nat
    BY <1>4, NewTypes, SetRowType DEF DeleteVideo
  <2> QED BY <1>4, <2>1, NewTypes DEF DeleteVideo, RefreshIf
<1>5. ASSUME NEW t \in Task, NEW show \in Show, UpdateVisibility(t, v, show) PROVE TypeOK'
  <2>a. row[v] \in Row /\ show \in BOOLEAN
    OBVIOUS
  <2>1. [row[v] EXCEPT !.show = show] \in Row
    <3> HIDE DEF TypeOK
    <3> QED BY <2>a DEF Row
  <2>2. row' \in [Video -> Row] /\ generation' \in Nat
    BY <1>5, <2>1, SetRowType DEF UpdateVisibility
  <2> QED BY <1>5, <2>2 DEF UpdateVisibility, RefreshIf
<1>6. ASSUME NEW t \in Task, NEW public \in BOOLEAN, UpdatePublication(t, v, public) PROVE TypeOK'
  <2>a. row[v] \in Row
    OBVIOUS
  <2>1. [row[v] EXCEPT !.public = public] \in Row
    <3> HIDE DEF TypeOK
    <3> QED BY <2>a DEF Row
  <2>2. row' \in [Video -> Row] /\ generation' \in Nat
    BY <1>6, <2>1, SetRowType DEF UpdatePublication
  <2> QED BY <1>6, <2>2 DEF UpdatePublication, RefreshIf
<1> QED BY <1>1, <1>2, <1>3, <1>4, <1>5, <1>6 DEF Videos

\* The handlers keep the types.
LEMMA HandlerSteps ==
  ASSUME TypeOK, NEW t \in Task, Handlers(t)
  PROVE  TypeOK'
<1> USE CatalogAssumption DEF TypeOK, catalogVars
<1>1. CASE PublishCatalogs(t)
  BY <1>1 DEF PublishCatalogs
<1>2. CASE RefreshLocal(t)
  BY <1>2, CatalogType DEF RefreshLocal, Commits, Snapshot
<1>3. CASE RepairFile(t)
  BY <1>3 DEF RepairFile, RestoreSnapshot
<1>4. CASE SchedulePublish(t)
  BY <1>4, JobTypes DEF SchedulePublish
<1>5. CASE HandlerFails(t)
  BY <1>5 DEF HandlerFails
<1> QED BY <1>1, <1>2, <1>3, <1>4, <1>5 DEF Handlers

\* The updates of a worker's state and of its job.
LEMMA WorkerTypes ==
  ASSUME TypeOK, NEW w \in Worker
  PROVE  /\ \A pc \in Pc : Goto(w, pc) => worker' \in [Worker -> WorkerState]
         /\ \A c \in Class : FailWith(w, c) => worker' \in [Worker -> WorkerState]
         /\ Forget(w) => worker' \in [Worker -> WorkerState]
         /\ JobOf(w) \in Job
         /\ \A job \in Job : SetJob(w, job) => publish' \in Job /\ finalize' \in [Quote -> Job]
<1>1. worker \in [Worker -> WorkerState] /\ worker[w] \in WorkerState
  BY DEF TypeOK
<1>2. ASSUME NEW pc \in Pc, Goto(w, pc) PROVE worker' \in [Worker -> WorkerState]
  BY <1>1, <1>2 DEF Goto, WorkerState
<1>3. ASSUME NEW c \in Class, FailWith(w, c) PROVE worker' \in [Worker -> WorkerState]
  BY <1>1, <1>3 DEF FailWith, WorkerState, Pc
<1>4. Forget(w) => worker' \in [Worker -> WorkerState]
  BY <1>1, NewTypes DEF Forget
<1>5. worker[w].quote \in Quote \cup {None}
  BY <1>1 DEF WorkerState
<1>6. JobOf(w) \in Job
  BY <1>5 DEF JobOf, TypeOK
<1>7. ASSUME NEW job \in Job, SetJob(w, job) PROVE publish' \in Job /\ finalize' \in [Quote -> Job]
  BY <1>5, <1>7 DEF SetJob, TypeOK
<1> QED BY <1>2, <1>3, <1>4, <1>6, <1>7

\* The gateway's updates of one approval.
LEMMA GatewayTypes ==
  ASSUME TypeOK, NEW q \in Quote
  PROVE  /\ \A n \in Nat : \A b : gw' = [gw EXCEPT ![q].gen = n,
                                                    ![q].admitted = gw[q].admitted /\ b]
                          => gw' \in [Quote -> GatewayRow]
         /\ gw' = [gw EXCEPT ![q].admitted = TRUE] => gw' \in [Quote -> GatewayRow]
         /\ gw' = [gw EXCEPT ![q].paid = TRUE] => gw' \in [Quote -> GatewayRow]
         /\ gw' = [gw EXCEPT ![q].stored = TRUE] => gw' \in [Quote -> GatewayRow]
         /\ gw' = [gw EXCEPT ![q].phase = "cancelled"] => gw' \in [Quote -> GatewayRow]
<1>1. gw \in [Quote -> GatewayRow] /\ gw[q] \in GatewayRow
  BY DEF TypeOK
<1>2. ASSUME NEW n \in Nat, NEW b,
             gw' = [gw EXCEPT ![q].gen = n, ![q].admitted = gw[q].admitted /\ b]
      PROVE  gw' \in [Quote -> GatewayRow]
  <2>1. [gw[q] EXCEPT !.gen = n, !.admitted = gw[q].admitted /\ b] \in GatewayRow
    BY <1>1 DEF GatewayRow
  <2>2. gw' = [gw EXCEPT ![q] = [gw[q] EXCEPT !.gen = n, !.admitted = gw[q].admitted /\ b]]
    BY <1>1, <1>2
  <2> QED BY <1>1, <2>1, <2>2
<1>3. ASSUME gw' = [gw EXCEPT ![q].admitted = TRUE] PROVE gw' \in [Quote -> GatewayRow]
  <2>1. [gw[q] EXCEPT !.admitted = TRUE] \in GatewayRow
    BY <1>1 DEF GatewayRow
  <2> QED BY <1>1, <1>3, <2>1
<1>4. ASSUME gw' = [gw EXCEPT ![q].paid = TRUE] PROVE gw' \in [Quote -> GatewayRow]
  <2>1. [gw[q] EXCEPT !.paid = TRUE] \in GatewayRow
    BY <1>1 DEF GatewayRow
  <2> QED BY <1>1, <1>4, <2>1
<1>5. ASSUME gw' = [gw EXCEPT ![q].stored = TRUE] PROVE gw' \in [Quote -> GatewayRow]
  <2>1. [gw[q] EXCEPT !.stored = TRUE] \in GatewayRow
    BY <1>1 DEF GatewayRow
  <2> QED BY <1>1, <1>5, <2>1
<1>6. ASSUME gw' = [gw EXCEPT ![q].phase = "cancelled"] PROVE gw' \in [Quote -> GatewayRow]
  <2>1. [gw[q] EXCEPT !.phase = "cancelled"] \in GatewayRow
    BY <1>1 DEF GatewayRow
  <2> QED BY <1>1, <1>6, <2>1
<1> QED BY <1>2, <1>3, <1>4, <1>5, <1>6

\* A run keeps the types; that it needs PcInv is because an action for a
\* finalize job reads the quote of its worker.
LEMMA RunSteps ==
  ASSUME TypeOK, PcInv, NEW w \in Worker, Run(w)
  PROVE  TypeOK'
<1> USE CatalogAssumption
<1>w. /\ worker \in [Worker -> WorkerState] /\ worker[w] \in WorkerState
      /\ worker[w].gen \in Nat /\ worker[w].plan \in Plan /\ worker[w].quote \in Quote \cup {None}
  BY DEF TypeOK, WorkerState
<1>p. \A pc \in {"done", "revision", "read", "store", "repair", "idle", "failed"} : pc \in Pc
  BY DEF Pc
<1>c. \A c \in {"approval", "recovery", "plain"} : c \in Class
  BY DEF Class
<1>q. worker[w].pc \in {"leased", "read", "mark", "store", "repair"} => worker[w].quote \in Quote
  BY <1>w DEF PcInv
<1>1. CASE AcquirePublish(w)
  <2>a. publish \in Job /\ publish' \in Job
    BY <1>1, JobTypes DEF AcquirePublish, TypeOK
  <2>1. publish.attempts + 1 \in Nat
    BY <2>a DEF Job
  <2>2. [IdleWorker EXCEPT !.pc = "check", !.gen = publish.attempts + 1] \in WorkerState
    BY <2>1, NewTypes DEF WorkerState, IdleWorker, Pc
  <2>3. worker' \in [Worker -> WorkerState]
    BY <1>1, <1>w, <2>2 DEF AcquirePublish
  <2> QED BY <1>1, <2>a, <2>3 DEF AcquirePublish, TypeOK, catalogVars
<1>2. CASE PrepareCheck(w)
  <2>1. worker' \in [Worker -> WorkerState]
    BY <1>2, <1>p, <1>c, WorkerTypes DEF PrepareCheck
  <2> QED BY <1>2, <2>1 DEF PrepareCheck, TypeOK, catalogVars
<1>3. CASE PrepareRevision(w)
  <2>1. generation \in Nat
    BY DEF TypeOK
  <2>2. [worker[w] EXCEPT !.pc = "build", !.plan.revision = generation] \in WorkerState
    BY <1>w, <2>1 DEF WorkerState, Plan, Pc
  <2>3. worker' = [worker EXCEPT ![w] = [worker[w] EXCEPT !.pc = "build", !.plan.revision = generation]]
    BY <1>3, <1>w DEF PrepareRevision
  <2>4. worker' \in [Worker -> WorkerState]
    BY <1>w, <2>2, <2>3
  <2> QED BY <1>3, <2>4 DEF PrepareRevision, TypeOK, catalogVars
<1>4. CASE PrepareBuild(w)
  <2>1. [worker[w] EXCEPT !.pc = "insert", !.plan.all = Catalog] \in WorkerState
    BY <1>w, CatalogType DEF WorkerState, Plan, Pc
  <2>2. worker' = [worker EXCEPT ![w] = [worker[w] EXCEPT !.pc = "insert", !.plan.all = Catalog]]
    BY <1>4, <1>w DEF PrepareBuild
  <2>3. worker' \in [Worker -> WorkerState]
    BY <1>w, <2>1, <2>2
  <2> QED BY <1>4, <2>3 DEF PrepareBuild, TypeOK, catalogVars
<1>5. CASE InsertDraft(w)
  <2>1. worker' \in [Worker -> WorkerState]
    BY <1>5, <1>p, <1>c, WorkerTypes DEF InsertDraft
  <2>2. Superseded \in [state: ApprovalState, plan: Plan]
        /\ [state |-> "draft", plan |-> worker[w].plan] \in [state: ApprovalState, plan: Plan]
    BY <1>w, NewTypes DEF Superseded, ApprovalState
  <2>3. approval' \in [Quote -> [state: ApprovalState, plan: Plan]]
    <3>1. CASE UNCHANGED approval
      BY <3>1 DEF TypeOK
    <3>2. CASE \E q \in Quote :
             approval' = [p \in Quote |->
                  IF p = q THEN [state |-> "draft", plan |-> worker[w].plan]
                  ELSE IF approval[p].state = "draft" THEN Superseded
                       ELSE approval[p]]
      BY <2>2, <3>2 DEF TypeOK
    <3> QED BY <1>5, <3>1, <3>2 DEF InsertDraft
  <2> QED BY <1>5, <2>1, <2>3 DEF InsertDraft, TypeOK, catalogVars
<1>6. ASSUME NEW q \in Quote, AcquireFinalize(w, q) PROVE TypeOK'
  <2>a. finalize[q] \in Job /\ finalize' \in [Quote -> Job]
    BY <1>6, JobTypes DEF AcquireFinalize, TypeOK
  <2>1. finalize[q].attempts + 1 \in Nat
    BY <2>a DEF Job
  <2>2. [IdleWorker EXCEPT !.pc = "leased", !.quote = q, !.gen = finalize[q].attempts + 1]
          \in WorkerState
    BY <2>1, NewTypes DEF WorkerState, IdleWorker, Pc
  <2>3. worker' \in [Worker -> WorkerState]
    BY <1>6, <1>w, <2>2 DEF AcquireFinalize
  <2> QED BY <1>6, <2>a, <2>3 DEF AcquireFinalize, TypeOK, catalogVars
<1>7. CASE ActivateLease(w)
  <2>1. worker' \in [Worker -> WorkerState]
    BY <1>7, <1>p, WorkerTypes DEF ActivateLease
  <2>2. gw' \in [Quote -> GatewayRow]
    BY <1>7, <1>w, <1>q, GatewayTypes DEF ActivateLease, GatewayLeases
  <2> QED BY <1>7, <2>1, <2>2 DEF ActivateLease, TypeOK, catalogVars
<1>8. CASE ReadApproval(w)
  <2>1. approval[worker[w].quote].plan \in Plan
    BY <1>8, <1>q DEF ReadApproval, TypeOK
  <2>2. [worker[w] EXCEPT !.pc = "mark", !.plan = approval[worker[w].quote].plan] \in WorkerState
    BY <1>w, <2>1 DEF WorkerState, Pc
  <2>3. worker' \in [Worker -> WorkerState]
    <3>1. CASE worker' = [worker EXCEPT ![w].pc = "mark", ![w].plan = approval[worker[w].quote].plan]
      <4>1. worker' = [worker EXCEPT ![w] = [worker[w] EXCEPT !.pc = "mark", !.plan = approval[worker[w].quote].plan]]
        BY <1>w, <3>1
      <4> QED BY <1>w, <2>2, <4>1
    <3> QED BY <1>8, <1>p, <1>c, <3>1, WorkerTypes DEF ReadApproval
  <2> QED BY <1>8, <2>3 DEF ReadApproval, TypeOK, catalogVars
<1>9. CASE MarkUploading(w)
  <2>1. worker' \in [Worker -> WorkerState]
    BY <1>9, <1>p, WorkerTypes DEF MarkUploading
  <2>2. approval' \in [Quote -> [state: ApprovalState, plan: Plan]]
    BY <1>9 DEF MarkUploading, TypeOK, ApprovalState
  <2> QED BY <1>9, <2>1, <2>2 DEF MarkUploading, TypeOK, catalogVars
<1>10. CASE StoreAdmitted(w)
  <2>1. gw' \in [Quote -> GatewayRow]
    BY <1>10, <1>q, GatewayTypes DEF StoreAdmitted
  <2> QED BY <1>10, <2>1 DEF StoreAdmitted, TypeOK, catalogVars
<1>11. CASE FinalizeCommit(w)
  <2>1. worker' \in [Worker -> WorkerState]
    BY <1>11, <1>p, WorkerTypes DEF FinalizeCommit
  <2>2. approval' \in [Quote -> [state: ApprovalState, plan: Plan]]
    BY <1>11 DEF FinalizeCommit, TypeOK, ApprovalState
  <2>3. snapshot' \in Snapshot /\ stale' \in BOOLEAN
    BY <1>11, <1>w DEF FinalizeCommit, Commits, Snapshot, Plan
  <2>4. done' \in SUBSET Quote
    BY <1>11, <1>q DEF FinalizeCommit, TypeOK
  <2> QED BY <1>11, <2>1, <2>2, <2>3, <2>4 DEF FinalizeCommit, TypeOK
<1>12. CASE RepairPublished(w)
  <2>1. worker' \in [Worker -> WorkerState]
    BY <1>12, <1>p, WorkerTypes DEF RepairPublished
  <2> QED BY <1>12, <2>1 DEF RepairPublished, RestoreSnapshot, TypeOK
<1>13. ASSUME NEW c \in Class, JobFails(w, c) PROVE TypeOK'
  <2>1. worker' \in [Worker -> WorkerState]
    BY <1>13, WorkerTypes DEF JobFails
  <2> QED BY <1>13, <2>1 DEF JobFails, TypeOK, catalogVars
<1>14. CASE MarkSucceeded(w) \/ RetryLater(w)
  <2>1. worker' \in [Worker -> WorkerState]
    BY <1>14, WorkerTypes DEF MarkSucceeded, RetryLater
  <2>2. /\ Released(JobOf(w), "succeeded") \in Job
        /\ [Released(JobOf(w), "queued") EXCEPT !.due = FALSE] \in Job
    BY WorkerTypes, JobTypes
  <2>3. publish' \in Job /\ finalize' \in [Quote -> Job]
    BY <1>14, <2>2, WorkerTypes DEF MarkSucceeded, RetryLater
  <2> QED BY <1>14, <2>1, <2>3 DEF MarkSucceeded, RetryLater, TypeOK, catalogVars
<1>15. CASE PublishFails(w)
  <2>1. worker' \in [Worker -> WorkerState]
    BY <1>15, WorkerTypes DEF PublishFails
  <2>2. publish' \in Job
    BY <1>15, JobTypes DEF PublishFails, TypeOK
  <2> QED BY <1>15, <2>1, <2>2 DEF PublishFails, TypeOK, catalogVars
<1>g. GatewayCancels(w) /\ worker[w].quote # None => gw' \in [Quote -> GatewayRow]
  BY <1>w, GatewayTypes DEF GatewayCancels
<1>16. CASE RunLost(w)
  <2>1. worker' \in [Worker -> WorkerState]
    BY <1>16, WorkerTypes DEF RunLost
  <2>2. gw' \in [Quote -> GatewayRow]
    BY <1>16, <1>g DEF RunLost, TypeOK
  <2> QED BY <1>16, <2>1, <2>2 DEF RunLost, TypeOK, catalogVars
<1>17. CASE Interrupt(w)
  <2>1. worker' \in [Worker -> WorkerState]
    BY <1>17, WorkerTypes DEF Interrupt
  <2>2. [Released(JobOf(w), "queued") EXCEPT !.due = TRUE] \in Job
    BY WorkerTypes, JobTypes
  <2>3. publish' \in Job /\ finalize' \in [Quote -> Job]
    BY <1>17, <2>2, WorkerTypes DEF Interrupt, TypeOK
  <2> QED BY <1>17, <2>1, <2>3 DEF Interrupt, TypeOK, catalogVars
<1>18. ASSUME NEW unpaid \in BOOLEAN, FinalizeFails(w, unpaid) PROVE TypeOK'
  <2>1. worker' \in [Worker -> WorkerState]
    BY <1>18, WorkerTypes DEF FinalizeFails
  <2>2. gw' \in [Quote -> GatewayRow]
    BY <1>18, <1>g DEF FinalizeFails, TypeOK
  <2>3. finalize' \in [Quote -> Job]
    BY <1>18, <1>w, JobTypes DEF FinalizeFails, TypeOK
  <2>4. FailedState(w, unpaid) \in ApprovalState
    BY DEF FailedState, ApprovalState
  <2>5. approval' \in [Quote -> [state: ApprovalState, plan: Plan]]
    BY <1>18, <2>4 DEF FinalizeFails, TypeOK
  <2> QED BY <1>18, <2>1, <2>2, <2>3, <2>5 DEF FinalizeFails, TypeOK, catalogVars
<1> QED BY <1>1, <1>2, <1>3, <1>4, <1>5, <1>6, <1>7, <1>8, <1>9, <1>10, <1>11, <1>12, <1>13, <1>14,
           <1>15, <1>16, <1>17, <1>18 DEF Run

\* Approval, resume, the gateway, a restart and time keep the types.
LEMMA OtherSteps ==
  ASSUME TypeOK,
         \/ \E q \in Quote : Approve(q) \/ ApproveLost(q) \/ Resume(q) \/ Gateway(q)
         \/ Restart \/ LeaseLapses \/ RetryDue
  PROVE  TypeOK'
<1>a. ASSUME NEW q \in Quote, GatewayApproves(q) PROVE gw' \in [Quote -> GatewayRow]
  BY <1>a DEF GatewayApproves, TypeOK, GatewayRow
<1>1. ASSUME NEW q \in Quote, Approve(q) PROVE TypeOK'
  <2>1. gw' \in [Quote -> GatewayRow]
    BY <1>1, <1>a DEF Approve
  <2>2. approval' \in [Quote -> [state: ApprovalState, plan: Plan]]
    BY <1>1 DEF Approve, TypeOK, ApprovalState
  <2>3. finalize' \in [Quote -> Job]
    BY <1>1, NewTypes DEF Approve, TypeOK
  <2> QED BY <1>1, <2>1, <2>2, <2>3 DEF Approve, TypeOK, catalogVars
<1>2. ASSUME NEW q \in Quote, ApproveLost(q) PROVE TypeOK'
  <2>1. gw' \in [Quote -> GatewayRow]
    BY <1>2, <1>a DEF ApproveLost
  <2> QED BY <1>2, <2>1 DEF ApproveLost, TypeOK, catalogVars
<1>3. ASSUME NEW q \in Quote, Resume(q) PROVE TypeOK'
  <2>3. finalize' \in [Quote -> Job]
    BY <1>3, JobTypes DEF Resume, TypeOK
  <2>4. approval' \in [Quote -> [state: ApprovalState, plan: Plan]]
    BY <1>3 DEF Resume, TypeOK, ApprovalState
  <2> QED BY <1>3, <2>3, <2>4 DEF Resume, TypeOK, catalogVars
<1>4. ASSUME NEW q \in Quote, Gateway(q) PROVE TypeOK'
  <2>1. gw' \in [Quote -> GatewayRow]
    BY <1>4, GatewayTypes DEF Gateway, GatewayPays, GatewayStores
  <2> QED BY <1>4, <2>1 DEF Gateway, TypeOK, catalogVars
<1>5. CASE Restart
  <2>1. publish' \in Job
    BY <1>5, JobTypes DEF Restart, TypeOK
  <2>2. finalize' \in [Quote -> Job]
    BY <1>5, JobTypes DEF Restart, TypeOK
  <2> QED BY <1>5, <2>1, <2>2, NewTypes DEF Restart, RestoredFile, TypeOK
<1>6. CASE LeaseLapses
  <2>a. publish \in Job /\ finalize \in [Quote -> Job]
    BY DEF TypeOK
  <2>1. publish' \in Job /\ finalize' \in [Quote -> Job]
    BY <1>6, <2>a, JobTypes DEF LeaseLapses
  <2> QED BY <1>6, <2>1 DEF LeaseLapses, TypeOK, catalogVars
<1>7. CASE RetryDue
  <2>1. \A j \in Job : [j EXCEPT !.due = TRUE] \in Job
    BY JobTypes
  <2>2. publish' \in Job
    BY <1>7, <2>1 DEF RetryDue, TypeOK
  <2>3. finalize' \in [Quote -> Job]
    BY <1>7, <2>1 DEF RetryDue, TypeOK
  <2> QED BY <1>7, <2>2, <2>3 DEF RetryDue, TypeOK, catalogVars
<1> QED BY <1>1, <1>2, <1>3, <1>4, <1>5, <1>6, <1>7

-----------------------------------------------------------------------------

\* A run goes on to pc, or is forgotten; the other workers are left alone.
Moves(w, pc) ==
  \A u \in Worker :
    /\ worker'[u].quote = worker[u].quote
    /\ worker'[u].gen = worker[u].gen
    /\ worker'[u].pc = IF u = w THEN pc ELSE worker[u].pc

\* The worker gives up its run; the other workers are left alone.
Gone(w) == \A u \in Worker : worker'[u] = IF u = w THEN IdleWorker ELSE worker[u]

\* What the three ways in which a run goes on do to every worker.
LEMMA WorkerEffects ==
  ASSUME TypeOK, NEW w \in Worker
  PROVE  /\ \A pc : Goto(w, pc) => Moves(w, pc)
         /\ \A c : FailWith(w, c) => Moves(w, "failed")
         /\ Forget(w) => Gone(w)
<1>1. worker \in [Worker -> WorkerState]
  BY DEF TypeOK
<1>2. ASSUME NEW pc, Goto(w, pc) PROVE Moves(w, pc)
  BY <1>1, <1>2 DEF Goto, Moves, WorkerState
<1>3. ASSUME NEW c, FailWith(w, c) PROVE Moves(w, "failed")
  BY <1>1, <1>3 DEF FailWith, Moves, WorkerState
<1>4. Forget(w) => Gone(w)
  BY <1>1 DEF Forget, Gone
<1> QED BY <1>2, <1>3, <1>4

\* A run that goes on without touching the approval, its job or the gateway.
LEMMA MovesKeep ==
  ASSUME TypeOK, PaymentInv, NEW w \in Worker, NEW pc,
         UNCHANGED <<approval, finalize, gw, done>>,
         \/ Gone(w)
         \/ /\ Moves(w, pc)
            /\ \/ pc \in {"done", "failed"}
               \/ pc \in {"revision", "build", "insert"} /\ worker[w].quote = None
               \/ pc \in {"read", "repair"} /\ worker[w].quote # None
               \/ /\ pc = "mark" /\ worker[w].quote # None
                  /\ approval[worker[w].quote].state \in {"approved", "uploading"}
  PROVE  PaymentInv'
<1> USE DEF PaymentInv
<1>1. PcInv'
  BY DEF PcInv, Moves, Gone, IdleWorker
<1>2. JobInv' /\ GatewayInv' /\ DoneInv' /\ OneCatalogPayment'
  BY DEF JobInv, GatewayInv, DoneInv, OneCatalogPayment
<1>3. RunInv'
  <2>1. None \notin Quote
    BY CatalogAssumption
  <2> QED BY <2>1 DEF RunInv, Holds, Moves, Gone, IdleWorker
<1> QED BY <1>1, <1>2, <1>3

\* The state of one approval becomes s.
Decides(q, s) ==
  /\ \A p \in Quote : approval'[p].state = IF p = q THEN s ELSE approval[p].state
  /\ \A p \in Quote : approval'[p].plan = approval[p].plan

\* An update of one approval leaves the others and all plans.
LEMMA ApprovalEffect ==
  ASSUME TypeOK, NEW q \in Quote, NEW s, approval' = [approval EXCEPT ![q].state = s]
  PROVE  Decides(q, s)
BY DEF TypeOK, Decides

\* The gateway cancels nothing that was paid and admits nothing by itself.
LEMMA CancelEffect ==
  ASSUME TypeOK, NEW w \in Worker, worker[w].quote \in Quote, GatewayCancels(w)
  PROVE  /\ gw'[worker[w].quote].phase = "cancelled" /\ ~gw'[worker[w].quote].paid
         /\ \A p \in Quote : /\ gw'[p].paid = gw[p].paid /\ gw'[p].admitted = gw[p].admitted
                             /\ gw'[p].phase \in {gw[p].phase, "cancelled"}
BY DEF TypeOK, GatewayCancels, GatewayRow

\* A run keeps the payment invariant.
LEMMA PaymentRun ==
  ASSUME TypeOK, PaymentInv, NEW w \in Worker, Run(w)
  PROVE  PaymentInv'
<1>n. None \notin Quote
  BY CatalogAssumption
<1>w. /\ worker \in [Worker -> WorkerState] /\ worker[w].quote \in Quote \cup {None}
      /\ finalize \in [Quote -> Job] /\ gw \in [Quote -> GatewayRow]
  BY DEF TypeOK, WorkerState
<1>q. worker[w].pc \in {"leased", "read", "mark", "store", "repair"} => worker[w].quote \in Quote
  BY <1>w DEF PaymentInv, PcInv
<1>1. CASE AcquirePublish(w)
  <2>1. \A u \in Worker : u # w => worker'[u] = worker[u]
    BY <1>1, <1>w DEF AcquirePublish
  <2>2. worker'[w].pc = "check" /\ worker'[w].quote = None
    BY <1>1, <1>w DEF AcquirePublish, IdleWorker
  <2>3. UNCHANGED <<approval, finalize, gw, done>>
    BY <1>1 DEF AcquirePublish
  <2> QED BY <1>n, <2>1, <2>2, <2>3
          DEF PaymentInv, PcInv, JobInv, RunInv, Holds, GatewayInv, DoneInv, OneCatalogPayment
<1>2. CASE PrepareCheck(w) \/ PrepareRevision(w) \/ PrepareBuild(w) \/ ReadApproval(w)
             \/ RepairPublished(w) \/ (\E c \in Class : JobFails(w, c)) \/ PublishFails(w)
  <2>1. UNCHANGED <<approval, finalize, gw, done>>
    BY <1>2 DEF PrepareCheck, PrepareRevision, PrepareBuild, ReadApproval, RepairPublished, JobFails,
                PublishFails
  <2>2. \/ Gone(w)
        \/ \E pc \in {"revision", "failed", "build", "insert", "done"} :
             /\ Moves(w, pc)
             /\ pc \in {"revision", "build", "insert"} => worker[w].quote = None
        \/ /\ Moves(w, "mark") /\ worker[w].quote # None
           /\ approval[worker[w].quote].state \in {"approved", "uploading"}
    <3>1. CASE PrepareCheck(w)
      BY <3>1, WorkerEffects DEF PrepareCheck, PaymentInv, PcInv
    <3>2. CASE PrepareRevision(w)
      <4>1. Moves(w, "build")
        BY <3>2, <1>w DEF PrepareRevision, Moves, WorkerState
      <4> QED BY <3>2, <4>1 DEF PrepareRevision, PaymentInv, PcInv
    <3>3. CASE PrepareBuild(w)
      <4>1. Moves(w, "insert")
        BY <3>3, <1>w DEF PrepareBuild, Moves, WorkerState
      <4> QED BY <3>3, <4>1 DEF PrepareBuild, PaymentInv, PcInv
    <3>4. CASE ReadApproval(w)
      <4>1. worker' = [worker EXCEPT ![w].pc = "mark", ![w].plan = approval[worker[w].quote].plan]
              => Moves(w, "mark")
        BY <1>w DEF Moves, WorkerState
      <4> QED BY <3>4, <4>1, <1>q, <1>n, WorkerEffects DEF ReadApproval
    <3>5. CASE RepairPublished(w)
      BY <3>5, WorkerEffects DEF RepairPublished
    <3>6. CASE \E c \in Class : JobFails(w, c)
      BY <3>6, WorkerEffects DEF JobFails
    <3>7. CASE PublishFails(w)
      BY <3>7, WorkerEffects DEF PublishFails
    <3> QED BY <1>2, <3>1, <3>2, <3>3, <3>4, <3>5, <3>6, <3>7
  <2> QED BY <2>1, <2>2, MovesKeep
<1>5. CASE InsertDraft(w)
  <2>0. worker[w].quote = None
    BY <1>5 DEF InsertDraft, PaymentInv, PcInv
  <2>1. UNCHANGED <<finalize, gw, done>>
    BY <1>5 DEF InsertDraft
  <2>2. CASE UNCHANGED approval
    <3>1. Moves(w, "failed") \/ Moves(w, "done")
      BY <1>5, WorkerEffects DEF InsertDraft
    <3> QED BY <2>1, <2>2, <3>1, MovesKeep
  <2>3. ASSUME NEW q \in Quote, approval[q].state = "none", RequireReconciledCatalog,
               approval' = [p \in Quote |->
                  IF p = q THEN [state |-> "draft", plan |-> worker[w].plan]
                  ELSE IF approval[p].state = "draft" THEN Superseded
                       ELSE approval[p]],
               Moves(w, "done")
        PROVE  PaymentInv'
    <3>1. \A p \in Quote : approval'[p].state = IF p = q THEN "draft"
                             ELSE IF approval[p].state = "draft" THEN "superseded"
                                  ELSE approval[p].state
      BY <2>3 DEF Superseded
    <3>2. PcInv'
      BY <2>3 DEF PaymentInv, PcInv, Moves
    <3>3. JobInv' /\ GatewayInv' /\ DoneInv'
      BY <2>1, <2>3, <3>1 DEF PaymentInv, JobInv, GatewayInv, DoneInv, Unapproved
    <3>4. RunInv'
      BY <2>1, <2>3, <3>1 DEF PaymentInv, RunInv, Holds, Moves, Unapproved
    <3>5. OneCatalogPayment'
      BY <2>1, <2>3, <3>1 DEF OneCatalogPayment, RequireReconciledCatalog, Open
    <3> QED BY <3>2, <3>3, <3>4, <3>5 DEF PaymentInv
  <2> QED BY <1>5, <2>2, <2>3, WorkerEffects DEF InsertDraft
<1>6. ASSUME NEW q \in Quote, AcquireFinalize(w, q) PROVE PaymentInv'
  <2>1. \A u \in Worker : u # w => worker'[u] = worker[u]
    BY <1>6, <1>w DEF AcquireFinalize
  <2>2. worker'[w].pc = "leased" /\ worker'[w].quote = q
    BY <1>6, <1>w DEF AcquireFinalize, IdleWorker
  <2>3. UNCHANGED <<approval, gw, done>>
    BY <1>6 DEF AcquireFinalize
  <2>4. /\ finalize[q].status \in {"queued", "running"}
        /\ finalize'[q].status = "running" /\ finalize'[q].owner = w
        /\ \A p \in Quote : p # q => finalize'[p] = finalize[p]
    BY <1>6, <1>w DEF AcquireFinalize, Claimable, Claimed, Job
  <2>5. PcInv'
    BY <1>n, <2>1, <2>2 DEF PaymentInv, PcInv
  <2>6. JobInv'
    BY <2>3, <2>4 DEF PaymentInv, JobInv
  <2>7. RunInv'
    BY <2>1, <2>2, <2>3, <2>4 DEF PaymentInv, RunInv, Holds, JobInv, Unapproved
  <2>8. GatewayInv' /\ DoneInv' /\ OneCatalogPayment'
    BY <2>3 DEF PaymentInv, GatewayInv, DoneInv, OneCatalogPayment
  <2> QED BY <2>5, <2>6, <2>7, <2>8 DEF PaymentInv
<1>7. CASE ActivateLease(w) \/ StoreAdmitted(w)
  <2>1. UNCHANGED <<approval, finalize, done>>
    BY <1>7 DEF ActivateLease, StoreAdmitted
  <2>2. \/ Moves(w, "read") /\ worker[w].quote # None
        \/ UNCHANGED worker
    BY <1>7, <1>q, <1>n, WorkerEffects DEF ActivateLease, StoreAdmitted
  <2>3. worker[w].quote \in Quote /\ approval[worker[w].quote].state \notin Unapproved
    BY <1>7, <1>q DEF ActivateLease, StoreAdmitted, PaymentInv, RunInv
  <2>4. /\ \A p \in Quote : gw'[p].paid = gw[p].paid /\ gw'[p].phase = gw[p].phase
        /\ \A p \in Quote \ {worker[w].quote} : gw'[p].admitted = gw[p].admitted
    BY <1>7, <1>w, <2>3 DEF ActivateLease, GatewayLeases, StoreAdmitted, GatewayRow
  <2>5. PcInv' /\ RunInv'
    BY <2>1, <2>2 DEF PaymentInv, PcInv, RunInv, Holds, Moves
  <2>6. JobInv' /\ DoneInv' /\ OneCatalogPayment'
    BY <2>1 DEF PaymentInv, JobInv, DoneInv, OneCatalogPayment
  <2>7. GatewayInv'
    BY <2>1, <2>3, <2>4 DEF PaymentInv, GatewayInv
  <2> QED BY <2>5, <2>6, <2>7 DEF PaymentInv
<1>9. CASE MarkUploading(w) \/ FinalizeCommit(w)
  <2> DEFINE q == worker[w].quote
  <2>1. q \in Quote /\ UNCHANGED <<finalize, gw>>
    BY <1>9, <1>q DEF MarkUploading, FinalizeCommit
  <2>2. Holds(w, q) /\ approval[q].state \in {"approved", "uploading"}
    BY <1>9, <2>1, <1>n DEF MarkUploading, FinalizeCommit, Fenced, JobOf, Holds, PaymentInv, RunInv
  <2>3. \/ Decides(q, "uploading") /\ Moves(w, "store") /\ done' = done
        \/ Decides(q, "complete") /\ Moves(w, "repair") /\ done' = done \cup {q}
    BY <1>9, <2>1, ApprovalEffect, WorkerEffects DEF MarkUploading, FinalizeCommit
  <2> HIDE DEF q
  <2>4. PcInv'
    BY <2>1, <2>3, <1>n DEF PaymentInv, PcInv, Moves, q
  <2>5. JobInv' /\ GatewayInv' /\ DoneInv'
    BY <2>1, <2>2, <2>3 DEF PaymentInv, JobInv, GatewayInv, DoneInv, Decides, Unapproved
  <2>6. RunInv'
    <3> SUFFICES ASSUME NEW u \in Worker, NEW p \in Quote
                 PROVE  /\ worker'[u].quote = p => approval'[p].state \notin Unapproved
                        /\ worker'[u].pc \in {"mark", "store"} /\ Holds(u, p)'
                             => approval'[p].state \in {"approved", "uploading"}
      BY DEF RunInv
    <3>1. worker'[u].quote = worker[u].quote
      BY <2>3 DEF Moves
    <3>2. CASE p # q
      BY <2>1, <2>3, <3>1, <3>2 DEF PaymentInv, RunInv, Holds, Moves, Decides, q
    <3>3. CASE p = q
      BY <2>1, <2>2, <2>3, <3>1, <3>3 DEF PaymentInv, RunInv, Holds, Moves, Decides, Unapproved
    <3> QED BY <3>2, <3>3
  <2>7. OneCatalogPayment'
    BY <2>1, <2>2, <2>3 DEF PaymentInv, OneCatalogPayment, Decides, Open
  <2> QED BY <2>4, <2>5, <2>6, <2>7 DEF PaymentInv
<1>14. CASE MarkSucceeded(w) \/ RetryLater(w) \/ Interrupt(w)
  <2>1. UNCHANGED <<approval, gw, done>> /\ Gone(w)
    BY <1>14, WorkerEffects DEF MarkSucceeded, RetryLater, Interrupt
  <2>2. \A q \in Quote :
          \/ finalize'[q] = finalize[q]
          \/ finalize[q].status = "running" /\ finalize'[q].status \in {"succeeded", "queued"}
    <3>1. CASE worker[w].quote = None
      BY <1>14, <3>1 DEF MarkSucceeded, RetryLater, Interrupt, SetJob
    <3>2. CASE worker[w].quote \in Quote
      <4>1. \A j \in Job : /\ Released(j, "succeeded").status = "succeeded"
                           /\ \A d \in BOOLEAN :
                                [Released(j, "queued") EXCEPT !.due = d].status = "queued"
        BY DEF Released, Job
      <4>2. JobOf(w) = finalize[worker[w].quote] /\ JobOf(w) \in Job
        BY <1>n, <1>w, <3>2 DEF JobOf
      <4>3. \A j : SetJob(w, j) => finalize' = [finalize EXCEPT ![worker[w].quote] = j]
        BY <1>n, <3>2 DEF SetJob
      <4>4. CASE MarkSucceeded(w)
        <5>1. /\ finalize' = [finalize EXCEPT ![worker[w].quote] = Released(JobOf(w), "succeeded")]
              /\ JobOf(w).status = "running"
          BY <4>3, <4>4 DEF MarkSucceeded, Fenced
        <5> QED BY <1>w, <4>1, <4>2, <5>1
      <4>5. CASE RetryLater(w)
        <5>1. /\ finalize' = [finalize EXCEPT ![worker[w].quote] =
                                [Released(JobOf(w), "queued") EXCEPT !.due = FALSE]]
              /\ JobOf(w).status = "running"
          BY <4>3, <4>5 DEF RetryLater, Fenced
        <5> QED BY <1>w, <4>1, <4>2, <5>1
      <4>6. CASE Interrupt(w)
        <5>1. \/ /\ finalize' = [finalize EXCEPT ![worker[w].quote] =
                                [Released(JobOf(w), "queued") EXCEPT !.due = TRUE]]
                 /\ JobOf(w).status = "running"
              \/ UNCHANGED finalize
          BY <4>3, <4>6 DEF Interrupt
        <5> QED BY <1>w, <4>1, <4>2, <5>1
      <4> QED BY <1>14, <4>4, <4>5, <4>6
    <3> QED BY <1>w, <3>1, <3>2
  <2>3. PcInv' /\ GatewayInv' /\ DoneInv' /\ OneCatalogPayment'
    BY <2>1 DEF PaymentInv, PcInv, Gone, IdleWorker, GatewayInv, DoneInv, OneCatalogPayment
  <2>4. JobInv'
    BY <2>1, <2>2 DEF PaymentInv, JobInv
  <2>5. RunInv'
    BY <2>1, <2>2, <1>n DEF PaymentInv, RunInv, Holds, Gone, IdleWorker
  <2> QED BY <2>3, <2>4, <2>5 DEF PaymentInv
<1>16. CASE RunLost(w)
  <2>1. UNCHANGED <<approval, finalize, done>> /\ Gone(w)
    BY <1>16, WorkerEffects DEF RunLost
  <2>2. \A p \in Quote : /\ gw'[p].paid = gw[p].paid /\ gw'[p].admitted = gw[p].admitted
                         /\ gw'[p].phase \in {gw[p].phase, "cancelled"}
    BY <1>16, <1>w, CancelEffect DEF RunLost
  <2>3. GatewayInv'
    BY <2>1, <2>2 DEF PaymentInv, GatewayInv
  <2>4. PcInv' /\ JobInv' /\ DoneInv' /\ OneCatalogPayment'
    BY <2>1 DEF PaymentInv, PcInv, Gone, IdleWorker, JobInv, DoneInv, OneCatalogPayment
  <2>5. RunInv'
    BY <2>1, <1>n DEF PaymentInv, RunInv, Holds, Gone, IdleWorker
  <2> QED BY <2>3, <2>4, <2>5 DEF PaymentInv
<1>18. ASSUME NEW unpaid \in BOOLEAN, FinalizeFails(w, unpaid) PROVE PaymentInv'
  <2> DEFINE q == worker[w].quote
             s == FailedState(w, unpaid)
  <2>1. q \in Quote /\ done' = done /\ Gone(w)
    BY <1>18, <1>w, WorkerEffects DEF FinalizeFails
  <2>2. Decides(q, s)
    BY <1>18, <2>1, ApprovalEffect DEF FinalizeFails
  <2>3. /\ finalize'[q].status = "failed"
        /\ \A p \in Quote : p # q => finalize'[p] = finalize[p]
    BY <1>18, <1>w, <2>1 DEF FinalizeFails, Released, Job
  <2>4. approval[q].state \in {"approved", "uploading", "complete"}
    BY <1>18, <2>1, <1>n DEF FinalizeFails, Fenced, JobOf, PaymentInv, JobInv
  <2>5. /\ \A p \in Quote : /\ gw'[p].paid = gw[p].paid /\ gw'[p].admitted = gw[p].admitted
                            /\ gw'[p].phase \in {gw[p].phase, "cancelled"}
        /\ s = "approval_required" => gw'[q].phase = "cancelled" /\ ~gw'[q].paid
    BY <1>18, <2>1, CancelEffect DEF FinalizeFails, FailedState
  <2>6. s \in {"approval_required", "payment_recovery_required"}
    BY DEF FailedState
  <2> HIDE DEF q, s
  <2>7. PcInv'
    BY <2>1 DEF PaymentInv, PcInv, Gone, IdleWorker
  <2>8. JobInv' /\ DoneInv'
    BY <2>1, <2>2, <2>3, <2>6 DEF PaymentInv, JobInv, DoneInv, Decides, Unapproved
  <2>9. RunInv'
    BY <2>1, <2>2, <2>3, <2>6, <1>n DEF PaymentInv, RunInv, Holds, Gone, IdleWorker, Decides, Unapproved
  <2>10. GatewayInv'
    BY <2>1, <2>2, <2>5, <2>6 DEF PaymentInv, GatewayInv, Decides, Unapproved
  <2>11. OneCatalogPayment'
    BY <2>1, <2>2, <2>4, <2>6 DEF PaymentInv, OneCatalogPayment, DoneInv, Decides, Open
  <2> QED BY <2>7, <2>8, <2>9, <2>10, <2>11 DEF PaymentInv
<1> QED BY <1>1, <1>2, <1>5, <1>6, <1>7, <1>9, <1>14, <1>16, <1>18 DEF Run

\* Approval, resume, the gateway, a restart and time keep the payment invariant.
LEMMA PaymentOthers ==
  ASSUME TypeOK, PaymentInv,
         \/ \E q \in Quote : Approve(q) \/ ApproveLost(q) \/ Resume(q) \/ Gateway(q)
         \/ Restart \/ LeaseLapses \/ RetryDue
  PROVE  PaymentInv'
<1>n. None \notin Quote
  BY CatalogAssumption
<1>t. finalize \in [Quote -> Job] /\ gw \in [Quote -> GatewayRow]
  BY DEF TypeOK
<1>1. ASSUME NEW q \in Quote, Approve(q) PROVE PaymentInv'
  <2>1. UNCHANGED <<worker, done>> /\ approval[q].state = "draft" /\ Decides(q, "approved")
    BY <1>1, ApprovalEffect DEF Approve
  <2>2. /\ finalize'[q].status = "queued" 
        /\ \A p \in Quote : p # q => finalize'[p] = finalize[p]
    BY <1>1, <1>t DEF Approve, NewJob, NoJob
  <2>3. \A p \in Quote : p # q => gw'[p] = gw[p]
    BY <1>1, <1>t DEF Approve, GatewayApproves
  <2>4. PcInv' /\ JobInv' /\ DoneInv'
    BY <2>1, <2>2 DEF PaymentInv, PcInv, JobInv, DoneInv, Decides, Unapproved
  <2>5. RunInv'
    BY <2>1, <2>2 DEF PaymentInv, RunInv, Holds, Decides, Unapproved
  <2>6. GatewayInv'
    BY <2>1, <2>3 DEF PaymentInv, GatewayInv, Decides, Unapproved
  <2>7. OneCatalogPayment'
    BY <2>1 DEF PaymentInv, OneCatalogPayment, Decides, Open
  <2> QED BY <2>4, <2>5, <2>6, <2>7 DEF PaymentInv
<1>2. ASSUME NEW q \in Quote, ApproveLost(q) \/ Gateway(q) PROVE PaymentInv'
  <2>1. UNCHANGED <<approval, finalize, worker, done>>
    BY <1>2 DEF ApproveLost, Gateway
  <2>2. PcInv' /\ JobInv' /\ RunInv' /\ DoneInv' /\ OneCatalogPayment'
    BY <2>1 DEF PaymentInv, PcInv, JobInv, RunInv, Holds, DoneInv, OneCatalogPayment
  <2>3. \A p \in Quote : /\ gw'[p].admitted => gw[p].admitted
                         /\ gw'[p].phase = gw[p].phase \/ approval[p].state = "draft"
                         /\ gw'[p].paid => gw[p].paid \/ (gw[p].admitted /\ gw[p].phase = "open")
    <3>1. CASE ApproveLost(q)
      BY <1>t, <3>1 DEF ApproveLost, GatewayApproves, GatewayRow
    <3>2. CASE Gateway(q)
      BY <1>t, <3>2 DEF Gateway, GatewayPays, GatewayStores, GatewayRow
    <3> QED BY <1>2, <3>1, <3>2
  <2>4. ASSUME NEW p \in Quote
        PROVE  /\ approval[p].state \in Unapproved => ~gw'[p].admitted /\ ~gw'[p].paid
               /\ approval[p].state = "approval_required"
                    => gw'[p].phase = "cancelled" /\ ~gw'[p].paid
    <3>1. /\ approval[p].state \in Unapproved => ~gw[p].admitted /\ ~gw[p].paid
          /\ approval[p].state = "approval_required" => gw[p].phase = "cancelled" /\ ~gw[p].paid
      BY DEF PaymentInv, GatewayInv
    <3> QED BY <2>3, <3>1
  <2>5. GatewayInv'
    BY <2>1, <2>4 DEF GatewayInv
  <2> QED BY <2>2, <2>5 DEF PaymentInv
<1>3. ASSUME NEW q \in Quote, Resume(q) PROVE PaymentInv'
  <2>1. /\ UNCHANGED <<worker, done, gw>> /\ Decides(q, "approved")
        /\ approval[q].state = "payment_recovery_required"
    BY <1>3, ApprovalEffect DEF Resume
  <2>2. /\ finalize'[q].status = "queued"
        /\ \A p \in Quote : p # q => finalize'[p] = finalize[p]
    BY <1>3, <1>t DEF Resume, Resumed, Job
  <2>3. PcInv' /\ JobInv' /\ DoneInv' /\ GatewayInv'
    BY <2>1, <2>2 DEF PaymentInv, PcInv, JobInv, DoneInv, GatewayInv, Decides, Unapproved
  <2>4. RunInv'
    BY <2>1, <2>2 DEF PaymentInv, RunInv, Holds, Decides, Unapproved
  <2>5. OneCatalogPayment'
    BY <2>1 DEF PaymentInv, OneCatalogPayment, Decides, Open
  <2> QED BY <2>3, <2>4, <2>5 DEF PaymentInv
<1>4. CASE Restart
  <2>1. UNCHANGED <<approval, gw, done>> /\ \A w \in Worker : worker'[w] = IdleWorker
    BY <1>4 DEF Restart
  <2>2. \A q \in Quote : \/ finalize'[q] = finalize[q]
                         \/ finalize[q].status = "running" /\ finalize'[q].status = "queued"
    <3> SUFFICES ASSUME NEW q \in Quote
                 PROVE  \/ finalize'[q] = finalize[q]
                        \/ finalize[q].status = "running" /\ finalize'[q].status = "queued"
      OBVIOUS
    <3>1. ASSUME NEW j \in Job
          PROVE  Requeued(j) = j \/ (j.status = "running" /\ Requeued(j).status = "queued")
      BY DEF Requeued, Job
    <3>2. finalize'[q] = Requeued(finalize[q]) /\ finalize[q] \in Job
      BY <1>4, <1>t DEF Restart
    <3> QED BY <3>1, <3>2
  <2>3. PcInv' /\ RunInv'
    BY <2>1, <1>n DEF PcInv, RunInv, Holds, IdleWorker
  <2>4. JobInv' /\ GatewayInv' /\ DoneInv' /\ OneCatalogPayment'
    BY <2>1, <2>2 DEF PaymentInv, JobInv, GatewayInv, DoneInv, OneCatalogPayment
  <2> QED BY <2>3, <2>4 DEF PaymentInv
<1>5. CASE LeaseLapses \/ RetryDue
  <2>1. UNCHANGED <<approval, worker, gw, done>>
    BY <1>5 DEF LeaseLapses, RetryDue
  <2>2. \A q \in Quote : /\ finalize'[q].status = finalize[q].status
                         /\ finalize'[q].owner = finalize[q].owner
                         /\ finalize'[q].attempts = finalize[q].attempts
    BY <1>5, <1>t DEF LeaseLapses, RetryDue, Lapsed, Job
  <2> QED BY <2>1, <2>2
          DEF PaymentInv, PcInv, JobInv, RunInv, Holds, GatewayInv, DoneInv, OneCatalogPayment
<1> QED BY <1>1, <1>2, <1>3, <1>4, <1>5

-----------------------------------------------------------------------------
(* Plans: a plan made for the current generation is the current catalog.   *)

\* A revision that was read, if any.
Past(r) == r = None \/ (r \in Nat /\ r <= generation)

\* No plan was made for a generation that is still to come.
RevisionInv ==
  /\ \A v \in Video : Past(plan[v].revision)
  /\ \A q \in Quote : Past(approval[q].plan.revision)
  /\ \A w \in Worker : Past(worker[w].plan.revision)

\* The catalog of the other ready videos together with v, as it will be public.
With(v) == Listing({e \in Catalog : e.video # v}) \cup {[video |-> v, public |-> row[v].auto]}

VideoPlanInv ==
  \A v \in Video :
    /\ row[v].status = "none" => plan[v].revision = None
    /\ row[v].status = "waiting" /\ plan[v].revision = generation
         => Listing(plan[v].all) = With(v)

\* A plan of the current generation is the current catalog.
Current(p) == p.revision = generation => p.all = Catalog

ApprovalPlanInv == \A q \in Quote : Current(approval[q].plan)

\* Between the two reads of prepare a run has a revision without its catalog.
RunPlanInv ==
  \A w \in Worker : worker[w].pc \in {"insert", "mark", "store"} => Current(worker[w].plan)

\* The inductive invariant of PublishedExact.
PlanInv == RevisionInv /\ VideoPlanInv /\ ApprovalPlanInv /\ RunPlanInv

\* A change of a row that leaves the generation alone leaves the catalog alone.
LEMMA SetRowCatalog ==
  ASSUME TypeOK, NEW v \in Video, NEW new \in Row, SetRow(v, new)
  PROVE  \/ generation' = generation + 1
         \/ generation' = generation /\ Catalog' = Catalog
<1>1. row \in [Video -> Row] /\ row' = [row EXCEPT ![v] = new]
  BY DEF TypeOK, SetRow
<1>2. CASE Bump(v, new)
  BY <1>2 DEF SetRow
<1>3. CASE ~Bump(v, new)
  <2>1. generation' = generation
    BY <1>3 DEF SetRow
  <2>2. \A u \in Video : row[u].status = "ready" \/ row'[u].status = "ready" => row'[u] = row[u]
    BY <1>1, <1>3 DEF Bump
  <2>3. Catalog' = Catalog
    BY <2>2 DEF Catalog, EntryOf
  <2> QED BY <2>1, <2>3
<1> QED BY <1>2, <1>3

\* The listing of a catalog with one entry more.
LEMMA ListingWith ==
  ASSUME NEW A, NEW e
  PROVE  Listing(A \cup {e}) = Listing(A) \cup {[video |-> e.video, public |-> e.public]}
BY DEF Listing

\* A plan of an earlier generation is not current, and stays so.
LEMMA PastPlans ==
  ASSUME generation \in Nat
  PROVE  /\ Past(NoPlan.revision) /\ Current(NoPlan)
         /\ Past(generation)
         /\ generation' = generation + 1
              => \A p : Past(p.revision) => Past(p.revision)' /\ p.revision # generation'
<1>1. None \notin Nat
  BY CatalogAssumption
<1>2. NoPlan.revision = None
  BY DEF NoPlan
<1>3. Past(NoPlan.revision) /\ Current(NoPlan)
  BY <1>1, <1>2 DEF Past, Current
<1>4. ASSUME generation' = generation + 1, NEW p, Past(p.revision)
      PROVE  Past(p.revision)' /\ p.revision # generation'
  BY <1>1, <1>4 DEF Past
<1> QED BY <1>3, <1>4 DEF Past

\* A change of one row keeps the plans current or makes them plans of the past.
LEMMA PlanRow ==
  ASSUME TypeOK, PlanInv, NEW v \in Video, NEW new \in Row, SetRow(v, new),
         UNCHANGED <<approval, worker>>,
         \/ /\ UNCHANGED plan
            /\ new.status # "none"
            /\ new.status = "waiting"
                 => \/ row[v].status = "none"
                    \/ row[v].status = "waiting" /\ new.auto = row[v].auto
         \/ plan' = [plan EXCEPT ![v] = NoPlan]
  PROVE  PlanInv'
<1>t. /\ generation \in Nat /\ row \in [Video -> Row] /\ plan \in [Video -> Plan]
      /\ row' = [row EXCEPT ![v] = new]
  BY DEF TypeOK, SetRow
<1>p. /\ \A u \in Video : Past(plan[u].revision)
      /\ \A q \in Quote : Past(approval[q].plan.revision)
      /\ \A w \in Worker : Past(worker[w].plan.revision)
  BY DEF PlanInv, RevisionInv
<1>n. NoPlan.revision = None /\ None \notin Nat
  BY CatalogAssumption DEF NoPlan
<1>u. \A u \in Video : plan'[u] = plan[u] \/ plan'[u] = NoPlan
  BY <1>t
<1>r. \A u \in Video : row'[u].status = "none" => plan'[u].revision = None
  BY <1>t, <1>n DEF PlanInv, VideoPlanInv
<1>1. CASE generation' = generation + 1
  <2>1. \A p : Past(p.revision) => Past(p.revision)' /\ p.revision # generation'
    BY <1>1, <1>t, PastPlans
  <2>2. \A u \in Video : Past(plan[u].revision)' /\ plan'[u].revision # generation'
    <3>1. generation' \in Nat
      BY <1>1, <1>t
    <3> QED BY <1>p, <1>u, <1>n, <2>1, <3>1 DEF Past
  <2>3. RevisionInv'
    BY <1>p, <2>1, <2>2 DEF RevisionInv, Past
  <2>4. VideoPlanInv'
    BY <1>r, <2>2 DEF VideoPlanInv
  <2>5. ApprovalPlanInv' /\ RunPlanInv'
    BY <1>p, <2>1 DEF ApprovalPlanInv, RunPlanInv, Current
  <2> QED BY <2>3, <2>4, <2>5 DEF PlanInv
<1>2. CASE generation' = generation /\ Catalog' = Catalog
  <2>1. RevisionInv'
    BY <1>2, <1>p, <1>u, <1>n DEF RevisionInv, Past
  <2>2. ApprovalPlanInv' /\ RunPlanInv'
    BY <1>2 DEF PlanInv, ApprovalPlanInv, RunPlanInv, Current
  <2>3. ASSUME NEW u \in Video, row'[u].status = "waiting", plan'[u].revision = generation'
        PROVE  Listing(plan'[u].all) = With(u)'
    <3>1. plan'[u] = plan[u]
      BY <1>2, <1>t, <1>u, <1>n, <2>3
    <3>2. row[u].status = "waiting" /\ row'[u].auto = row[u].auto
      BY <1>2, <1>t, <1>n, <2>3, <3>1 DEF PlanInv, VideoPlanInv
    <3>3. Listing(plan[u].all) = With(u)
      BY <1>2, <2>3, <3>1, <3>2 DEF PlanInv, VideoPlanInv
    <3>4. With(u)' = With(u)
      BY <1>2, <3>2 DEF With
    <3> QED BY <3>1, <3>3, <3>4
  <2>4. VideoPlanInv'
    BY <1>r, <2>3 DEF VideoPlanInv
  <2> QED BY <2>1, <2>2, <2>4 DEF PlanInv
<1> QED BY <1>1, <1>2, SetRowCatalog

\* What the handlers and the pipeline do to a video keeps the plans.
LEMMA PlanVideos ==
  ASSUME TypeOK, PlanInv, NEW v \in Video, Videos(v)
  PROVE  PlanInv'
<1>t. /\ generation \in Nat /\ row \in [Video -> Row] /\ plan \in [Video -> Plan]
      /\ row[v] \in Row /\ Show \subseteq BOOLEAN
  BY CatalogAssumption DEF TypeOK
<1>1. ASSUME NEW auto \in BOOLEAN, AcceptUpload(v, auto) PROVE PlanInv'
  <2> DEFINE new == [NoRow EXCEPT !.status = "waiting", !.auto = auto]
  <2>1. new \in Row /\ new.status = "waiting"
    BY DEF NoRow, Row
  <2>2. SetRow(v, new) /\ UNCHANGED <<plan, approval, worker>> /\ row[v].status = "none"
    BY <1>1 DEF AcceptUpload
  <2> HIDE DEF new
  <2> QED BY <2>1, <2>2, PlanRow
<1>2. CASE QuoteVideo(v)
  <2> DEFINE new == [revision |-> generation,
                     all |-> {e \in Catalog : e.video # v} \cup {EntryOf(v, row[v].auto)}]
  <2>1. plan' = [plan EXCEPT ![v] = new] /\ row[v].status = "waiting"
        /\ UNCHANGED <<row, generation, approval, worker>>
    BY <1>2 DEF QuoteVideo
  <2>2. Listing(new.all) = With(v)
    <3> DEFINE A == {e \in Catalog : e.video # v}
               e == EntryOf(v, row[v].auto)
    <3>1. new.all = A \cup {e}
      OBVIOUS
    <3>2. e.video = v /\ e.public = row[v].auto
      BY DEF EntryOf
    <3>3. With(v) = Listing(A) \cup {[video |-> v, public |-> row[v].auto]}
      BY DEF With
    <3> HIDE DEF new, A, e
    <3>4. Listing(A \cup {e}) = Listing(A) \cup {[video |-> e.video, public |-> e.public]}
      BY ListingWith
    <3> QED BY <3>1, <3>2, <3>3, <3>4
  <2>3. Past(new.revision) /\ new.revision = generation
    BY <1>t DEF Past
  <2>4. plan'[v] = new /\ \A u \in Video : u # v => plan'[u] = plan[u]
    BY <1>t, <2>1
  <2> HIDE DEF new
  <2>5. Catalog' = Catalog /\ \A u : With(u)' = With(u)
    BY <2>1 DEF Catalog, EntryOf, With
  <2>6. RevisionInv'
    BY <2>1, <2>3, <2>4 DEF PlanInv, RevisionInv, Past
  <2>7. ApprovalPlanInv' /\ RunPlanInv'
    BY <2>1, <2>5 DEF PlanInv, ApprovalPlanInv, RunPlanInv, Current
  <2>8. VideoPlanInv'
    BY <2>1, <2>2, <2>3, <2>4, <2>5 DEF PlanInv, VideoPlanInv
  <2> QED BY <2>6, <2>7, <2>8 DEF PlanInv
<1>3. ASSUME NEW t \in Task, VideoReady(t, v) PROVE PlanInv'
  <2> DEFINE new == [row[v] EXCEPT !.status = "ready", !.public = row[v].auto]
  <2>1. new \in Row
    BY <1>t DEF Row
  <2>2. SetRow(v, new) /\ UNCHANGED <<approval, worker>> /\ plan' = [plan EXCEPT ![v] = NoPlan]
    BY <1>3 DEF VideoReady
  <2> HIDE DEF new
  <2> QED BY <2>1, <2>2, PlanRow
<1>4. ASSUME NEW t \in Task, DeleteVideo(t, v) PROVE PlanInv'
  <2>1. SetRow(v, NoRow) /\ UNCHANGED <<approval, worker>> /\ plan' = [plan EXCEPT ![v] = NoPlan]
    BY <1>4 DEF DeleteVideo
  <2> QED BY <2>1, NewTypes, PlanRow
<1>5. ASSUME NEW t \in Task, NEW show \in Show, UpdateVisibility(t, v, show) PROVE PlanInv'
  <2> DEFINE new == [row[v] EXCEPT !.show = show]
  <2>1. new \in Row /\ new.status = row[v].status /\ new.auto = row[v].auto
    BY <1>t DEF Row
  <2>2. SetRow(v, new) /\ UNCHANGED <<plan, approval, worker>> /\ row[v].status # "none"
    BY <1>5 DEF UpdateVisibility
  <2> HIDE DEF new
  <2> QED BY <2>1, <2>2, PlanRow
<1>6. ASSUME NEW t \in Task, NEW public \in BOOLEAN, UpdatePublication(t, v, public) PROVE PlanInv'
  <2> DEFINE new == [row[v] EXCEPT !.public = public]
  <2>1. new \in Row /\ new.status = row[v].status /\ new.auto = row[v].auto
    BY <1>t DEF Row
  <2>2. SetRow(v, new) /\ UNCHANGED <<plan, approval, worker>> /\ row[v].status # "none"
    BY <1>6 DEF UpdatePublication
  <2> HIDE DEF new
  <2> QED BY <2>1, <2>2, PlanRow
<1> QED BY <1>1, <1>2, <1>3, <1>4, <1>5, <1>6 DEF Videos

\* Where plans come from while the rows stay as they are.
LEMMA PlanKept ==
  ASSUME TypeOK, PlanInv, UNCHANGED <<row, generation, plan>>,
         \A q \in Quote :
           \/ approval'[q].plan = approval[q].plan
           \/ approval'[q].plan = NoPlan
           \/ \E u \in Worker : worker[u].pc = "insert" /\ approval'[q].plan = worker[u].plan,
         \A u \in Worker :
           \/ worker'[u].plan = NoPlan
           \/ /\ worker'[u].plan = worker[u].plan
              /\ \/ worker[u].pc \in {"insert", "mark", "store"}
                 \/ worker'[u].pc \notin {"insert", "mark", "store"}
           \/ worker'[u].plan.revision = generation /\ worker'[u].pc = "build"
           \/ worker'[u].plan.revision = worker[u].plan.revision /\ worker'[u].plan.all = Catalog
           \/ \E q \in Quote : worker'[u].plan = approval[q].plan
  PROVE  PlanInv'
<1>1. Catalog' = Catalog /\ \A v \in Video : With(v)' = With(v)
  BY DEF Catalog, EntryOf, With
<1>2. Past(NoPlan.revision) /\ Current(NoPlan) /\ Past(generation)
  BY PastPlans DEF TypeOK
<1>3. \A v \in Video : Past(plan[v].revision)'
  BY DEF PlanInv, RevisionInv, Past
<1>4. \A q \in Quote : Past(approval[q].plan.revision)'
  BY <1>2 DEF PlanInv, RevisionInv, Past
<1>5. \A u \in Worker : Past(worker[u].plan.revision)'
  BY <1>2 DEF PlanInv, RevisionInv, Past
<1>6. VideoPlanInv'
  BY <1>1 DEF PlanInv, VideoPlanInv
<1>7. ApprovalPlanInv'
  BY <1>1, <1>2 DEF PlanInv, ApprovalPlanInv, RunPlanInv, Current
<1>8. RunPlanInv'
  BY <1>1, <1>2 DEF PlanInv, ApprovalPlanInv, RunPlanInv, Current
<1> QED BY <1>3, <1>4, <1>5, <1>6, <1>7, <1>8 DEF PlanInv, RevisionInv

\* A run keeps the plans.
LEMMA PlanRun ==
  ASSUME TypeOK, PaymentInv, PlanInv, NEW w \in Worker, Run(w)
  PROVE  PlanInv'
<1>w. /\ worker \in [Worker -> WorkerState] /\ worker[w].quote \in Quote \cup {None}
      /\ approval \in [Quote -> [state: ApprovalState, plan: Plan]]
  BY DEF TypeOK, WorkerState
<1>q. worker[w].pc \in {"leased", "read", "mark", "store", "repair"} => worker[w].quote \in Quote
  BY <1>w DEF PaymentInv, PcInv
<1>c. UNCHANGED <<row, generation, plan>>
  BY DEF Run, catalogVars, AcquirePublish, PrepareCheck, PrepareRevision, PrepareBuild, InsertDraft,
     AcquireFinalize, ActivateLease, ReadApproval, MarkUploading, StoreAdmitted, FinalizeCommit,
     RepairPublished, JobFails, MarkSucceeded, RetryLater, PublishFails, RunLost, Interrupt,
     FinalizeFails
<1>a. \A q \in Quote :
        \/ approval'[q].plan = approval[q].plan
        \/ approval'[q].plan = NoPlan
        \/ \E u \in Worker : worker[u].pc = "insert" /\ approval'[q].plan = worker[u].plan
  <2>1. CASE UNCHANGED approval
    BY <2>1
  <2>2. CASE InsertDraft(w)
    <3>1. \A q \in Quote : \/ approval'[q] = approval[q]
                           \/ approval'[q].plan = NoPlan
                           \/ approval'[q].plan = worker[w].plan
      BY <2>2, <1>w DEF InsertDraft, Superseded
    <3> QED BY <2>2, <3>1 DEF InsertDraft
  <2>3. CASE MarkUploading(w) \/ FinalizeCommit(w)
    BY <2>3, <1>q, ApprovalEffect DEF MarkUploading, FinalizeCommit, Decides
  <2>4. ASSUME NEW unpaid \in BOOLEAN, FinalizeFails(w, unpaid)
        PROVE  \A q \in Quote : approval'[q].plan = approval[q].plan
    BY <2>4, <1>w, ApprovalEffect DEF FinalizeFails, Decides
  <2> QED BY <2>1, <2>2, <2>3, <2>4
          DEF Run, AcquirePublish, PrepareCheck, PrepareRevision, PrepareBuild, AcquireFinalize,
              ActivateLease, ReadApproval, StoreAdmitted, RepairPublished, JobFails, MarkSucceeded,
              RetryLater, PublishFails, RunLost, Interrupt
<1>u. \A u \in Worker :
        \/ worker'[u].plan = NoPlan
        \/ /\ worker'[u].plan = worker[u].plan
           /\ \/ worker[u].pc \in {"insert", "mark", "store"}
              \/ worker'[u].pc \notin {"insert", "mark", "store"}
        \/ worker'[u].plan.revision = generation /\ worker'[u].pc = "build"
        \/ worker'[u].plan.revision = worker[u].plan.revision /\ worker'[u].plan.all = Catalog
        \/ \E q \in Quote : worker'[u].plan = approval[q].plan
  <2>0. \A u \in Worker : worker'[u] = worker[u] =>
          /\ worker'[u].plan = worker[u].plan
          /\ \/ worker[u].pc \in {"insert", "mark", "store"}
             \/ worker'[u].pc \notin {"insert", "mark", "store"}
    OBVIOUS
  <2>1. ASSUME NEW pc, Goto(w, pc),
               worker[w].pc \in {"insert", "mark", "store"} \/ pc \notin {"insert", "mark", "store"}
        PROVE  \A u \in Worker :
                 /\ worker'[u].plan = worker[u].plan
                 /\ \/ worker[u].pc \in {"insert", "mark", "store"}
                    \/ worker'[u].pc \notin {"insert", "mark", "store"}
    BY <2>1, <1>w DEF Goto, WorkerState
  <2>2. ASSUME NEW c, FailWith(w, c)
        PROVE  \A u \in Worker :
                 /\ worker'[u].plan = worker[u].plan
                 /\ \/ worker[u].pc \in {"insert", "mark", "store"}
                    \/ worker'[u].pc \notin {"insert", "mark", "store"}
    BY <2>2, <1>w DEF FailWith, WorkerState
  <2>3. CASE Forget(w)
    BY <2>3, <1>w, <2>0 DEF Forget, IdleWorker
  <2>4. CASE AcquirePublish(w) \/ \E q \in Quote : AcquireFinalize(w, q)
    <3>1. \A u \in Worker : u # w => worker'[u] = worker[u]
      BY <2>4, <1>w DEF AcquirePublish, AcquireFinalize
    <3>2. worker'[w].plan = NoPlan
      <4>1. CASE AcquirePublish(w)
        BY <4>1, <1>w DEF AcquirePublish, IdleWorker
      <4>2. ASSUME NEW q \in Quote, AcquireFinalize(w, q) PROVE worker'[w].plan = NoPlan
        BY <4>2, <1>w DEF AcquireFinalize, IdleWorker
      <4> QED BY <2>4, <4>1, <4>2
    <3> QED BY <2>0, <3>1, <3>2
  <2>5. CASE PrepareRevision(w)
    <3>1. \A u \in Worker : u # w => worker'[u] = worker[u]
      BY <2>5, <1>w DEF PrepareRevision
    <3>2. worker'[w].plan.revision = generation /\ worker'[w].pc = "build"
      BY <2>5, <1>w DEF PrepareRevision, WorkerState, Plan
    <3> QED BY <2>0, <3>1, <3>2
  <2>6. CASE PrepareBuild(w)
    <3>1. \A u \in Worker : u # w => worker'[u] = worker[u]
      BY <2>6, <1>w DEF PrepareBuild
    <3>2. worker'[w].plan.revision = worker[w].plan.revision /\ worker'[w].plan.all = Catalog
      BY <2>6, <1>w DEF PrepareBuild, WorkerState, Plan
    <3> QED BY <2>0, <3>1, <3>2
  <2>7. CASE ReadApproval(w)
    <3>1. CASE worker' = [worker EXCEPT ![w].pc = "mark", ![w].plan = approval[worker[w].quote].plan]
      <4>1. \A u \in Worker : u # w => worker'[u] = worker[u]
        BY <3>1, <1>w
      <4>2. worker'[w].plan = approval[worker[w].quote].plan /\ worker[w].quote \in Quote
        BY <2>7, <3>1, <1>w, <1>q DEF WorkerState, ReadApproval
      <4> QED BY <2>0, <4>1, <4>2
    <3> QED BY <2>1, <2>2, <2>7, <3>1 DEF ReadApproval
  <2>8. CASE UNCHANGED worker
    BY <2>8, <2>0
  <2>9. CASE PrepareCheck(w)
    BY <2>1, <2>2, <2>9 DEF PrepareCheck
  <2>10. CASE InsertDraft(w)
    BY <2>1, <2>2, <2>10 DEF InsertDraft
  <2>11. CASE ActivateLease(w) \/ MarkUploading(w) \/ FinalizeCommit(w) \/ RepairPublished(w)
    BY <2>1, <2>11 DEF ActivateLease, MarkUploading, FinalizeCommit, RepairPublished
  <2>12. ASSUME NEW c \in Class, JobFails(w, c)
         PROVE  \A u \in Worker :
                 /\ worker'[u].plan = worker[u].plan
                 /\ \/ worker[u].pc \in {"insert", "mark", "store"}
                    \/ worker'[u].pc \notin {"insert", "mark", "store"}
    BY <2>2, <2>12 DEF JobFails
  <2>13. CASE StoreAdmitted(w)
    BY <2>8, <2>13 DEF StoreAdmitted
  <2>14. CASE \/ MarkSucceeded(w) \/ RetryLater(w) \/ PublishFails(w) \/ RunLost(w) \/ Interrupt(w)
              \/ \E unpaid \in BOOLEAN : FinalizeFails(w, unpaid)
    BY <2>3, <2>14 DEF MarkSucceeded, RetryLater, PublishFails, RunLost, Interrupt, FinalizeFails
  <2> QED BY <2>4, <2>5, <2>6, <2>7, <2>9, <2>10, <2>11, <2>12, <2>13, <2>14 DEF Run
<1> QED BY <1>c, <1>a, <1>u, PlanKept

\* Approval, resume, the gateway, a restart and time keep the plans.
LEMMA PlanOthers ==
  ASSUME TypeOK, PlanInv,
         \/ \E q \in Quote : Approve(q) \/ ApproveLost(q) \/ Resume(q) \/ Gateway(q)
         \/ Restart \/ LeaseLapses \/ RetryDue
  PROVE  PlanInv'
<1>1. UNCHANGED <<row, generation, plan>>
  BY DEF catalogVars, Approve, ApproveLost, Resume, Gateway, Restart, LeaseLapses, RetryDue
<1>2. \A q \in Quote : approval'[q].plan = approval[q].plan
  BY ApprovalEffect DEF Approve, ApproveLost, Resume, Gateway, Restart, LeaseLapses, RetryDue, Decides
<1>3. UNCHANGED worker \/ \A w \in Worker : worker'[w].plan = NoPlan
  BY DEF Approve, ApproveLost, Resume, Gateway, Restart, LeaseLapses, RetryDue, IdleWorker
<1> QED BY <1>1, <1>2, <1>3, PlanKept

-----------------------------------------------------------------------------
(* The theorems.                                                           *)

\* The inductive invariant.
IInv == TypeOK /\ PaymentInv /\ PlanInv

\* The initial state satisfies the invariant.
LEMMA InitInv == Init => IInv
<1> SUFFICES ASSUME Init PROVE IInv
  OBVIOUS
<1>1. TypeOK
  BY InitType
<1>n. None \notin Quote /\ None \notin Nat
  BY CatalogAssumption
<1>2. /\ \A q \in Quote : /\ approval[q].state = "none" /\ approval[q].plan = NoPlan
                          /\ finalize[q].status = "none"
                          /\ ~gw[q].admitted /\ ~gw[q].paid
      /\ \A w \in Worker : worker[w].pc = "idle" /\ worker[w].quote = None /\ worker[w].plan = NoPlan
      /\ \A v \in Video : plan[v] = NoPlan
  BY DEF Init, NoJob, NoApproval, IdleWorker
<1>3. PaymentInv
  BY <1>2, <1>n DEF PaymentInv, PcInv, JobInv, RunInv, Holds, GatewayInv, DoneInv, OneCatalogPayment,
                    Unapproved, Open
<1>4. PlanInv
  <2>1. generation \in Nat /\ NoPlan.revision = None
    BY <1>1 DEF TypeOK, NoPlan
  <2>2. Past(NoPlan.revision) /\ Current(NoPlan) /\ NoPlan.revision # generation
    BY <2>1, <1>n, PastPlans
  <2> QED BY <1>2, <2>1, <2>2
          DEF PlanInv, RevisionInv, VideoPlanInv, ApprovalPlanInv, RunPlanInv
<1> QED BY <1>1, <1>3, <1>4 DEF IInv

\* Every step keeps the invariant.
LEMMA NextInv == IInv /\ [Next]_vars => IInv'
<1> SUFFICES ASSUME IInv, [Next]_vars PROVE IInv'
  OBVIOUS
<1> USE DEF IInv
<1>1. ASSUME NEW v \in Video, Videos(v) PROVE IInv'
  <2>1. UNCHANGED <<approval, finalize, worker, gw, done>>
    BY <1>1 DEF Videos, AcceptUpload, QuoteVideo, VideoReady, DeleteVideo, UpdateVisibility,
                UpdatePublication
  <2>2. PaymentInv'
    BY <2>1 DEF PaymentInv, PcInv, JobInv, RunInv, Holds, GatewayInv, DoneInv, OneCatalogPayment
  <2> QED BY <1>1, <2>2, VideoSteps, PlanVideos
<1>2. ASSUME NEW t \in Task, Handlers(t) PROVE IInv'
  <2>1. UNCHANGED <<row, generation, plan, approval, finalize, worker, gw, done>>
    BY <1>2 DEF Handlers, PublishCatalogs, RefreshLocal, RepairFile, SchedulePublish, HandlerFails,
                catalogVars
  <2>2. PaymentInv'
    BY <2>1 DEF PaymentInv, PcInv, JobInv, RunInv, Holds, GatewayInv, DoneInv, OneCatalogPayment
  <2>3. PlanInv'
    <3>1. \A u \in Worker : \/ worker[u].pc \in {"insert", "mark", "store"}
                            \/ worker'[u].pc \notin {"insert", "mark", "store"}
      BY <2>1
    <3> QED BY <2>1, <3>1, PlanKept
  <2> QED BY <1>2, <2>2, <2>3, HandlerSteps
<1>3. ASSUME NEW w \in Worker, Run(w) PROVE IInv'
  BY <1>3, RunSteps, PaymentRun, PlanRun DEF PaymentInv
<1>4. CASE \/ \E q \in Quote : Approve(q) \/ ApproveLost(q) \/ Resume(q) \/ Gateway(q)
           \/ Restart \/ LeaseLapses \/ RetryDue
  BY <1>4, OtherSteps, PaymentOthers, PlanOthers
<1>5. CASE UNCHANGED vars
  BY <1>5 DEF vars, TypeOK, PaymentInv, PcInv, JobInv, RunInv, Holds, GatewayInv, DoneInv,
              OneCatalogPayment, PlanInv, RevisionInv, Past, VideoPlanInv, With, ApprovalPlanInv,
              RunPlanInv, Current, Catalog, EntryOf
<1> QED BY <1>1, <1>2, <1>3, <1>4, <1>5 DEF Next

\* The invariant holds in every reachable state.
LEMMA Invariance == Spec => []IInv
<1> QED BY InitInv, NextInv, PTL DEF Spec

\* The tables and the tasks' local state keep their types, whatever the number of
\* videos, quotes, workers and handlers.
THEOREM CatalogTypes == Spec => []TypeOK
<1>1. IInv => TypeOK
  BY DEF IInv
<1> QED BY <1>1, Invariance, PTL

\* Of the approvals that were not published, one at most is a draft, active or
\* uncertain: insert_draft cannot put a fresh quote beside a payment that may have
\* been made, whoever lost a job, a lease or an answer meanwhile.
THEOREM OnePayment == Spec => []OneCatalogPayment
<1>1. IInv => OneCatalogPayment
  BY DEF IInv, PaymentInv
<1> QED BY <1>1, Invariance, PTL

\* A publication that was paid for is completed or kept for recovery.
THEOREM PaidKept == Spec => []PaidIsKept
<1>1. IInv => PaidIsKept
  BY DEF IInv, TypeOK, ApprovalState, PaymentInv, GatewayInv, PaidIsKept, Unapproved, Open
<1> QED BY <1>1, Invariance, PTL

\* A restart with changes that were not published leaves a publish job queued: the
\* snapshot in the database decides, whatever the file said when the process ended.
THEOREM RestartQueues == Spec => RestartPrepares
<1>1. ASSUME TypeOK, Restart, snapshot.pending PROVE Publishing(publish')
  <2>1. TRUE \in FilePending(FALSE) /\ \A p \in FilePending(FALSE) : p
    BY <1>1 DEF FilePending
  <2>2. publish' = Enqueued(Requeued(publish))
    BY <1>1, <2>1 DEF Restart, RestoredFile
  <2>3. NewJob.status = "queued"
    BY DEF NewJob, NoJob
  <2> QED BY <2>2, <2>3 DEF Enqueued, Publishing
<1>2. IInv /\ [Next]_vars => [Restart /\ snapshot.pending => Publishing(publish')]_vars
  BY <1>1 DEF IInv
<1> QED BY <1>2, Invariance, PTL DEF Spec, RestartPrepares

\* Whatever runs, retries and reports are still under way, an approval that was
\* superseded or cancelled stays so.
THEOREM RefusalFinal == Spec => RefusedIsFinal
<1> DEFINE Kept == \A q \in Quote : approval[q].state \in {"superseded", "approval_required"}
                                      => approval'[q].state = approval[q].state
<1>1. ASSUME IInv, Next PROVE Kept
  <2>1. CASE UNCHANGED approval
    BY <2>1
  <2>n. None \notin Quote
    BY CatalogAssumption
  <2>2. ASSUME NEW w \in Worker, Run(w) PROVE Kept
    <3>w. worker[w].quote \in Quote \cup {None}
      BY <1>1 DEF IInv, TypeOK, WorkerState
    <3>1. CASE InsertDraft(w)
      <4>1. CASE UNCHANGED approval
        BY <4>1
      <4>2. ASSUME NEW q \in Quote, approval[q].state = "none",
                   approval' = [p \in Quote |->
                      IF p = q THEN [state |-> "draft", plan |-> worker[w].plan]
                      ELSE IF approval[p].state = "draft" THEN Superseded
                           ELSE approval[p]]
            PROVE  Kept
        BY <4>2
      <4> QED BY <3>1, <4>1, <4>2 DEF InsertDraft
    <3>2. CASE MarkUploading(w) \/ FinalizeCommit(w)
      <4>1. /\ worker[w].quote \in Quote
            /\ approval[worker[w].quote].state \in {"approved", "uploading"}
        BY <1>1, <3>2, <3>w, <2>n DEF MarkUploading, FinalizeCommit, Fenced, JobOf, Holds, IInv, PaymentInv,
                                RunInv, PcInv
      <4>2. \E s : Decides(worker[w].quote, s)
        BY <1>1, <3>2, <4>1, ApprovalEffect DEF MarkUploading, FinalizeCommit, IInv
      <4> QED BY <4>1, <4>2 DEF Decides
    <3>3. ASSUME NEW unpaid \in BOOLEAN, FinalizeFails(w, unpaid) PROVE Kept
      <4>1. /\ worker[w].quote \in Quote
            /\ approval[worker[w].quote].state \in {"approved", "uploading", "complete"}
        BY <1>1, <3>3, <3>w, <2>n DEF FinalizeFails, Fenced, JobOf, IInv, PaymentInv, JobInv
      <4>2. Decides(worker[w].quote, FailedState(w, unpaid))
        BY <1>1, <3>3, <4>1, ApprovalEffect DEF FinalizeFails, IInv
      <4> QED BY <4>1, <4>2 DEF Decides
    <3> QED BY <2>1, <2>2, <3>1, <3>2, <3>3
            DEF Run, AcquirePublish, PrepareCheck, PrepareRevision, PrepareBuild, AcquireFinalize,
                ActivateLease, ReadApproval, StoreAdmitted, RepairPublished, JobFails, MarkSucceeded,
                RetryLater, PublishFails, RunLost, Interrupt
  <2>3. ASSUME NEW q \in Quote, Approve(q) \/ Resume(q) PROVE Kept
    <3>1. Decides(q, "approved") /\ approval[q].state \in {"draft", "payment_recovery_required"}
      BY <1>1, <2>3, ApprovalEffect DEF Approve, Resume, IInv
    <3> QED BY <3>1 DEF Decides
  <2> QED BY <1>1, <2>1, <2>2, <2>3
          DEF Next, Videos, AcceptUpload, QuoteVideo, VideoReady, DeleteVideo, UpdateVisibility,
              UpdatePublication, Handlers, PublishCatalogs, RefreshLocal, RepairFile, SchedulePublish,
              HandlerFails, ApproveLost, Gateway, Restart, LeaseLapses, RetryDue
<1>2. IInv /\ [Next]_vars => [Kept]_vars
  BY <1>1
<1> QED BY <1>2, Invariance, PTL DEF Spec, RefusedIsFinal

\* Whatever is committed as the network's catalog lists exactly the ready videos
\* and as public exactly the public ones: the fences on the revision suffice, for
\* any number of videos, publications and concurrent changes.
THEOREM PublicationExact == Spec => PublishedExact
<1> DEFINE Exact == snapshot' # snapshot => Listing(snapshot'.all) = Listing(Catalog')
<1>1. ASSUME IInv, Next PROVE Exact
  <2>1. CASE UNCHANGED snapshot
    BY <2>1
  <2>2. ASSUME NEW v \in Video, NEW t \in Task, VideoReady(t, v) PROVE Exact
    <3> DEFINE new == [row[v] EXCEPT !.status = "ready", !.public = row[v].auto]
    <3>1. /\ row \in [Video -> Row] /\ row[v] \in Row
          /\ row' = [row EXCEPT ![v] = new] /\ row[v].status = "waiting"
      BY <1>1, <2>2 DEF VideoReady, SetRow, IInv, TypeOK
    <3>2. new.status = "ready" /\ new.public = row[v].auto /\ new.show = row[v].show
      BY <3>1 DEF Row
    <3>3. snapshot'.all = plan[v].all /\ Listing(plan[v].all) = With(v)
      BY <1>1, <2>2, <3>1 DEF VideoReady, Commits, IInv, PlanInv, VideoPlanInv
    <3> HIDE DEF new
    <3>4. \A u \in Video : u # v => row'[u] = row[u]
      BY <3>1
    <3>5. row'[v] = new
      BY <3>1
    <3>6. {e \in Catalog : e.video # v} = Catalog
      BY <3>1 DEF Catalog, EntryOf
    <3>7. Catalog' = Catalog \cup {[video |-> v, public |-> row[v].auto, show |-> row[v].show]}
      BY <3>1, <3>2, <3>4, <3>5 DEF Catalog, EntryOf
    <3>8. Listing(Catalog') = With(v)
      <4> DEFINE e == [video |-> v, public |-> row[v].auto, show |-> row[v].show]
      <4>1. e.video = v /\ e.public = row[v].auto
        OBVIOUS
      <4>2. Listing(Catalog \cup {e}) = Listing(Catalog) \cup {[video |-> e.video, public |-> e.public]}
        BY ListingWith
      <4> HIDE DEF e
      <4>3. With(v) = Listing(Catalog) \cup {[video |-> v, public |-> row[v].auto]}
        BY <3>6 DEF With
      <4>4. Catalog' = Catalog \cup {e}
        BY <3>7 DEF e
      <4>5. Listing(Catalog') = Listing(Catalog \cup {e})
        BY <4>4
      <4> QED BY <4>1, <4>2, <4>3, <4>5
    <3> QED BY <3>3, <3>8
  <2>3. ASSUME NEW t \in Task, RefreshLocal(t) PROVE Exact
    <3>1. Catalog' = Catalog /\ snapshot'.all = Catalog
      BY <2>3 DEF RefreshLocal, Commits, Catalog, EntryOf
    <3> QED BY <3>1
  <2>4. ASSUME NEW w \in Worker, FinalizeCommit(w) PROVE Exact
    <3>1. Catalog' = Catalog /\ snapshot'.all = worker[w].plan.all
      BY <2>4 DEF FinalizeCommit, Commits, Catalog, EntryOf
    <3>2. worker[w].plan.all = Catalog
      BY <1>1, <2>4 DEF FinalizeCommit, IInv, PlanInv, RunPlanInv, Current
    <3> QED BY <3>1, <3>2
  <2>5. ASSUME NEW w \in Worker, Run(w) PROVE Exact
    BY <2>1, <2>4, <2>5
       DEF Run, catalogVars, AcquirePublish, PrepareCheck, PrepareRevision, PrepareBuild, InsertDraft,
           AcquireFinalize, ActivateLease, ReadApproval, MarkUploading, StoreAdmitted, RepairPublished,
           JobFails, MarkSucceeded, RetryLater, PublishFails, RunLost, Interrupt, FinalizeFails
  <2> QED BY <1>1, <2>1, <2>2, <2>3, <2>5
          DEF Next, catalogVars, Videos, AcceptUpload, QuoteVideo, DeleteVideo, UpdateVisibility,
              UpdatePublication, Handlers, PublishCatalogs, RepairFile, SchedulePublish, HandlerFails,
              Approve, Resume, ApproveLost, Gateway, Restart, LeaseLapses, RetryDue
<1>2. IInv /\ [Next]_vars => [Exact]_vars
  BY <1>1
<1> QED BY <1>2, Invariance, PTL DEF Spec, PublishedExact

-----------------------------------------------------------------------------
(* The gateway's view.                                                     *)

\* Runs of a finalize job have a generation, whatever was leased was approved, and
\* nothing is admitted without a lease.
ViewInv ==
  /\ \A w \in Worker : worker[w].quote # None => worker[w].gen > 0
  /\ \A q \in Quote : /\ approval[q].state \notin Unapproved => gw[q].phase # "none"
                      /\ gw[q].gen > 0 => gw[q].phase # "none"
                      /\ gw[q].admitted => gw[q].gen > 0

\* Only the approval q changes at the gateway.
OnlyRow(q) == \A p \in Quote : p # q => gw'[p] = gw[p]

\* What a step does to the approval q, as the model's actions put it.
RowMoves(q) ==
  LET g == gw[q]
      h == gw'[q]
  IN
  \/ g.phase = "none" /\ h = [g EXCEPT !.phase = "open"]
  \/ \E n \in Nat \ {0} : /\ g.phase # "none" /\ g.gen <= n
                          /\ h = [g EXCEPT !.gen = n, !.admitted = g.admitted /\ g.gen = n]
  \/ g.phase = "open" /\ g.gen > 0 /\ h = [g EXCEPT !.admitted = TRUE]
  \/ g.gen > 0 /\ ~g.paid /\ h = [g EXCEPT !.phase = "cancelled"]
  \/ g.phase = "open" /\ g.admitted /\ h = [g EXCEPT !.paid = TRUE]
  \/ h = [g EXCEPT !.stored = TRUE]

\* What a run does to the approval of its quote.
LEMMA RunRow ==
  ASSUME IInv, ViewInv, NEW w \in Worker, Run(w)
  PROVE  UNCHANGED gw \/ \E q \in Quote : OnlyRow(q) /\ RowMoves(q)
<1> DEFINE q == worker[w].quote
<1>t. /\ gw \in [Quote -> GatewayRow] /\ worker[w].quote \in Quote \cup {None}
      /\ worker[w].gen \in Nat
  BY DEF IInv, TypeOK, WorkerState
<1>q. q # None => q \in Quote /\ worker[w].gen > 0 /\ gw[q].phase # "none"
  BY <1>t DEF ViewInv, IInv, PaymentInv, RunInv
<1>1. CASE ActivateLease(w)
  <2>1. q # None
    BY <1>1 DEF ActivateLease, IInv, PaymentInv, PcInv
  <2>2. /\ gw[q].gen <= worker[w].gen
        /\ gw'[q] = [gw[q] EXCEPT !.gen = worker[w].gen,
                                  !.admitted = gw[q].admitted /\ gw[q].gen = worker[w].gen]
        /\ OnlyRow(q)
    BY <1>t, <1>q, <1>1, <2>1 DEF ActivateLease, GatewayLeases, OnlyRow
  <2>3. worker[w].gen \in Nat \ {0}
    BY <1>t, <1>q, <2>1
  <2> QED BY <1>q, <2>1, <2>2, <2>3 DEF RowMoves
<1>2. CASE StoreAdmitted(w)
  <2>1. q # None
    BY <1>2 DEF StoreAdmitted, IInv, PaymentInv, PcInv
  <2>2. /\ gw[q].phase = "open" /\ gw[q].gen > 0 /\ OnlyRow(q)
        /\ gw'[q] = [gw[q] EXCEPT !.admitted = TRUE]
    BY <1>t, <1>q, <1>2, <2>1 DEF StoreAdmitted, OnlyRow
  <2> QED BY <1>q, <2>1, <2>2 DEF RowMoves
<1>3. CASE q # None /\ GatewayCancels(w)
  <2>1. /\ gw[q].gen > 0 /\ ~gw[q].paid /\ OnlyRow(q)
        /\ gw'[q] = [gw[q] EXCEPT !.phase = "cancelled"]
    BY <1>t, <1>q, <1>3 DEF GatewayCancels, OnlyRow
  <2> QED BY <1>q, <1>3, <2>1 DEF RowMoves
<1>4. CASE \E unpaid \in BOOLEAN : FinalizeFails(w, unpaid)
  BY <1>3, <1>4 DEF FinalizeFails
<1>5. CASE RunLost(w)
  BY <1>3, <1>5 DEF RunLost
<1> QED
  BY <1>1, <1>2, <1>4, <1>5 DEF Run, AcquirePublish, PrepareCheck, PrepareRevision, PrepareBuild,
     InsertDraft, AcquireFinalize, ReadApproval, MarkUploading, FinalizeCommit, RepairPublished,
     JobFails, MarkSucceeded, RetryLater, PublishFails, Interrupt

\* What any step does to the approvals at the gateway.
LEMMA NextRow ==
  ASSUME IInv, ViewInv, [Next]_vars
  PROVE  UNCHANGED gw \/ \E q \in Quote : OnlyRow(q) /\ RowMoves(q)
<1>t. gw \in [Quote -> GatewayRow]
  BY DEF IInv, TypeOK
<1>1. ASSUME NEW q \in Quote, GatewayApproves(q)
      PROVE  UNCHANGED gw \/ (OnlyRow(q) /\ RowMoves(q))
  <2>1. CASE gw[q].phase = "none"
    <3>1. gw'[q] = [gw[q] EXCEPT !.phase = "open"] /\ OnlyRow(q)
      BY <1>t, <1>1, <2>1 DEF GatewayApproves, OnlyRow
    <3> QED BY <2>1, <3>1 DEF RowMoves
  <2>2. CASE gw[q].phase # "none"
    BY <1>t, <1>1, <2>2 DEF GatewayApproves, GatewayRow
  <2> QED BY <2>1, <2>2
<1>2. ASSUME NEW q \in Quote, Gateway(q)
      PROVE  OnlyRow(q) /\ RowMoves(q)
  <2>1. CASE GatewayPays(q)
    BY <1>t, <2>1 DEF GatewayPays, OnlyRow, RowMoves
  <2>2. CASE GatewayStores(q)
    BY <1>t, <2>2 DEF GatewayStores, OnlyRow, RowMoves
  <2> QED BY <1>2, <2>1, <2>2 DEF Gateway
<1>3. ASSUME NEW v \in Video, Videos(v)
      PROVE  UNCHANGED gw
  BY <1>3 DEF Videos, AcceptUpload, QuoteVideo, VideoReady, DeleteVideo, UpdateVisibility,
     UpdatePublication
<1>4. ASSUME NEW t \in Task, Handlers(t)
      PROVE  UNCHANGED gw
  BY <1>4 DEF Handlers, PublishCatalogs, RefreshLocal, RepairFile, SchedulePublish, HandlerFails
<1>5. ASSUME NEW q \in Quote, Approve(q) \/ ApproveLost(q) \/ Resume(q)
      PROVE  GatewayApproves(q) \/ UNCHANGED gw
  BY <1>5 DEF Approve, ApproveLost, Resume
<1>6. CASE Restart \/ LeaseLapses \/ RetryDue \/ UNCHANGED vars
  BY <1>6 DEF Restart, LeaseLapses, RetryDue, vars
<1> QED BY <1>1, <1>2, <1>3, <1>4, <1>5, <1>6, RunRow DEF Next

\* An approval is known to the gateway by the time the admin service relies on it.
LEMMA NextApproval ==
  ASSUME IInv, [Next]_vars, NEW q \in Quote, approval'[q].state \notin Unapproved
  PROVE  approval[q].state \notin Unapproved \/ gw'[q].phase # "none"
<1>t. /\ approval \in [Quote -> [state: ApprovalState, plan: Plan]]
      /\ gw \in [Quote -> GatewayRow] /\ worker \in [Worker -> WorkerState]
  BY DEF IInv, TypeOK
<1>r. \A w \in Worker : worker[w].quote = q => approval[q].state \notin Unapproved
  BY DEF IInv, PaymentInv, RunInv
<1>1. ASSUME NEW w \in Worker, Run(w)
      PROVE  approval[q].state \notin Unapproved
  <2>1. CASE InsertDraft(w)
    <3>1. CASE UNCHANGED approval
      BY <3>1
    <3>2. ASSUME NEW d \in Quote,
                 approval' = [p \in Quote |->
                   IF p = d THEN [state |-> "draft", plan |-> worker[w].plan]
                   ELSE IF approval[p].state = "draft" THEN Superseded ELSE approval[p]]
          PROVE  approval[q].state \notin Unapproved
      BY <3>2 DEF Superseded, Unapproved
    <3> QED BY <2>1, <3>1, <3>2 DEF InsertDraft
  <2>2. ASSUME NEW s, approval' = [approval EXCEPT ![worker[w].quote].state = s]
        PROVE  approval[q].state \notin Unapproved
    BY <1>t, <1>r, <2>2
  <2> QED
    BY <1>1, <2>1, <2>2 DEF Run, AcquirePublish, PrepareCheck, PrepareRevision, PrepareBuild,
       AcquireFinalize, ActivateLease, ReadApproval, MarkUploading, StoreAdmitted, FinalizeCommit,
       RepairPublished, JobFails, MarkSucceeded, RetryLater, PublishFails, RunLost, Interrupt,
       FinalizeFails
<1>2. ASSUME NEW p \in Quote, Approve(p)
      PROVE  approval[q].state \notin Unapproved \/ gw'[q].phase # "none"
  <2>1. CASE p = q
    BY <1>t, <1>2, <2>1 DEF Approve, GatewayApproves
  <2>2. CASE p # q
    BY <1>t, <1>2, <2>2 DEF Approve
  <2> QED BY <2>1, <2>2
<1>3. ASSUME NEW p \in Quote, Resume(p)
      PROVE  approval[q].state \notin Unapproved
  BY <1>t, <1>3 DEF Resume, Unapproved
<1>4. ASSUME NEW v \in Video, Videos(v)
      PROVE  UNCHANGED approval
  BY <1>4 DEF Videos, AcceptUpload, QuoteVideo, VideoReady, DeleteVideo, UpdateVisibility,
     UpdatePublication
<1>5. ASSUME NEW t \in Task, Handlers(t)
      PROVE  UNCHANGED approval
  BY <1>5 DEF Handlers, PublishCatalogs, RefreshLocal, RepairFile, SchedulePublish, HandlerFails
<1>6. CASE \/ Restart \/ LeaseLapses \/ RetryDue \/ UNCHANGED vars
           \/ \E p \in Quote : ApproveLost(p) \/ Gateway(p)
  BY <1>6 DEF Restart, LeaseLapses, RetryDue, vars, ApproveLost, Gateway
<1> QED BY <1>1, <1>2, <1>3, <1>4, <1>5, <1>6 DEF Next

\* A run of a finalize job has a generation as long as it is one.
LEMMA NextRun ==
  ASSUME IInv, ViewInv, [Next]_vars
  PROVE  \A w \in Worker : worker'[w].quote # None => worker'[w].gen > 0
<1> DEFINE Numbered == \A u \in Worker : worker'[u].quote # None => worker'[u].gen > 0
<1>t. /\ worker \in [Worker -> WorkerState] /\ finalize \in [Quote -> Job]
  BY DEF IInv, TypeOK
<1>1. ASSUME NEW w \in Worker, NEW pc, Moves(w, pc) \/ Gone(w)
      PROVE  Numbered
  BY <1>1 DEF ViewInv, Moves, Gone, IdleWorker
<1>2. ASSUME NEW w \in Worker, Run(w)
      PROVE  Numbered
  <2>1. CASE PrepareCheck(w) \/ ActivateLease(w) \/ MarkUploading(w) \/ FinalizeCommit(w)
             \/ RepairPublished(w) \/ InsertDraft(w) \/ (\E c \in Class : JobFails(w, c))
    <3>1. (\E pc : Goto(w, pc)) \/ (\E c : FailWith(w, c))
      BY <2>1 DEF PrepareCheck, ActivateLease, MarkUploading, FinalizeCommit, RepairPublished,
         InsertDraft, JobFails
    <3> QED BY <1>t, <1>1, <3>1, WorkerEffects DEF TypeOK, IInv
  <2>2. CASE MarkSucceeded(w) \/ RetryLater(w) \/ PublishFails(w) \/ RunLost(w) \/ Interrupt(w)
             \/ (\E unpaid \in BOOLEAN : FinalizeFails(w, unpaid))
    <3>1. Forget(w)
      BY <2>2 DEF MarkSucceeded, RetryLater, PublishFails, RunLost, Interrupt, FinalizeFails
    <3> QED BY <1>1, <3>1, WorkerEffects DEF IInv
  <2>3. CASE PrepareRevision(w) \/ PrepareBuild(w)
    <3>1. \A u \in Worker : worker'[u].quote = worker[u].quote /\ worker'[u].gen = worker[u].gen
      BY <1>t, <2>3 DEF PrepareRevision, PrepareBuild, WorkerState
    <3> QED BY <3>1 DEF ViewInv
  <2>4. CASE ReadApproval(w)
    <3> DEFINE a == approval[worker[w].quote]
    <3>1. \/ Goto(w, "done") \/ (\E c : FailWith(w, c))
          \/ worker' = [worker EXCEPT ![w].pc = "mark", ![w].plan = a.plan]
      BY <2>4 DEF ReadApproval
    <3>2. CASE worker' = [worker EXCEPT ![w].pc = "mark", ![w].plan = a.plan]
      <4>1. \A u \in Worker : worker'[u].quote = worker[u].quote /\ worker'[u].gen = worker[u].gen
        BY <1>t, <3>2 DEF WorkerState
      <4> QED BY <4>1 DEF ViewInv
    <3> QED BY <1>1, <3>1, <3>2, WorkerEffects DEF IInv
  <2>5. CASE StoreAdmitted(w)
    BY <2>5 DEF StoreAdmitted, ViewInv
  <2>6. CASE AcquirePublish(w)
    <3>1. worker'[w].quote = None /\ \A u \in Worker : u # w => worker'[u] = worker[u]
      BY <1>t, <2>6 DEF AcquirePublish, IdleWorker
    <3> QED BY <3>1 DEF ViewInv
  <2>7. ASSUME NEW q \in Quote, AcquireFinalize(w, q)
        PROVE  Numbered
    <3>1. finalize[q].attempts + 1 > 0
      BY <1>t DEF Job
    <3>2. /\ worker'[w].gen = finalize[q].attempts + 1
          /\ \A u \in Worker : u # w => worker'[u] = worker[u]
      BY <1>t, <2>7 DEF AcquireFinalize, IdleWorker
    <3> QED BY <3>1, <3>2 DEF ViewInv
  <2> QED BY <1>2, <2>1, <2>2, <2>3, <2>4, <2>5, <2>6, <2>7 DEF Run
<1>3. CASE UNCHANGED worker
  BY <1>3 DEF ViewInv
<1>4. CASE Restart
  BY <1>4 DEF Restart, IdleWorker
<1>5. ASSUME NEW v \in Video, Videos(v)
      PROVE  UNCHANGED worker
  BY <1>5 DEF Videos, AcceptUpload, QuoteVideo, VideoReady, DeleteVideo, UpdateVisibility,
     UpdatePublication
<1>6. ASSUME NEW t \in Task, Handlers(t)
      PROVE  UNCHANGED worker
  BY <1>6 DEF Handlers, PublishCatalogs, RefreshLocal, RepairFile, SchedulePublish, HandlerFails
<1>7. CASE LeaseLapses \/ RetryDue \/ UNCHANGED vars
           \/ \E q \in Quote : Approve(q) \/ ApproveLost(q) \/ Resume(q) \/ Gateway(q)
  <2>1. UNCHANGED worker
    BY <1>7 DEF LeaseLapses, RetryDue, vars, Approve, ApproveLost, Resume, Gateway
  <2> QED BY <1>3, <2>1
<1> QED BY <1>2, <1>3, <1>4, <1>5, <1>6, <1>7 DEF Next

\* A move of an approval leaves it known, and its admissions leased.
LEMMA MoveKeeps ==
  ASSUME IInv, ViewInv, NEW q \in Quote, RowMoves(q)
  PROVE  /\ gw[q].phase # "none" => gw'[q].phase # "none"
         /\ gw'[q].gen > 0 => gw'[q].phase # "none"
         /\ gw'[q].admitted => gw'[q].gen > 0
<1>t. gw[q] \in GatewayRow
  BY DEF IInv, TypeOK
<1>v. /\ gw[q].gen > 0 => gw[q].phase # "none"
      /\ gw[q].admitted => gw[q].gen > 0
  BY DEF ViewInv
<1>1. ASSUME NEW n \in Nat \ {0}, gw[q].phase # "none",
             gw'[q] = [gw[q] EXCEPT !.gen = n, !.admitted = gw[q].admitted /\ gw[q].gen = n]
      PROVE  gw'[q].phase # "none" /\ gw'[q].gen > 0
  BY <1>t, <1>1 DEF GatewayRow
<1>2. ASSUME NEW p, p # "none", gw'[q] = [gw[q] EXCEPT !.phase = p]
      PROVE  gw'[q].phase # "none" /\ gw'[q].gen = gw[q].gen /\ gw'[q].admitted = gw[q].admitted
  BY <1>t, <1>2 DEF GatewayRow
<1>3. CASE \/ gw'[q] = [gw[q] EXCEPT !.paid = TRUE] \/ gw'[q] = [gw[q] EXCEPT !.stored = TRUE]
  <2>1. /\ gw'[q].phase = gw[q].phase /\ gw'[q].gen = gw[q].gen
        /\ gw'[q].admitted = gw[q].admitted
    BY <1>t, <1>3 DEF GatewayRow
  <2> QED BY <1>v, <2>1
<1>4. CASE gw[q].gen > 0 /\ gw'[q] = [gw[q] EXCEPT !.admitted = TRUE]
  <2>1. gw'[q].phase = gw[q].phase /\ gw'[q].gen = gw[q].gen
    BY <1>t, <1>4 DEF GatewayRow
  <2> QED BY <1>v, <1>4, <2>1
<1> QED BY <1>v, <1>1, <1>2, <1>3, <1>4 DEF RowMoves

\* Every step keeps what the view rests on.
LEMMA NextView ==
  ASSUME IInv, ViewInv, [Next]_vars
  PROVE  ViewInv'
<1>1. \A q \in Quote : /\ gw[q].phase # "none" => gw'[q].phase # "none"
                       /\ gw'[q].gen > 0 => gw'[q].phase # "none"
                       /\ gw'[q].admitted => gw'[q].gen > 0
  <2>1. CASE UNCHANGED gw
    BY <2>1 DEF ViewInv
  <2>2. ASSUME NEW p \in Quote, OnlyRow(p), RowMoves(p), NEW q \in Quote
        PROVE  /\ gw[q].phase # "none" => gw'[q].phase # "none"
               /\ gw'[q].gen > 0 => gw'[q].phase # "none"
               /\ gw'[q].admitted => gw'[q].gen > 0
    <3>1. CASE p = q
      BY <2>2, <3>1, MoveKeeps
    <3>2. CASE p # q
      BY <2>2, <3>2 DEF OnlyRow, ViewInv
    <3> QED BY <3>1, <3>2
  <2> QED BY <2>1, <2>2, NextRow
<1>2. \A q \in Quote : approval'[q].state \notin Unapproved => gw'[q].phase # "none"
  BY <1>1, NextApproval DEF ViewInv
<1> QED BY <1>1, <1>2, NextRun DEF ViewInv

seen == [q \in Quote |-> Seen(q)]

\* A row of the view with its fields.
IsRow(r) ==
  r = [phase |-> r.phase, job |-> r.job, gen |-> r.gen, live |-> r.live,
       admitted |-> r.admitted, paid |-> r.paid, expired |-> r.expired]

\* What is seen of an approval is such a row, before and after a step.
LEMMA SeenFields ==
  ASSUME NEW q
  PROVE  /\ IsRow(Seen(q)) /\ IsRow(Seen(q)')
         /\ Seen(q).phase = gw[q].phase /\ Seen(q).gen = gw[q].gen
         /\ Seen(q).job = (IF gw[q].gen = 0 THEN None ELSE q) /\ Seen(q).live = (gw[q].gen > 0)
         /\ Seen(q).admitted = gw[q].admitted /\ Seen(q).paid = gw[q].paid
         /\ Seen(q).expired = FALSE
         /\ Seen(q)'.phase = gw'[q].phase /\ Seen(q)'.gen = gw'[q].gen
         /\ Seen(q)'.job = (IF gw'[q].gen = 0 THEN None ELSE q)
         /\ Seen(q)'.live = (gw'[q].gen > 0)
         /\ Seen(q)'.admitted = gw'[q].admitted /\ Seen(q)'.paid = gw'[q].paid
         /\ Seen(q)'.expired = FALSE
BY DEF Seen, IsRow

\* Two rows with the same lease.
SameLease(r, s) == s.job = r.job /\ s.gen = r.gen /\ s.live = r.live

\* Two rows that differ in some fields.
LEMMA RowsDiffer ==
  ASSUME NEW r, NEW s, IsRow(r), IsRow(s), s.expired = r.expired
  PROVE  /\ SameLease(r, s) /\ s.paid = r.paid /\ s.admitted = r.admitted
            => s = [r EXCEPT !.phase = s.phase]
         /\ s.phase = r.phase /\ SameLease(r, s) /\ s.paid = r.paid
            => s = [r EXCEPT !.admitted = s.admitted]
         /\ s.phase = r.phase /\ SameLease(r, s) /\ s.admitted = r.admitted
            => s = [r EXCEPT !.paid = s.paid]
         /\ s.phase = r.phase /\ s.paid = r.paid
            => s = [r EXCEPT !.job = s.job, !.gen = s.gen, !.live = s.live,
                             !.admitted = s.admitted]
BY DEF IsRow, SameLease

\* If the generation stays, the lease is seen alike.
LEMMA LeaseStill ==
  ASSUME NEW q, gw'[q].gen = gw[q].gen
  PROVE  SameLease(Seen(q), Seen(q)')
BY DEF Seen, SameLease

\* What happens to an approval is what the view allows, or is not seen.
LEMMA RowSeen ==
  ASSUME IInv, ViewInv, NEW q \in Quote, RowMoves(q)
  PROVE  \/ Gateways!Asked(Seen(q), Seen(q)') \/ Gateways!Unasked(Seen(q), Seen(q)')
         \/ Seen(q)' = Seen(q)
<1>t. gw[q] \in GatewayRow /\ gw[q].gen \in Nat
  BY DEF IInv, TypeOK, GatewayRow
<1>v. /\ gw[q].gen > 0 => gw[q].phase # "none"
      /\ gw[q].admitted => gw[q].gen > 0
  BY DEF ViewInv
<1>e. Seen(q)'.expired = Seen(q).expired
  BY SeenFields
<1>p. ASSUME NEW p, gw'[q] = [gw[q] EXCEPT !.phase = p]
      PROVE  Seen(q)' = [Seen(q) EXCEPT !.phase = p]
  <2>1. /\ gw'[q].phase = p /\ gw'[q].gen = gw[q].gen
        /\ gw'[q].admitted = gw[q].admitted /\ gw'[q].paid = gw[q].paid
    BY <1>t, <1>p DEF GatewayRow
  <2>2. /\ SameLease(Seen(q), Seen(q)') /\ Seen(q)'.paid = Seen(q).paid
        /\ Seen(q)'.admitted = Seen(q).admitted /\ Seen(q)'.phase = p
    BY <2>1, LeaseStill, SeenFields
  <2>3. Seen(q)' = [Seen(q) EXCEPT !.phase = Seen(q)'.phase]
    BY <1>e, <2>2, SeenFields, RowsDiffer
  <2> QED BY <2>2, <2>3
<1>1. CASE gw[q].phase = "none" /\ gw'[q] = [gw[q] EXCEPT !.phase = "open"]
  <2>1. Gateways!Granted(Seen(q), Seen(q)')
    BY <1>p, <1>1, SeenFields DEF Gateways!Granted
  <2> QED BY <2>1 DEF Gateways!Asked
<1>2. ASSUME NEW n \in Nat \ {0}, gw[q].phase # "none", gw[q].gen <= n,
             gw'[q] = [gw[q] EXCEPT !.gen = n, !.admitted = gw[q].admitted /\ gw[q].gen = n]
      PROVE  Gateways!Leased(Seen(q), Seen(q)')
  <2>1. /\ gw'[q].phase = gw[q].phase /\ gw'[q].gen = n
        /\ gw'[q].admitted = (gw[q].admitted /\ gw[q].gen = n) /\ gw'[q].paid = gw[q].paid
    BY <1>t, <1>2 DEF GatewayRow
  <2>2. n # 0 /\ n > 0
    BY <1>2
  <2>3. Seen(q)'.job = q /\ Seen(q)'.gen = n
    BY <2>1, <2>2, SeenFields
  <2>4. Seen(q)'.live = TRUE
    BY <2>1, <2>2, SeenFields
  <2>5. Seen(q)'.admitted = (Seen(q).admitted /\ Seen(q).gen = Seen(q)'.gen)
    BY <2>1, <2>3, SeenFields
  <2>6. Seen(q)'.phase = Seen(q).phase /\ Seen(q)'.paid = Seen(q).paid
    BY <2>1, SeenFields
  <2>7. Seen(q)' = [Seen(q) EXCEPT !.job = Seen(q)'.job, !.gen = Seen(q)'.gen,
                                   !.live = Seen(q)'.live, !.admitted = Seen(q)'.admitted]
    <3>1. IsRow(Seen(q)) /\ IsRow(Seen(q)')
      BY SeenFields
    <3> QED BY <1>e, <2>6, <3>1, RowsDiffer
  <2>8. \/ Seen(q).job = None
        \/ /\ Seen(q).job = Seen(q)'.job
           /\ Seen(q).gen < Seen(q)'.gen \/ (Seen(q).gen = Seen(q)'.gen /\ Seen(q).live)
    <3>1. CASE gw[q].gen = 0
      BY <3>1, SeenFields
    <3>2. CASE gw[q].gen < n /\ gw[q].gen # 0
      BY <2>3, <3>2, SeenFields
    <3>3. CASE gw[q].gen = n
      <4>1. Seen(q).job = q /\ Seen(q).gen = n
        BY <2>2, <3>3, SeenFields
      <4>2. Seen(q).live = TRUE
        BY <2>2, <3>3, SeenFields
      <4> QED BY <2>3, <4>1, <4>2
    <3>4. gw[q].gen = 0 \/ (gw[q].gen < n /\ gw[q].gen # 0) \/ gw[q].gen = n
      BY <1>t, <1>2
    <3> QED BY <3>1, <3>2, <3>3, <3>4
  <2>9. Seen(q).phase # "none"
    BY <1>2, SeenFields
  <2> QED BY <2>4, <2>5, <2>7, <2>8, <2>9 DEF Gateways!Leased
<1>3. CASE gw[q].phase = "open" /\ gw[q].gen > 0 /\ gw'[q] = [gw[q] EXCEPT !.admitted = TRUE]
  <2>1. /\ gw'[q].phase = gw[q].phase /\ gw'[q].gen = gw[q].gen
        /\ gw'[q].admitted = TRUE /\ gw'[q].paid = gw[q].paid
    BY <1>t, <1>3 DEF GatewayRow
  <2>2. /\ Seen(q)'.phase = Seen(q).phase /\ SameLease(Seen(q), Seen(q)')
        /\ Seen(q)'.paid = Seen(q).paid /\ Seen(q)'.admitted = TRUE
    BY <2>1, LeaseStill, SeenFields
  <2>3. Seen(q)' = [Seen(q) EXCEPT !.admitted = Seen(q)'.admitted]
    BY <1>e, <2>2, SeenFields, RowsDiffer
  <2>4. Gateways!Admitted(Seen(q), Seen(q)')
    BY <1>3, <2>2, <2>3, SeenFields DEF Gateways!Admitted, Gateways!Working
  <2> QED BY <2>4 DEF Gateways!Asked
<1>4. CASE gw[q].gen > 0 /\ ~gw[q].paid /\ gw'[q] = [gw[q] EXCEPT !.phase = "cancelled"]
  <2>1. Gateways!Cancelled(Seen(q), Seen(q)')
    BY <1>v, <1>p, <1>4, SeenFields DEF Gateways!Cancelled
  <2> QED BY <2>1 DEF Gateways!Asked
<1>5. CASE gw[q].phase = "open" /\ gw[q].admitted /\ gw'[q] = [gw[q] EXCEPT !.paid = TRUE]
  <2>1. /\ gw'[q].phase = gw[q].phase /\ gw'[q].gen = gw[q].gen
        /\ gw'[q].admitted = gw[q].admitted /\ gw'[q].paid = TRUE
    BY <1>t, <1>5 DEF GatewayRow
  <2>2. /\ Seen(q)'.phase = Seen(q).phase /\ SameLease(Seen(q), Seen(q)')
        /\ Seen(q)'.admitted = Seen(q).admitted /\ Seen(q)'.paid = TRUE
    BY <2>1, LeaseStill, SeenFields
  <2>3. Seen(q)' = [Seen(q) EXCEPT !.paid = Seen(q)'.paid]
    BY <1>e, <2>2, SeenFields, RowsDiffer
  <2>4. Gateways!Paid(Seen(q), Seen(q)')
    BY <1>v, <1>5, <2>2, <2>3, SeenFields DEF Gateways!Paid, Gateways!Working
  <2> QED BY <2>4 DEF Gateways!Unasked
<1>6. CASE gw'[q] = [gw[q] EXCEPT !.stored = TRUE]
  <2>1. /\ gw'[q].phase = gw[q].phase /\ gw'[q].gen = gw[q].gen
        /\ gw'[q].admitted = gw[q].admitted /\ gw'[q].paid = gw[q].paid
    BY <1>t, <1>6 DEF GatewayRow
  <2> QED BY <2>1 DEF Seen
<1> QED BY <1>1, <1>2, <1>3, <1>4, <1>5, <1>6 DEF RowMoves, Gateways!Asked

\* The approvals of catalogs, too, do what GatewayView, and so the gateway, lets them,
\* whatever finalize jobs, lost leases and restarts do.
THEOREM CatalogAssumesOnlyView == Spec => RespectsView
<1>1. Init => ViewInv /\ Gateways!Init
  <2> SUFFICES ASSUME Init PROVE ViewInv /\ Gateways!Init
    OBVIOUS
  <2>1. ViewInv
    BY DEF Init, ViewInv, IdleWorker, NoApproval, Unapproved
  <2>2. ASSUME NEW q \in Quote PROVE Seen(q) = Gateways!Unknown
    <3>1. gw[q] = NoApproval
      BY DEF Init
    <3>n. /\ gw[q].phase = "none" /\ gw[q].gen = 0
          /\ gw[q].admitted = FALSE /\ gw[q].paid = FALSE
      BY <3>1 DEF NoApproval
    <3>2. Seen(q).live = FALSE
      <4>1. (gw[q].gen > 0) = FALSE
        BY <3>n
      <4> QED BY <4>1, SeenFields
    <3>3. /\ Seen(q).phase = "none" /\ Seen(q).job = None /\ Seen(q).gen = 0
          /\ Seen(q).admitted = FALSE /\ Seen(q).paid = FALSE /\ Seen(q).expired = FALSE
      BY <3>n, SeenFields
    <3> QED BY <3>2, <3>3, SeenFields DEF IsRow, Gateways!Unknown
  <2> QED BY <2>1, <2>2 DEF Gateways!Init
<1>2. Spec => [](IInv /\ ViewInv)
  BY <1>1, InitInv, NextInv, NextView, PTL DEF Spec
<1>3. ASSUME IInv, ViewInv, [Next]_vars
      PROVE  [Gateways!Next]_seen
  <2>1. CASE UNCHANGED gw
    BY <2>1 DEF seen, Seen
  <2>2. ASSUME NEW q \in Quote, OnlyRow(q), RowMoves(q)
        PROVE  Gateways!Next \/ seen' = seen
    <3>1. \A p \in Quote \ {q} : Seen(p)' = Seen(p)
      BY <2>2 DEF OnlyRow, Seen
    <3>2. CASE Seen(q)' = Seen(q)
      BY <3>1, <3>2 DEF seen
    <3>3. CASE Gateways!Asked(Seen(q), Seen(q)') \/ Gateways!Unasked(Seen(q), Seen(q)')
      <4>1. Gateways!Step(q)
        BY <3>1, <3>3 DEF Gateways!Step
      <4> QED BY <4>1 DEF Gateways!Next
    <3> QED BY <1>3, <2>2, <3>2, <3>3, RowSeen
  <2> QED BY <1>3, <2>1, <2>2, NextRow
<1> QED BY <1>1, <1>2, <1>3, PTL DEF Spec, RespectsView, Gateways!Spec, seen
=============================================================================
