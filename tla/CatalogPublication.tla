------------------------- MODULE CatalogPublication -------------------------
(***************************************************************************)
(* The catalog of crates/rust_admin: which ready videos it lists, the      *)
(* snapshot in application_state, the state file that viewers are served   *)
(* from, and catalog-only publication with its quote, approval, payment    *)
(* and recovery (catalog/payments.rs, catalog/sync.rs, routes/admin.rs).   *)
(*                                                                         *)
(* One SQL transaction is one action.  Videos appear with what the catalog *)
(* shows of them; how a video becomes ready is VideoLifecycle's subject.   *)
(* The gateway (crates/antd_service) appears as the admin service sees it. *)
(* That an approval or a lease expires there only makes calls fail, which  *)
(* they may do anyway.                                                     *)
(***************************************************************************)
EXTENDS Integers, FiniteSets

CONSTANTS
  Video,          \* video IDs
  Listed,         \* videos that are ready, hidden and published at the start
  Quote,          \* quote IDs of catalog plans
  Task,           \* handlers and upload jobs of the admin process
  Worker,         \* job workers that run the two catalog jobs
  Show,           \* values of show_manifest_address that are asked for
  JobAttempts,    \* config.catalog_publish_job_max_attempts
  MaxGeneration,  \* bound on the catalog generation
  PublishBound,   \* bound on the claims of a publish job
  FinalizeBound,  \* bound on the claims of a finalize job
  None

ASSUME CatalogAssumption ==
  /\ JobAttempts \in Nat \ {0}
  /\ MaxGeneration \in Nat
  /\ Listed \subseteq Video
  /\ Show \subseteq BOOLEAN
  /\ PublishBound \in Nat
  /\ FinalizeBound \in Nat
  /\ None \notin Video \cup Quote \cup Worker \cup Nat

VARIABLES
  row,         \* videos: status, is_public, show_manifest_address, publish_when_ready
  generation,  \* catalog_generation, kept by triggers
  plan,        \* final_quote of a video: what its catalog will be when it is ready
  approval,    \* catalog_approvals: state and plan
  snapshot,    \* application_state: catalog_snapshot
  stale,       \* whether the catalog state file lags behind the snapshot
  publish,     \* the active publish_catalog job
  finalize,    \* the finalize_catalog job of each approval
  task,        \* how far each handler is
  worker,      \* the job each worker runs and how far it is
  gw,          \* the gateway's view of each quote ID
  done         \* history: approvals whose publication was committed

vars == <<row, generation, plan, approval, snapshot, stale, publish, finalize, task, worker, gw,
          done>>
catalogVars == <<row, generation, plan, snapshot, stale>>

-----------------------------------------------------------------------------

Entry == [video: Video, public: BOOLEAN, show: BOOLEAN]
Row == [status: {"none", "waiting", "ready"}, public: BOOLEAN, show: BOOLEAN, auto: BOOLEAN]
NoRow == [status |-> "none", public |-> FALSE, show |-> FALSE, auto |-> FALSE]

\* The two documents of a catalog are one set: "published" is its public part.
Plan == [revision: Nat \cup {None}, all: SUBSET Entry]
NoPlan == [revision |-> None, all |-> {}]
Snapshot == [all: SUBSET Entry, pending: BOOLEAN]

ApprovalState == {"none", "draft", "superseded", "approved", "uploading", "complete",
                  "approval_required", "payment_recovery_required"}
Job == [status: {"none", "queued", "running", "succeeded", "failed"}, attempts: Nat, max: Nat,
        owner: Worker \cup {None}, live: BOOLEAN, due: BOOLEAN]
NoJob == [status |-> "none", attempts |-> 0, max |-> 0, owner |-> None, live |-> FALSE,
          due |-> FALSE]
NewJob == [NoJob EXCEPT !.status = "queued", !.max = JobAttempts, !.due = TRUE]

\* What an error's text says about payment, as mark_job_failed reads it.
Class == {"plain", "approval", "recovery", "both"}
Pc == {"idle", "leased", "check", "revision", "build", "insert", "read", "mark", "store", "repair",
       "done", "failed"}
Working == Pc \ {"idle", "done", "failed"}

\* A worker's job is the publish job (None) or the finalize job of a quote.
WorkerState == [pc: Pc, quote: Quote \cup {None}, gen: Nat, plan: Plan, class: Class]
IdleWorker == [pc |-> "idle", quote |-> None, gen |-> 0, plan |-> NoPlan, class |-> "plain"]

\* admitted: for the holder of the current lease, generation gen.
GatewayRow == [phase: {"none", "open", "cancelled"}, gen: Nat, admitted: BOOLEAN, paid: BOOLEAN,
               stored: BOOLEAN]
NoApproval == [phase |-> "none", gen |-> 0, admitted |-> FALSE, paid |-> FALSE, stored |-> FALSE]

\* Every variable ranges over its tables' columns and the tasks' local state.
TypeOK ==
  /\ row \in [Video -> Row]
  /\ generation \in Nat
  /\ plan \in [Video -> Plan]
  /\ approval \in [Quote -> [state: ApprovalState, plan: Plan]]
  /\ snapshot \in Snapshot
  /\ stale \in BOOLEAN
  /\ publish \in Job
  /\ finalize \in [Quote -> Job]
  /\ task \in [Task -> {"idle", "refresh", "repair", "schedule", "stored"}]
  /\ worker \in [Worker -> WorkerState]
  /\ gw \in [Quote -> GatewayRow]
  /\ done \in SUBSET Quote

Init ==
  /\ row = [v \in Video |-> IF v \in Listed THEN [NoRow EXCEPT !.status = "ready"] ELSE NoRow]
  /\ generation = 0
  /\ plan = [v \in Video |-> NoPlan]
  /\ approval = [q \in Quote |-> [state |-> "none", plan |-> NoPlan]]
  /\ snapshot = [all |-> {[video |-> v, public |-> FALSE, show |-> FALSE] : v \in Listed},
                 pending |-> FALSE]
  /\ stale = FALSE
  /\ publish = NoJob
  /\ finalize = [q \in Quote |-> NoJob]
  /\ task = [t \in Task |-> "idle"]
  /\ worker = [w \in Worker |-> IdleWorker]
  /\ gw = [q \in Quote |-> NoApproval]
  /\ done = {}

-----------------------------------------------------------------------------
(* Videos and the catalog built from them.                                 *)

EntryOf(v, public) == [video |-> v, public |-> public, show |-> row[v].show]

\* build_catalog_on_connection: every ready video.
Catalog == {EntryOf(v, row[v].public) : v \in {u \in Video : row[u].status = "ready"}}

Public(all) == {e \in all : e.public}

\* The triggers on videos: any update of a listed column of a row that was or
\* becomes ready, and its deletion.
Bump(v, new) == row[v].status = "ready" \/ new.status = "ready"

SetRow(v, new) ==
  /\ row' = [row EXCEPT ![v] = new]
  /\ generation' = IF Bump(v, new) THEN generation + 1 ELSE generation
  /\ generation' <= MaxGeneration

\* accept_upload, as far as the catalog is concerned.
AcceptUpload(v, auto) ==
  /\ row[v].status = "none"
  /\ SetRow(v, [NoRow EXCEPT !.status = "waiting", !.auto = auto])
  /\ UNCHANGED <<plan, approval, snapshot, stale, publish, finalize, task, worker, gw, done>>

\* build_final_upload_quote: the catalog with this video in it.  The revision is
\* read before the catalog and compared after it.
QuoteVideo(v) ==
  /\ row[v].status = "waiting"
  /\ plan' = [plan EXCEPT ![v] = [revision |-> generation,
                                  all |-> {e \in Catalog : e.video # v}
                                            \cup {EntryOf(v, row[v].auto)}]]
  /\ UNCHANGED <<row, generation, approval, snapshot, stale, publish, finalize, task, worker, gw,
                 done>>

Commits(all, pending) ==
  /\ snapshot' = [all |-> all, pending |-> pending]
  /\ stale' = TRUE

\* Fault: the revision is not compared at the commit.
VideoReadyStale(t, v) ==
  /\ task[t] = "idle"
  /\ row[v].status = "waiting"
  /\ plan[v].revision # None
  /\ SetRow(v, [row[v] EXCEPT !.status = "ready", !.public = row[v].auto])
  /\ Commits(plan[v].all, FALSE)
  /\ plan' = [plan EXCEPT ![v] = NoPlan]
  /\ task' = [task EXCEPT ![t] = "stored"]
  /\ UNCHANGED <<approval, publish, finalize, worker, gw, done>>

\* upload_approved_video_inner, its last transaction: the row becomes ready
\* together with the snapshot it was quoted with; its plan is not read again.
VideoReady(t, v) ==
  /\ task[t] = "idle"
  /\ row[v].status = "waiting"
  /\ plan[v].revision = generation
  /\ SetRow(v, [row[v] EXCEPT !.status = "ready", !.public = row[v].auto])
  /\ Commits(plan[v].all, FALSE)
  /\ plan' = [plan EXCEPT ![v] = NoPlan]
  /\ task' = [task EXCEPT ![t] = "stored"]
  /\ UNCHANGED <<approval, publish, finalize, worker, gw, done>>

-----------------------------------------------------------------------------
(* Handlers that change what the catalog shows.                            *)

RefreshIf(t, changed) == task' = [task EXCEPT ![t] = IF changed THEN "refresh" ELSE @]

\* update_video_visibility
UpdateVisibility(t, v, show) ==
  /\ task[t] = "idle"
  /\ row[v].status # "none"
  /\ SetRow(v, [row[v] EXCEPT !.show = show])
  /\ RefreshIf(t, row[v].show # show /\ row[v].status = "ready" /\ row[v].public)
  /\ UNCHANGED <<plan, approval, snapshot, stale, publish, finalize, worker, gw, done>>

\* update_video_publication: only ready videos can be published, any can be hidden.
UpdatePublication(t, v, public) ==
  /\ task[t] = "idle"
  /\ row[v].status # "none"
  /\ public => row[v].status = "ready"
  /\ SetRow(v, [row[v] EXCEPT !.public = public])
  /\ RefreshIf(t, row[v].public # public)
  /\ UNCHANGED <<plan, approval, snapshot, stale, publish, finalize, worker, gw, done>>

\* delete_video
DeleteVideo(t, v) ==
  /\ task[t] = "idle"
  /\ row[v].status # "none"
  /\ SetRow(v, NoRow)
  /\ plan' = [plan EXCEPT ![v] = NoPlan]
  /\ RefreshIf(t, row[v].status = "ready" /\ row[v].public)
  /\ UNCHANGED <<approval, snapshot, stale, publish, finalize, worker, gw, done>>

\* admin_publish_catalogs
PublishCatalogs(t) ==
  /\ task[t] = "idle"
  /\ task' = [task EXCEPT ![t] = "refresh"]
  /\ UNCHANGED <<catalogVars, approval, publish, finalize, worker, gw, done>>

\* refresh_local_catalog_from_db: the rows as they are now, still to be published.
RefreshLocal(t) ==
  /\ task[t] = "refresh"
  /\ Commits(Catalog, TRUE)
  /\ task' = [task EXCEPT ![t] = "repair"]
  /\ UNCHANGED <<row, generation, plan, approval, publish, finalize, worker, gw, done>>

\* restore_snapshot: the latest committed snapshot is written, whoever asks.  A
\* failed write is only logged.
RestoreSnapshot == stale' \in {FALSE, stale}

RepairFile(t) ==
  /\ task[t] \in {"repair", "stored"}
  /\ RestoreSnapshot
  /\ task' = [task EXCEPT ![t] = IF @ = "repair" THEN "schedule" ELSE "idle"]
  /\ UNCHANGED <<row, generation, plan, approval, snapshot, publish, finalize, worker, gw, done>>

\* The unique index lets one publish job be queued or running.
Publishing(job) == job.status \in {"queued", "running"}
Enqueued(job) == IF Publishing(job) THEN job ELSE NewJob

\* schedule_catalog_publish
SchedulePublish(t) ==
  /\ task[t] = "schedule"
  /\ publish' = Enqueued(publish)
  /\ task' = [task EXCEPT ![t] = "idle"]
  /\ UNCHANGED <<catalogVars, approval, finalize, worker, gw, done>>

\* The database refuses a handler's next statement; it answers with an error.
HandlerFails(t) ==
  /\ task[t] \in {"refresh", "schedule"}
  /\ task' = [task EXCEPT ![t] = "idle"]
  /\ UNCHANGED <<catalogVars, approval, publish, finalize, worker, gw, done>>

-----------------------------------------------------------------------------
(* Jobs: claims, fences and leases.                                        *)

JobOf(w) == IF worker[w].quote = None THEN publish ELSE finalize[worker[w].quote]

SetJob(w, job) ==
  IF worker[w].quote = None
  THEN publish' = job /\ UNCHANGED finalize
  ELSE finalize' = [finalize EXCEPT ![worker[w].quote] = job] /\ UNCHANGED publish

\* begin_fenced
Fenced(w) ==
  /\ JobOf(w).status = "running"
  /\ JobOf(w).owner = w
  /\ JobOf(w).attempts = worker[w].gen
  /\ JobOf(w).live

Claimable(job, bound) ==
  /\ \/ job.status = "queued" /\ job.due
     \/ job.status = "running" /\ ~job.live
  /\ job.attempts < bound

Claimed(job, w) == [job EXCEPT !.status = "running", !.attempts = @ + 1, !.owner = w,
                               !.live = TRUE]

Goto(w, pc) == worker' = [worker EXCEPT ![w].pc = pc]
FailWith(w, c) == worker' = [worker EXCEPT ![w].pc = "failed", ![w].class = c]
Forget(w) == worker' = [worker EXCEPT ![w] = IdleWorker]

\* acquire_next_job for the publish job, which needs no payment lease.
AcquirePublish(w) ==
  /\ worker[w].pc = "idle"
  /\ Claimable(publish, PublishBound)
  /\ publish' = Claimed(publish, w)
  /\ worker' = [worker EXCEPT ![w] = [IdleWorker EXCEPT !.pc = "check",
                                        !.gen = publish.attempts + 1]]
  /\ UNCHANGED <<catalogVars, approval, finalize, task, gw, done>>

AcquireFinalize(w, q) ==
  /\ worker[w].pc = "idle"
  /\ Claimable(finalize[q], FinalizeBound)
  /\ finalize' = [finalize EXCEPT ![q] = Claimed(@, w)]
  /\ worker' = [worker EXCEPT ![w] = [IdleWorker EXCEPT !.pc = "leased", !.quote = q,
                                        !.gen = finalize[q].attempts + 1]]
  /\ UNCHANGED <<catalogVars, approval, publish, task, gw, done>>

-----------------------------------------------------------------------------
(* The publish job: prepare a quote of the current catalog.                *)

Open == {"approved", "uploading", "payment_recovery_required"}

\* Fault: an uncertain payment does not block a fresh quote.
RequireNoneActive == \A q \in Quote : approval[q].state \notin {"approved", "uploading"}

\* require_reconciled_catalog
RequireReconciledCatalog == \A q \in Quote : approval[q].state \notin Open

\* prepare: nothing may be unreconciled.
PrepareCheck(w) ==
  /\ worker[w].pc = "check"
  /\ Fenced(w)
  /\ IF RequireReconciledCatalog THEN Goto(w, "revision") ELSE FailWith(w, "recovery")
  /\ UNCHANGED <<catalogVars, approval, publish, finalize, task, gw, done>>

\* catalog_revision
PrepareRevision(w) ==
  /\ worker[w].pc = "revision"
  /\ worker' = [worker EXCEPT ![w].pc = "build", ![w].plan.revision = generation]
  /\ UNCHANGED <<catalogVars, approval, publish, finalize, task, gw, done>>

\* The catalog is read in a transaction of its own, then quoted.
PrepareBuild(w) ==
  /\ worker[w].pc = "build"
  /\ worker' = [worker EXCEPT ![w].pc = "insert", ![w].plan.all = Catalog]
  /\ UNCHANGED <<catalogVars, approval, publish, finalize, task, gw, done>>

\* The plan of a superseded draft is not read again.
Superseded == [state |-> "superseded", plan |-> NoPlan]

\* prepare, its last transaction: the revision is asserted, older drafts are
\* superseded and the new one is inserted.
InsertDraft(w) ==
  /\ worker[w].pc = "insert"
  /\ Fenced(w)
  /\ \/ /\ worker[w].plan.revision = generation
        /\ RequireReconciledCatalog
        /\ \E q \in Quote :
             /\ approval[q].state = "none"
             /\ approval' = [p \in Quote |->
                  IF p = q THEN [state |-> "draft", plan |-> worker[w].plan]
                  ELSE IF approval[p].state = "draft" THEN Superseded
                       ELSE approval[p]]
        /\ Goto(w, "done")
     \/ /\ worker[w].plan.revision # generation
        /\ FailWith(w, "approval") /\ UNCHANGED approval
     \/ /\ worker[w].plan.revision = generation
        /\ ~RequireReconciledCatalog
        /\ FailWith(w, "recovery") /\ UNCHANGED approval
  /\ UNCHANGED <<catalogVars, publish, finalize, task, gw, done>>

-----------------------------------------------------------------------------
(* Approval and resume.                                                    *)

GatewayApproves(q) == gw' = [gw EXCEPT ![q].phase = IF @ = "none" THEN "open" ELSE @]

\* The unique index on active finalize jobs.
Finalizing == \E q \in Quote : finalize[q].status \in {"queued", "running"}

\* approve: the gateway stores the approval inside the admin's transaction.
Approve(q) ==
  /\ approval[q].state = "draft"
  /\ approval[q].plan.revision = generation
  /\ ~Finalizing
  /\ GatewayApproves(q)
  /\ approval' = [approval EXCEPT ![q].state = "approved"]
  /\ finalize' = [finalize EXCEPT ![q] = NewJob]
  /\ UNCHANGED <<catalogVars, publish, task, worker, done>>

\* The gateway has stored the approval and the admin's transaction then fails.
ApproveLost(q) ==
  /\ approval[q].state = "draft"
  /\ approval[q].plan.revision = generation
  /\ GatewayApproves(q)
  /\ UNCHANGED <<catalogVars, approval, publish, finalize, task, worker, done>>

\* The original job is queued again and may be claimed at least once more.
Resumed(job) ==
  [job EXCEPT !.status = "queued", !.due = TRUE,
              !.max = IF job.max > job.attempts THEN job.max ELSE job.attempts + 1]

\* resume: the original job goes on under the original approval.
Resume(q) ==
  /\ approval[q].state = "payment_recovery_required"
  /\ finalize[q].status = "failed"
  /\ ~Finalizing
  /\ approval' = [approval EXCEPT ![q].state = "approved"]
  /\ finalize' = [finalize EXCEPT ![q] = Resumed(@)]
  /\ UNCHANGED <<catalogVars, publish, task, worker, gw, done>>

-----------------------------------------------------------------------------
(* The finalize job: store both documents, then commit the snapshot.       *)

\* Fault: what was admitted for an earlier generation counts for a later one.
GatewayLeasesKept(w) ==
  LET q == worker[w].quote IN
  /\ gw[q].gen <= worker[w].gen
  /\ gw' = [gw EXCEPT ![q].gen = worker[w].gen]

\* The gateway takes a lease of no earlier generation than the one it has, and
\* then refuses whatever is in flight for the earlier.
GatewayLeases(w) ==
  LET q == worker[w].quote IN
  /\ gw[q].gen <= worker[w].gen
  /\ gw' = [gw EXCEPT ![q].gen = worker[w].gen,
                      ![q].admitted = gw[q].admitted /\ gw[q].gen = worker[w].gen]

\* update_payment_lease, when the job starts; to renew the lease changes nothing.
ActivateLease(w) ==
  /\ worker[w].pc = "leased"
  /\ Fenced(w)
  /\ GatewayLeases(w)
  /\ Goto(w, "read")
  /\ UNCHANGED <<catalogVars, approval, publish, finalize, task, done>>

\* finalize reads its approval and the revision.
ReadApproval(w) ==
  LET a == approval[worker[w].quote] IN
  /\ worker[w].pc = "read"
  /\ \/ a.state = "complete" /\ Goto(w, "done")
     \/ a.state \notin {"complete", "approved", "uploading"} /\ FailWith(w, "recovery")
     \/ /\ a.state \in {"approved", "uploading"}
        /\ a.plan.revision # generation
        /\ FailWith(w, "approval")
     \/ /\ a.state \in {"approved", "uploading"}
        /\ a.plan.revision = generation
        /\ worker' = [worker EXCEPT ![w].pc = "mark", ![w].plan = a.plan]
  /\ UNCHANGED <<catalogVars, approval, publish, finalize, task, gw, done>>

\* Fault: the approval is marked without the fence.
MarkUploadingUnfenced(w) ==
  /\ worker[w].pc = "mark"
  /\ approval' = [approval EXCEPT ![worker[w].quote].state = "uploading"]
  /\ Goto(w, "store")
  /\ UNCHANGED <<catalogVars, publish, finalize, task, gw, done>>

\* execute_fenced: the approval is being uploaded.
MarkUploading(w) ==
  /\ worker[w].pc = "mark"
  /\ Fenced(w)
  /\ approval' = [approval EXCEPT ![worker[w].quote].state = "uploading"]
  /\ Goto(w, "store")
  /\ UNCHANGED <<catalogVars, publish, finalize, task, gw, done>>

\* data_put_public: the gateway admits the document for the lease's holder.
StoreAdmitted(w) ==
  LET q == worker[w].quote IN
  /\ worker[w].pc = "store"
  /\ gw[q].phase = "open"
  /\ gw[q].gen = worker[w].gen
  /\ ~gw[q].admitted
  /\ gw' = [gw EXCEPT ![q].admitted = TRUE]
  /\ UNCHANGED <<catalogVars, approval, publish, finalize, task, worker, done>>

\* Fault: the revision is not compared after the documents were stored.
FinalizeCommitStale(w) ==
  LET q == worker[w].quote IN
  /\ worker[w].pc = "store"
  /\ gw[q].stored
  /\ Fenced(w)
  /\ approval' = [approval EXCEPT ![q].state = "complete"]
  /\ Commits(worker[w].plan.all, FALSE)
  /\ done' = done \cup {q}
  /\ Goto(w, "repair")
  /\ UNCHANGED <<row, generation, plan, publish, finalize, task, gw>>

\* finalize, its last transaction: both documents are stored and the catalog is
\* still the one that was quoted.
FinalizeCommit(w) ==
  LET q == worker[w].quote IN
  /\ worker[w].pc = "store"
  /\ gw[q].stored
  /\ Fenced(w)
  /\ worker[w].plan.revision = generation
  /\ approval' = [approval EXCEPT ![q].state = "complete"]
  /\ Commits(worker[w].plan.all, FALSE)
  /\ done' = done \cup {q}
  /\ Goto(w, "repair")
  /\ UNCHANGED <<row, generation, plan, publish, finalize, task, gw>>

\* commit_snapshot, after the commit.
RepairPublished(w) ==
  /\ worker[w].pc = "repair"
  /\ RestoreSnapshot
  /\ Goto(w, "done")
  /\ UNCHANGED <<row, generation, plan, approval, snapshot, publish, finalize, task, gw, done>>

\* Anything else a step runs into; paid_phase marks whatever happens in it.
JobFails(w, c) ==
  /\ \/ c = "plain" /\ worker[w].pc \in Working \ {"store", "repair"}
     \/ c \in {"recovery", "both"} /\ worker[w].pc = "store"
  /\ FailWith(w, c)
  /\ UNCHANGED <<catalogVars, approval, publish, finalize, task, gw, done>>

-----------------------------------------------------------------------------
(* A worker reports.                                                       *)

Released(job, status) == [job EXCEPT !.status = status, !.owner = None, !.live = FALSE]

MarkSucceeded(w) ==
  /\ worker[w].pc = "done"
  /\ Fenced(w)
  /\ SetJob(w, Released(JobOf(w), "succeeded"))
  /\ Forget(w)
  /\ UNCHANGED <<catalogVars, approval, task, gw, done>>

NeedsApproval(w) == worker[w].class \in {"approval", "both"}
NeedsRecovery(w) ==
  \/ worker[w].class \in {"recovery", "both"}
  \/ NeedsApproval(w) /\ worker[w].gen > 1 /\ worker[w].quote # None
FinalFailure(w) == worker[w].gen >= JobOf(w).max \/ NeedsApproval(w) \/ NeedsRecovery(w)

\* mark_job_failed, to be retried after a delay.
RetryLater(w) ==
  /\ worker[w].pc = "failed"
  /\ ~FinalFailure(w)
  /\ Fenced(w)
  /\ SetJob(w, [Released(JobOf(w), "queued") EXCEPT !.due = FALSE])
  /\ Forget(w)
  /\ UNCHANGED <<catalogVars, approval, task, gw, done>>

\* mark_job_failed for good, for the publish job: only the job is marked.
PublishFails(w) ==
  /\ worker[w].pc = "failed"
  /\ worker[w].quote = None
  /\ FinalFailure(w)
  /\ Fenced(w)
  /\ publish' = Released(publish, "failed")
  /\ Forget(w)
  /\ UNCHANGED <<catalogVars, approval, finalize, task, gw, done>>

\* The gateway cancels for the holder of the lease, and only an approval under
\* which nothing was ever reserved.
GatewayCancels(w) ==
  LET q == worker[w].quote IN
  /\ NeedsApproval(w)
  /\ gw[q].gen = worker[w].gen
  /\ ~gw[q].paid
  /\ gw' = [gw EXCEPT ![q].phase = "cancelled"]

\* Fault: an error that asks for approval is believed without the gateway.
FailedStateTrusting(w, unpaid) ==
  IF NeedsApproval(w) THEN "approval_required" ELSE "payment_recovery_required"

\* Only a cancellation that the gateway confirmed asks for a new approval.
FailedState(w, unpaid) ==
  IF NeedsApproval(w) /\ unpaid THEN "approval_required" ELSE "payment_recovery_required"

\* mark_job_failed for good, for a finalize job.  The gateway may cancel and its
\* answer not arrive in time.
FinalizeFails(w, unpaid) ==
  LET q == worker[w].quote IN
  /\ worker[w].pc = "failed"
  /\ q # None
  /\ FinalFailure(w)
  /\ Fenced(w)
  /\ GatewayCancels(w) \/ (~unpaid /\ UNCHANGED gw)
  /\ finalize' = [finalize EXCEPT ![q] = Released(@, "failed")]
  /\ approval' = [approval EXCEPT ![q].state = FailedState(w, unpaid)]
  /\ Forget(w)
  /\ UNCHANGED <<catalogVars, publish, task, done>>

\* A lost lease or a failed report ends the run without a trace in the database;
\* the gateway may have been asked to cancel by then.
RunLost(w) ==
  /\ worker[w].pc # "idle"
  /\ \/ UNCHANGED gw
     \/ worker[w].pc = "failed" /\ worker[w].quote # None /\ Fenced(w) /\ GatewayCancels(w)
  /\ Forget(w)
  /\ UNCHANGED <<catalogVars, approval, publish, finalize, task, done>>

\* A shutdown cuts the run off; mark_job_interrupted gives the job back.
Interrupt(w) ==
  /\ worker[w].pc \in Working
  /\ IF JobOf(w).status = "running" /\ JobOf(w).owner = w
     THEN SetJob(w, [Released(JobOf(w), "queued") EXCEPT !.due = TRUE])
     ELSE UNCHANGED <<publish, finalize>>
  /\ Forget(w)
  /\ UNCHANGED <<catalogVars, approval, task, gw, done>>

-----------------------------------------------------------------------------
(* Restart, time and the gateway.                                          *)

Requeued(job) ==
  IF job.status = "running" /\ ~job.live
  THEN [job EXCEPT !.status = "queued", !.owner = None, !.due = TRUE] ELSE job

\* What the file says about pending work: a file that lags may say anything.
FilePending(lags) == IF lags THEN BOOLEAN ELSE {snapshot.pending}

\* Fault: the file is asked for pending work as the last process left it.
RestoredLag == stale

\* restore_snapshot at startup, without which the process does not start.
RestoredFile == FALSE

\* The admin process ends, at any point, and starts again: the file is repaired,
\* lapsed jobs are requeued and a pending publication is prepared again.
Restart ==
  /\ task' = [t \in Task |-> "idle"]
  /\ worker' = [w \in Worker |-> IdleWorker]
  /\ stale' = RestoredFile
  /\ \E pending \in FilePending(stale') :
       publish' = IF pending THEN Enqueued(Requeued(publish)) ELSE Requeued(publish)
  /\ finalize' = [q \in Quote |-> Requeued(finalize[q])]
  /\ UNCHANGED <<row, generation, plan, approval, snapshot, gw, done>>

Lapsed(job) == [job EXCEPT !.live = FALSE]

LeaseLapses ==
  /\ \/ publish.live /\ publish' = Lapsed(publish) /\ UNCHANGED finalize
     \/ /\ UNCHANGED publish
        /\ \E q \in Quote : finalize[q].live /\ finalize' = [finalize EXCEPT ![q] = Lapsed(@)]
  /\ UNCHANGED <<catalogVars, approval, task, worker, gw, done>>

RetryDue ==
  /\ \/ /\ publish.status = "queued" /\ ~publish.due
        /\ publish' = [publish EXCEPT !.due = TRUE]
        /\ UNCHANGED finalize
     \/ /\ UNCHANGED publish
        /\ \E q \in Quote : /\ finalize[q].status = "queued" /\ ~finalize[q].due
                            /\ finalize' = [finalize EXCEPT ![q].due = TRUE]
  /\ UNCHANGED <<catalogVars, approval, task, worker, gw, done>>

\* The gateway reserves a transaction under the lease it admitted a document for.
GatewayPays(q) ==
  /\ gw[q].phase = "open" /\ gw[q].admitted /\ ~gw[q].paid
  /\ gw' = [gw EXCEPT ![q].paid = TRUE]

\* Both documents are stored (without a payment when the network had them).
GatewayStores(q) ==
  /\ gw[q].admitted /\ ~gw[q].stored
  /\ gw' = [gw EXCEPT ![q].stored = TRUE]

Gateway(q) ==
  /\ GatewayPays(q) \/ GatewayStores(q)
  /\ UNCHANGED <<catalogVars, approval, publish, finalize, task, worker, done>>

-----------------------------------------------------------------------------

Videos(v) ==
  \/ \E auto \in BOOLEAN : AcceptUpload(v, auto)
  \/ QuoteVideo(v)
  \/ \E t \in Task :
       \/ VideoReady(t, v) \/ DeleteVideo(t, v)
       \/ \E show \in Show : UpdateVisibility(t, v, show)
       \/ \E public \in BOOLEAN : UpdatePublication(t, v, public)

Handlers(t) ==
  PublishCatalogs(t) \/ RefreshLocal(t) \/ RepairFile(t) \/ SchedulePublish(t) \/ HandlerFails(t)

Run(w) ==
  \/ AcquirePublish(w) \/ PrepareCheck(w) \/ PrepareRevision(w) \/ PrepareBuild(w) \/ InsertDraft(w)
  \/ \E q \in Quote : AcquireFinalize(w, q)
  \/ ActivateLease(w) \/ ReadApproval(w) \/ MarkUploading(w) \/ StoreAdmitted(w)
  \/ FinalizeCommit(w) \/ RepairPublished(w)
  \/ \E c \in Class : JobFails(w, c)
  \/ MarkSucceeded(w) \/ RetryLater(w) \/ PublishFails(w) \/ RunLost(w) \/ Interrupt(w)
  \/ \E unpaid \in BOOLEAN : FinalizeFails(w, unpaid)

Next ==
  \/ \E v \in Video : Videos(v)
  \/ \E t \in Task : Handlers(t)
  \/ \E w \in Worker : Run(w)
  \/ \E q \in Quote : Approve(q) \/ ApproveLost(q) \/ Resume(q) \/ Gateway(q)
  \/ Restart \/ LeaseLapses \/ RetryDue

Spec == Init /\ [][Next]_vars

-----------------------------------------------------------------------------
(* Properties.                                                             *)

Listing(all) == {[video |-> e.video, public |-> e.public] : e \in all}

\* Catalog changes invalidate the quoted snapshot: whatever is committed as the
\* network's catalog lists exactly the ready videos, and as public exactly the
\* public ones, however many changes, quotes and publications were under way.
PublishedExact ==
  [][snapshot' # snapshot => Listing(snapshot'.all) = Listing(Catalog')]_vars

\* A fresh quote cannot hide an active or uncertain payment behind a new identity:
\* of the approvals that were not published, one at most is a draft, active or
\* uncertain.
OneCatalogPayment ==
  \A p, q \in Quote \ done :
    approval[p].state \in Open \cup {"draft"} /\ approval[q].state \in Open \cup {"draft"}
      => p = q

\* A paid publication is completed or kept for recovery, never superseded or
\* offered for a new approval.
PaidIsKept ==
  \A q \in Quote : gw[q].paid => approval[q].state \in Open \cup {"complete"}

\* After a restart, changes that were not published yet are being prepared.
RestartPrepares == [][Restart /\ snapshot.pending => Publishing(publish')]_vars

\* Whoever lost the job cannot act on its approval any more: one that was
\* superseded, or cancelled before any payment, is never uploaded or published,
\* whatever runs of the job are still under way.
RefusedIsFinal ==
  [][\A q \in Quote :
       approval[q].state \in {"superseded", "approval_required"}
         => approval'[q].state = approval[q].state]_vars

\* What the catalog's runs know of an approval: its one job is named by its quote, and
\* a lease counts as live from the first one on.
Seen(q) ==
  [phase |-> gw[q].phase, job |-> IF gw[q].gen = 0 THEN None ELSE q, gen |-> gw[q].gen,
   live |-> gw[q].gen > 0, admitted |-> gw[q].admitted, paid |-> gw[q].paid,
   expired |-> FALSE]

Gateways == INSTANCE GatewayView
              WITH Approval <- Quote, row <- [q \in Quote |-> Seen(q)]

\* What happens to the approvals of catalogs in this model is what may happen to them
\* in the gateway.
RespectsView == Gateways!Spec

\* The documentation's "complete": a finished publication is not taken back to
\* payment recovery, where it would block every fresh quote.
CompleteIsKept == \A q \in done : approval[q].state = "complete"

\* Hiding the manifest address of a video hides it in the catalog it is published
\* with.
HiddenStaysHidden ==
  [][snapshot' # snapshot =>
       \A e \in Public(snapshot'.all) : e.show => row'[e.video].show]_vars

\* A handler that hid a video and answered with success leaves a public catalog
\* without it.
HidingHides ==
  [][\A t \in Task, v \in Video :
       UpdatePublication(t, v, FALSE) /\ task'[t] = "idle"
         => \A e \in Public(snapshot.all) : e.video # v]_vars

=============================================================================
