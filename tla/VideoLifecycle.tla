--------------------------- MODULE VideoLifecycle ---------------------------
(***************************************************************************)
(* The life of a video in crates/rust_admin: its row in videos, the        *)
(* durable jobs in video_jobs, the job workers with their leases, the HTTP *)
(* handlers that move a video on, and the restart that recovers            *)
(* interrupted work.  The payment gateway (crates/antd_service) appears as *)
(* the admin service sees it; PaymentGateway models it in full, and both   *)
(* agree on GatewayView.                                                   *)
(*                                                                         *)
(* One SQL transaction is one action, and so is what a worker does between *)
(* two awaits that matter.  Wall-clock time is abstracted to the           *)
(* comparisons made with it: a live lease may lapse, a delayed retry may   *)
(* become due and a quote may expire at any moment.  Which of several      *)
(* eligible jobs has the smallest run_after is therefore left open.        *)
(***************************************************************************)
EXTENDS Integers, FiniteSets

CONSTANTS
  Video,          \* video IDs
  Worker,         \* job workers of the admin process
  MaxJobs,        \* bound on the video_jobs rows ever inserted
  MaxQuotes,      \* bound on the final quotes ever prepared
  JobAttempts,    \* config.admin_job_max_attempts
  AttemptBound,   \* bound on the claims of one job
  None

ASSUME LifecycleAssumption ==
  /\ MaxJobs \in Nat
  /\ MaxQuotes \in Nat
  /\ JobAttempts \in Nat \ {0}
  /\ AttemptBound \in Nat
  /\ None \notin Video \cup Worker \cup Nat

Job == 1..MaxJobs       \* in creation order
Quote == 1..MaxQuotes

VARIABLES
  video,      \* videos: status, final_quote, approved_quote_id, local files
  jobs,       \* video_jobs
  issued,     \* the video each quote ID was prepared for
  expired,    \* whether a quote's expires_at has passed
  worker,     \* the job each worker runs and how far it is
  pending,    \* handlers between the commit of a status and their enqueue
  gw,         \* the gateway's view of each quote ID
  unreported  \* history: the videos for which a job did its work and lost its report

vars == <<video, jobs, issued, expired, worker, pending, gw, unreported>>

-----------------------------------------------------------------------------

Kind == {"process", "quote", "upload"}
VideoStatus == {"none", "pending", "processing", "awaiting_approval", "uploading", "ready",
                "error", "expired", "quoting", "approval_required",
                "payment_recovery_required", "deleted"}
JobStatus == {"none", "queued", "running", "succeeded", "failed", "deleted"}

\* What an error's text says about payment: nothing, that a new approval is
\* needed, that payment must be recovered, or both.
Class == {"plain", "approval", "recovery", "both"}

\* Where a worker is.  The second group is inside run_leased_job, which the
\* lease maintenance and a shutdown may cut off.
Working == {"leased", "read", "work", "quote", "publish", "plan", "store"}
Pc == {"idle", "stopped", "done", "failed"} \cup Working

VideoRow == [status: VideoStatus, final: Quote \cup {None}, approved: Quote \cup {None},
             files: BOOLEAN]
JobRow == [status: JobStatus, kind: Kind, video: Video \cup {None}, attempts: Nat, max: Nat,
           owner: Worker \cup {None}, live: BOOLEAN, due: BOOLEAN]
WorkerState == [pc: Pc, job: Job \cup {None}, gen: Nat, quote: Quote \cup {None}, class: Class]
GatewayRow == [phase: {"none", "open", "paused", "cancelled"}, job: Job \cup {None}, gen: Nat,
               live: BOOLEAN, admitted: Nat, paid: BOOLEAN, stored: BOOLEAN, late: Nat]

NoVideo == [status |-> "none", final |-> None, approved |-> None, files |-> FALSE]
NoJob == [status |-> "none", kind |-> "process", video |-> None, attempts |-> 0, max |-> 0,
          owner |-> None, live |-> FALSE, due |-> FALSE]
IdleWorker == [pc |-> "idle", job |-> None, gen |-> 0, quote |-> None, class |-> "plain"]
NoApproval == [phase |-> "none", job |-> None, gen |-> 0, live |-> FALSE, admitted |-> 0,
               paid |-> FALSE, stored |-> FALSE, late |-> 0]

\* Every variable ranges over its tables' columns and the workers' local state.
TypeOK ==
  /\ video \in [Video -> VideoRow]
  /\ jobs \in [Job -> JobRow]
  /\ issued \in [Quote -> Video \cup {None}]
  /\ expired \in [Quote -> BOOLEAN]
  /\ worker \in [Worker -> WorkerState]
  /\ pending \in [Video -> SUBSET Kind]
  /\ gw \in [Quote -> GatewayRow]
  /\ unreported \in SUBSET Video

Init ==
  /\ video = [v \in Video |-> NoVideo]
  /\ jobs = [j \in Job |-> NoJob]
  /\ issued = [q \in Quote |-> None]
  /\ expired = [q \in Quote |-> FALSE]
  /\ worker = [w \in Worker |-> IdleWorker]
  /\ pending = [v \in Video |-> {}]
  /\ gw = [q \in Quote |-> NoApproval]
  /\ unreported = {}

-----------------------------------------------------------------------------
(* Jobs and leases.                                                        *)

Active(j) == jobs[j].status \in {"queued", "running"}

\* The unique index on active jobs of one kind of one video.
HasActive(k, v) == \E j \in Job : Active(j) /\ jobs[j].kind = k /\ jobs[j].video = v

NewJob(k, v) == [NoJob EXCEPT !.status = "queued", !.kind = k, !.video = v,
                              !.max = JobAttempts, !.due = TRUE]

Unused == {j \in Job : jobs[j].status = "none"}
NextJob(j) == j \in Unused /\ \A i \in Unused : j <= i

JobOf(w) == jobs[worker[w].job]
VideoOf(w) == JobOf(w).video

\* The fence of every write of a job: this worker still owns this generation of
\* the job, under a lease that has not lapsed.
Fenced(w) ==
  /\ JobOf(w).status = "running"
  /\ JobOf(w).owner = w
  /\ JobOf(w).attempts = worker[w].gen
  /\ JobOf(w).live

\* The worker did its job's work and has yet to report it.
Due(w) == worker[w].pc = "done" /\ Fenced(w)
ReportDue(j) == \E w \in Worker : worker[w].job = j /\ Due(w)

\* Reports that are due are lost: whoever runs these jobs next runs them again.
LosesReports(ws) == unreported' = unreported \cup {VideoOf(w) : w \in {u \in ws : Due(u)}}

Goto(w, pc) == worker' = [worker EXCEPT ![w].pc = pc]
FailWith(w, c) == worker' = [worker EXCEPT ![w].pc = "failed", ![w].class = c]
Forget(w) == worker' = [worker EXCEPT ![w] = IdleWorker]

-----------------------------------------------------------------------------
(* HTTP handlers.                                                          *)

\* accept_upload: the file is stored, the row inserted; the job comes after.
AcceptUpload(v) ==
  /\ video[v].status = "none"
  /\ video' = [video EXCEPT ![v] = [NoVideo EXCEPT !.status = "pending", !.files = TRUE]]
  /\ pending' = [pending EXCEPT ![v] = @ \cup {"process"}]
  /\ UNCHANGED <<jobs, issued, expired, worker, gw, unreported>>

\* enqueue_video_job, the second half of a handler: one active job per kind.
Enqueue(v, k) ==
  /\ k \in pending[v]
  /\ video[v].status # "deleted"
  /\ pending' = [pending EXCEPT ![v] = @ \ {k}]
  /\ \/ HasActive(k, v) /\ UNCHANGED jobs
     \/ /\ ~HasActive(k, v)
        /\ \E j \in Job : NextJob(j) /\ jobs' = [jobs EXCEPT ![j] = NewJob(k, v)]
  /\ UNCHANGED <<video, issued, expired, worker, gw, unreported>>

\* The insert fails.  A new video is given up, as far as its own clean-up
\* succeeds; approved or requoted videos stay as their handler committed them.
EnqueueFails(v, k) ==
  /\ k \in pending[v]
  /\ pending' = [pending EXCEPT ![v] = @ \ {k}]
  /\ IF k = "process" /\ video[v].status # "deleted"
     THEN \E st \in {video[v].status, "error"}, f \in {video[v].files, FALSE} :
            video' = [video EXCEPT ![v].status = st, ![v].files = f]
     ELSE UNCHANGED video
  /\ UNCHANGED <<jobs, issued, expired, worker, gw, unreported>>

Approvable(v) ==
  /\ video[v].status = "awaiting_approval"
  /\ ~expired[video[v].final]
  /\ video[v].files

GatewayApproves(q) ==
  gw' = [gw EXCEPT ![q].phase = IF @ = "none" THEN "open" ELSE @]

\* approve_video: the gateway stores the approval while the row is locked.
ApproveVideo(v) ==
  /\ Approvable(v)
  /\ GatewayApproves(video[v].final)
  /\ video' = [video EXCEPT ![v].status = "uploading", ![v].approved = video[v].final]
  /\ pending' = [pending EXCEPT ![v] = @ \cup {"upload"}]
  /\ UNCHANGED <<jobs, issued, expired, worker, unreported>>

\* The gateway's answer or the admin's commit is lost.
ApproveLost(v) ==
  /\ Approvable(v)
  /\ GatewayApproves(video[v].final)
  /\ UNCHANGED <<video, jobs, issued, expired, worker, pending, unreported>>

\* Fault: a paused upload may be quoted again.
RequoteRecovery(v) ==
  /\ video[v].status \in {"approval_required", "awaiting_approval", "payment_recovery_required"}
  /\ video' = [video EXCEPT ![v].status = "quoting", ![v].approved = None]
  /\ pending' = [pending EXCEPT ![v] = @ \cup {"quote"}]
  /\ UNCHANGED <<jobs, issued, expired, worker, gw, unreported>>

\* requote_video
RequoteVideo(v) ==
  /\ video[v].status \in {"approval_required", "awaiting_approval"}
  /\ video' = [video EXCEPT ![v].status = "quoting", ![v].approved = None]
  /\ pending' = [pending EXCEPT ![v] = @ \cup {"quote"}]
  /\ UNCHANGED <<jobs, issued, expired, worker, gw, unreported>>

FailedUploads(v) ==
  {j \in Job : jobs[j].status = "failed" /\ jobs[j].kind = "upload" /\ jobs[j].video = v}

\* Fault: the oldest failed upload job is taken.
FirstFailed(v, j) == j \in FailedUploads(v) /\ \A i \in FailedUploads(v) : j <= i

\* The most recently created failed upload job.
LastFailed(v, j) == j \in FailedUploads(v) /\ \A i \in FailedUploads(v) : i <= j

\* The original job is queued again and may be claimed at least once more.
Resumed(job) ==
  [job EXCEPT !.status = "queued", !.due = TRUE,
              !.max = IF job.max > job.attempts THEN job.max ELSE job.attempts + 1]

\* resume_video: the original job goes on under the original approval.  A second
\* active upload job would break the unique index, and nothing is committed.
ResumeVideo(v) ==
  /\ video[v].status = "payment_recovery_required"
  /\ video[v].approved # None
  /\ ~HasActive("upload", v)
  /\ \E j \in Job :
       /\ LastFailed(v, j)
       /\ jobs' = [jobs EXCEPT ![j] = Resumed(@)]
  /\ video' = [video EXCEPT ![v].status = "uploading"]
  /\ UNCHANGED <<issued, expired, worker, pending, gw, unreported>>

\* delete_video: the jobs go with the row, the files after it.
DeleteVideo(v) ==
  /\ video[v].status \notin {"none", "deleted"}
  /\ video' = [video EXCEPT ![v].status = "deleted", ![v].files = FALSE]
  /\ jobs' = [j \in Job |-> IF jobs[j].video = v
                            THEN [jobs[j] EXCEPT !.status = "deleted"] ELSE jobs[j]]
  /\ UNCHANGED <<issued, expired, worker, pending, gw, unreported>>

\* Fault: an approved video is cleaned up like one that waits for approval.
IsExpiredApproved(v) ==
  video[v].status \in {"awaiting_approval", "uploading"} /\ expired[video[v].final]

IsExpired(v) == video[v].status = "awaiting_approval" /\ expired[video[v].final]
Expire(row) == [row EXCEPT !.status = "expired", !.files = FALSE]

\* cleanup_expired_approvals, from its loop and from approve_video.
CleanupExpired(v) ==
  /\ IsExpired(v)
  /\ video' = [video EXCEPT ![v] = Expire(@)]
  /\ UNCHANGED <<jobs, issued, expired, worker, pending, gw, unreported>>

-----------------------------------------------------------------------------
(* A worker claims a job and runs it.                                      *)

Claimed(job, w) == [job EXCEPT !.status = "running", !.attempts = @ + 1, !.owner = w,
                               !.live = TRUE]

\* acquire_next_job: a queued job that is due or a running one whose lease
\* lapsed, whatever its max_attempts.
AcquireJob(w, j) ==
  /\ worker[w].pc = "idle"
  /\ \/ jobs[j].status = "queued" /\ jobs[j].due
     \/ jobs[j].status = "running" /\ ~jobs[j].live
  /\ jobs[j].attempts < AttemptBound
  /\ jobs' = [jobs EXCEPT ![j] = Claimed(@, w)]
  /\ worker' = [worker EXCEPT ![w] = [IdleWorker EXCEPT !.pc = "leased", !.job = j,
                                        !.gen = jobs[j].attempts + 1]]
  /\ UNCHANGED <<video, issued, expired, pending, gw, unreported>>

\* Fault: a generation whose lease has lapsed is renewed.
LeaseAcceptedLapsed(q, w) ==
  /\ gw[q].phase # "none"
  /\ \/ gw[q].job = None
     \/ gw[q].job = worker[w].job /\ gw[q].gen <= worker[w].gen

\* The gateway's condition on an execution lease: the first of the approval, a
\* renewal of a live one, or a later generation of the same job.
LeaseAccepted(q, w) ==
  /\ gw[q].phase # "none"
  /\ \/ gw[q].job = None
     \/ /\ gw[q].job = worker[w].job
        /\ \/ gw[q].gen = worker[w].gen /\ gw[q].live
           \/ gw[q].gen < worker[w].gen

\* A later generation makes the gateway refuse what is in flight for an earlier.
GatewayLeases(q, w) ==
  gw' = [gw EXCEPT ![q].job = worker[w].job, ![q].gen = worker[w].gen, ![q].live = TRUE,
                   ![q].late = IF gw[q].late = worker[w].gen THEN gw[q].late ELSE 0]

\* run_leased_job for work that has no payment to lease.
StartJob(w) ==
  /\ worker[w].pc = "leased"
  /\ \/ JobOf(w).kind # "upload"
     \/ Fenced(w) /\ video[VideoOf(w)].approved = None
  /\ Goto(w, IF JobOf(w).kind = "quote" THEN "quote" ELSE "read")
  /\ UNCHANGED <<video, jobs, issued, expired, pending, gw, unreported>>

\* update_payment_lease before an approved upload runs.
ActivateLease(w) ==
  LET q == video[VideoOf(w)].approved IN
  /\ worker[w].pc = "leased"
  /\ JobOf(w).kind = "upload"
  /\ Fenced(w)
  /\ q # None
  /\ \/ LeaseAccepted(q, w) /\ GatewayLeases(q, w) /\ Goto(w, "read")
     \/ ~LeaseAccepted(q, w) /\ FailWith(w, "recovery") /\ UNCHANGED gw
  /\ UNCHANGED <<video, jobs, issued, expired, pending, unreported>>

\* maintain_lease: the job's lease is renewed (it stays live), then the payment
\* lease of whatever approval the row names now.
RenewLease(w) ==
  LET q == video[VideoOf(w)].approved IN
  /\ worker[w].pc \in Working
  /\ JobOf(w).kind = "upload"
  /\ Fenced(w)
  /\ q # None
  /\ LeaseAccepted(q, w)
  /\ GatewayLeases(q, w)
  /\ UNCHANGED <<video, jobs, issued, expired, worker, pending, unreported>>

\* The status the row must have for a process or an upload job to do anything.
Runs(k, row) ==
  \/ k = "process" /\ row.status \in {"pending", "processing"}
  \/ k = "upload" /\ row.status = "uploading"

\* run_process_video_job and run_upload_video_job read the row; a job whose video
\* has moved on succeeds without doing anything.
ReadStatus(w) ==
  LET k == JobOf(w).kind
      row == video[VideoOf(w)]
  IN
  /\ worker[w].pc = "read"
  /\ \/ ~Runs(k, row) /\ Goto(w, "done")
     \/ Runs(k, row) /\ k = "upload" /\ Goto(w, "plan")
     \/ Runs(k, row) /\ k = "process" /\ row.files /\ Goto(w, "work")
     \/ Runs(k, row) /\ k = "process" /\ ~row.files /\ FailWith(w, "plain")
  /\ UNCHANGED <<video, jobs, issued, expired, pending, gw, unreported>>

\* process_video_inner: old variants are dropped, the row is set to processing,
\* the renditions are made and recorded.
StartProcessing(w) ==
  /\ worker[w].pc = "work"
  /\ Fenced(w)
  /\ video' = [video EXCEPT ![VideoOf(w)].status = "processing"]
  /\ Goto(w, "quote")
  /\ UNCHANGED <<jobs, issued, expired, pending, gw, unreported>>

\* build_final_upload_quote: a fresh quote ID for the files on disk.
BuildQuote(w) ==
  /\ worker[w].pc = "quote"
  /\ video[VideoOf(w)].files
  /\ \E q \in Quote :
       /\ issued[q] = None
       /\ \A p \in Quote : issued[p] = None => q <= p
       /\ issued' = [issued EXCEPT ![q] = VideoOf(w)]
       /\ worker' = [worker EXCEPT ![w].pc = "publish", ![w].quote = q]
  /\ UNCHANGED <<video, jobs, expired, pending, gw, unreported>>

\* set_awaiting_approval: fenced, and not conditional on the row's status.
SetAwaitingApproval(w) ==
  /\ worker[w].pc = "publish"
  /\ Fenced(w)
  /\ video' = [video EXCEPT ![VideoOf(w)].status = "awaiting_approval",
                            ![VideoOf(w)].final = worker[w].quote]
  /\ Goto(w, "done")
  /\ UNCHANGED <<jobs, issued, expired, pending, gw, unreported>>

\* upload_approved_video_inner up to the paid phase.  The plan must be the one
\* approved; the text of its expiry says nothing about payment.
ReadPlan(w) ==
  LET row == video[VideoOf(w)] IN
  /\ worker[w].pc = "plan"
  /\ \/ row.approved # row.final /\ FailWith(w, "approval")
     \/ /\ row.approved = row.final
        /\ expired[row.final] \/ ~row.files
        /\ worker' = [worker EXCEPT ![w].pc = "failed", ![w].class = "plain",
                                    ![w].quote = row.final]
     \/ /\ row.approved = row.final
        /\ ~expired[row.final]
        /\ row.files
        /\ worker' = [worker EXCEPT ![w].pc = "store", ![w].quote = row.final]
  /\ UNCHANGED <<video, jobs, issued, expired, pending, gw, unreported>>

\* The gateway admits an object of the plan under the worker's lease key.
StoreAdmitted(w) ==
  LET q == worker[w].quote IN
  /\ worker[w].pc = "store"
  /\ gw[q].phase = "open"
  /\ ~expired[q]
  /\ gw[q].live /\ gw[q].job = worker[w].job /\ gw[q].gen = worker[w].gen
  /\ gw[q].admitted # worker[w].gen
  /\ gw' = [gw EXCEPT ![q].admitted = worker[w].gen]
  /\ UNCHANGED <<video, jobs, issued, expired, worker, pending, unreported>>

\* Fault: the row becomes ready although the lease was lost.
CommitReadyUnfenced(w) ==
  /\ worker[w].pc = "store"
  /\ gw[worker[w].quote].stored
  /\ video[VideoOf(w)].status # "deleted"
  /\ video' = [video EXCEPT ![VideoOf(w)].status = "ready"]
  /\ Goto(w, "done")
  /\ UNCHANGED <<jobs, issued, expired, pending, gw, unreported>>

\* Fault: incomplete upload results are accepted.
CommitReadyPartial(w) ==
  /\ worker[w].pc = "store"
  /\ gw[worker[w].quote].admitted > 0
  /\ Fenced(w)
  /\ video' = [video EXCEPT ![VideoOf(w)].status = "ready"]
  /\ Goto(w, "done")
  /\ UNCHANGED <<jobs, issued, expired, pending, gw, unreported>>

\* Every object of the plan is stored: the row becomes ready with its snapshot.
CommitReady(w) ==
  /\ worker[w].pc = "store"
  /\ gw[worker[w].quote].stored
  /\ Fenced(w)
  /\ video' = [video EXCEPT ![VideoOf(w)].status = "ready"]
  /\ Goto(w, "done")
  /\ UNCHANGED <<jobs, issued, expired, pending, gw, unreported>>

\* Anything else a step runs into.  Quotes above a mode's limit and a changed
\* catalog or file ask for approval; paid_phase marks whatever happens in it.
JobFails(w, c) ==
  /\ \/ c = "plain" /\ worker[w].pc \in Working \ {"store"}
     \/ c = "approval" /\ worker[w].pc \in {"quote", "plan"}
     \/ c \in {"recovery", "both"} /\ worker[w].pc = "store"
  /\ FailWith(w, c)
  /\ UNCHANGED <<video, jobs, issued, expired, pending, gw, unreported>>

-----------------------------------------------------------------------------
(* A worker reports.                                                       *)

Released(job, status) == [job EXCEPT !.status = status, !.owner = None, !.live = FALSE]

\* mark_job_succeeded: the local files of a ready video are removed.
MarkSucceeded(w) ==
  LET v == VideoOf(w) IN
  /\ worker[w].pc = "done"
  /\ Fenced(w)
  /\ jobs' = [jobs EXCEPT ![worker[w].job] = Released(@, "succeeded")]
  /\ video' = IF JobOf(w).kind = "upload" /\ video[v].status = "ready"
              THEN [video EXCEPT ![v].files = FALSE] ELSE video
  /\ Forget(w)
  /\ UNCHANGED <<issued, expired, pending, gw, unreported>>

NeedsApproval(w) == worker[w].class \in {"approval", "both"}

\* A retry may follow paid work of an earlier attempt.
NeedsRecovery(w) ==
  \/ worker[w].class \in {"recovery", "both"}
  \/ NeedsApproval(w) /\ worker[w].gen > 1 /\ JobOf(w).kind = "upload"

FinalFailure(w) == worker[w].gen >= JobOf(w).max \/ NeedsApproval(w) \/ NeedsRecovery(w)

\* mark_job_failed, to be retried after a delay.
RetryLater(w) ==
  /\ worker[w].pc = "failed"
  /\ ~FinalFailure(w)
  /\ Fenced(w)
  /\ jobs' = [jobs EXCEPT ![worker[w].job] = [Released(@, "queued") EXCEPT !.due = FALSE]]
  /\ Forget(w)
  /\ UNCHANGED <<video, issued, expired, pending, gw, unreported>>

\* The gateway is asked to cancel the approval before a new one may be offered.
AsksCancel(w) ==
  NeedsApproval(w) /\ JobOf(w).kind = "upload" /\ video[VideoOf(w)].approved # None

\* The gateway cancels for the holder of the live lease, and only an approval
\* under which nothing was ever reserved.
Cancellable(q, j, gen) ==
  gw[q].live /\ gw[q].job = j /\ gw[q].gen = gen /\ ~gw[q].paid

\* Fault: an answer that did not come counts as a cancellation.
FailedStatusTrusting(w, unpaid) ==
  IF NeedsApproval(w) THEN "approval_required"
  ELSE IF NeedsRecovery(w) THEN "payment_recovery_required" ELSE "error"

\* The status of a video whose job failed for good.
FailedStatus(w, unpaid) ==
  LET recovery == IF AsksCancel(w) THEN ~unpaid ELSE NeedsRecovery(w)
      approved == video[VideoOf(w)].approved # None
  IN
  IF recovery \/ (approved /\ ~NeedsApproval(w) /\ JobOf(w).kind = "upload")
  THEN "payment_recovery_required"
  ELSE IF NeedsApproval(w) THEN "approval_required" ELSE "error"

\* The cancel request is left in flight: the gateway may still act on it.
CancelInFlight(w) ==
  gw' = IF AsksCancel(w) THEN [gw EXCEPT ![video[VideoOf(w)].approved].late = worker[w].gen]
        ELSE gw

\* mark_job_failed for good: the job, then the gateway's answer, then the video.
FailJob(w, unpaid) ==
  LET q == video[VideoOf(w)].approved IN
  /\ worker[w].pc = "failed"
  /\ FinalFailure(w)
  /\ Fenced(w)
  /\ \/ /\ unpaid
        /\ AsksCancel(w)
        /\ Cancellable(q, worker[w].job, worker[w].gen)
        /\ gw' = [gw EXCEPT ![q].phase = "cancelled"]
     \/ ~unpaid /\ (UNCHANGED gw \/ CancelInFlight(w))
  /\ jobs' = [jobs EXCEPT ![worker[w].job] = Released(@, "failed")]
  /\ video' = [video EXCEPT ![VideoOf(w)].status = FailedStatus(w, unpaid)]
  /\ Forget(w)
  /\ UNCHANGED <<issued, expired, pending, unreported>>

\* The report does not reach the database or comes too late for the lease; the
\* gateway may have been asked to cancel by then.
MarkLost(w) ==
  /\ worker[w].pc \in {"done", "failed"}
  /\ \/ UNCHANGED gw
     \/ worker[w].pc = "failed" /\ FinalFailure(w) /\ Fenced(w) /\ CancelInFlight(w)
  /\ LosesReports({w})
  /\ Forget(w)
  /\ UNCHANGED <<video, jobs, issued, expired, pending>>

\* maintain_lease ends the run: a renewal failed or found the lease lost.
LoseLease(w) ==
  /\ worker[w].pc \in Working
  /\ Forget(w)
  /\ UNCHANGED <<video, jobs, issued, expired, pending, gw, unreported>>

\* A shutdown cuts the run off; mark_job_interrupted gives the job back.
Interrupt(w) ==
  LET j == worker[w].job IN
  /\ worker[w].pc \in Working
  /\ jobs' = IF jobs[j].status = "running" /\ jobs[j].owner = w
             THEN [jobs EXCEPT ![j] = [Released(@, "queued") EXCEPT !.due = TRUE]]
             ELSE jobs
  /\ worker' = [worker EXCEPT ![w] = [IdleWorker EXCEPT !.pc = "stopped"]]
  /\ UNCHANGED <<video, issued, expired, pending, gw, unreported>>

-----------------------------------------------------------------------------
(* Restart.                                                                *)

Requeued(j) ==
  IF jobs[j].status = "running" /\ ~jobs[j].live
  THEN [jobs[j] EXCEPT !.status = "queued", !.owner = None, !.due = TRUE]
  ELSE jobs[j]

\* The job that continues a video in progress.
RecoveryKind(status) ==
  CASE status \in {"pending", "processing"} -> "process"
    [] status = "quoting" -> "quote"
    [] status = "uploading" -> "upload"

\* Videos in progress that no job with a live lease holds.
Interrupted(v) ==
  /\ video[v].status \in {"pending", "processing", "uploading", "quoting"}
  /\ ~\E j \in Job : jobs[j].video = v /\ jobs[j].status = "running" /\ jobs[j].live

Unrecoverable(v) ==
  Interrupted(v) /\ video[v].status \in {"pending", "processing"} /\ ~video[v].files

\* Fault: videos being quoted are not looked for.
NeedsJobNotQuoting(v) ==
  /\ Interrupted(v)
  /\ ~Unrecoverable(v)
  /\ video[v].status # "quoting"
  /\ ~HasActive(RecoveryKind(video[v].status), v)

NeedsJob(v) ==
  /\ Interrupted(v)
  /\ ~Unrecoverable(v)
  /\ ~HasActive(RecoveryKind(video[v].status), v)

\* The admin process ends, at any point, and starts again: expired approvals are
\* cleaned up and interrupted work is recovered before workers and routes start;
\* giving up a video whose source is missing may fail, which is ignored.
Restart ==
  LET need == {v \in Video : NeedsJob(v)} IN
  /\ \E new \in [need -> Unused] :
       /\ \A v, u \in need : new[v] = new[u] => v = u
       /\ \A j \in Unused, v \in need : j < new[v] => \E u \in need : new[u] = j
       /\ jobs' = [j \in Job |->
                     IF \E v \in need : new[v] = j
                     THEN LET v == CHOOSE v \in need : new[v] = j
                          IN NewJob(RecoveryKind(video[v].status), v)
                     ELSE Requeued(j)]
  /\ \E given \in SUBSET {v \in Video : Unrecoverable(v)} :
       video' = [v \in Video |-> IF IsExpired(v) THEN Expire(video[v])
                                 ELSE IF v \in given THEN [video[v] EXCEPT !.status = "error"]
                                      ELSE video[v]]
  /\ LosesReports(Worker)
  /\ worker' = [w \in Worker |-> IdleWorker]
  /\ pending' = [v \in Video |-> {}]
  /\ UNCHANGED <<issued, expired, gw>>

-----------------------------------------------------------------------------
(* The environment: time and the gateway.                                  *)

LeaseLapses(j) ==
  /\ jobs[j].status = "running"
  /\ jobs[j].live
  /\ jobs' = [jobs EXCEPT ![j].live = FALSE]
  /\ LosesReports({w \in Worker : worker[w].job = j})
  /\ UNCHANGED <<video, issued, expired, worker, pending, gw>>

RetryDue(j) ==
  /\ jobs[j].status = "queued"
  /\ ~jobs[j].due
  /\ jobs' = [jobs EXCEPT ![j].due = TRUE]
  /\ UNCHANGED <<video, issued, expired, worker, pending, gw, unreported>>

QuoteExpires(q) ==
  /\ issued[q] # None
  /\ ~expired[q]
  /\ expired' = [expired EXCEPT ![q] = TRUE]
  /\ UNCHANGED <<video, jobs, issued, worker, pending, gw, unreported>>

\* The gateway reserves a transaction for an object it admitted under the lease
\* that is still the current one.
GatewayPays(q) ==
  /\ gw[q].phase = "open"
  /\ ~expired[q]
  /\ gw[q].live
  /\ gw[q].admitted > 0 /\ gw[q].admitted = gw[q].gen
  /\ ~gw[q].paid
  /\ gw' = [gw EXCEPT ![q].paid = TRUE]

\* Everything admitted under the approval is stored.
GatewayStores(q) ==
  /\ gw[q].admitted > 0
  /\ ~gw[q].stored
  /\ gw' = [gw EXCEPT ![q].stored = TRUE]

\* Paid work failed in the gateway, or the gateway restarted in the middle of it.
GatewayPauses(q) ==
  /\ gw[q].phase = "open"
  /\ gw[q].paid
  /\ gw' = [gw EXCEPT ![q].phase = "paused"]

GatewayLeaseLapses(q) ==
  /\ gw[q].live
  /\ gw' = [gw EXCEPT ![q].live = FALSE]

\* A cancel request whose answer nobody waits for any more.
LateCancel(q) ==
  /\ gw[q].late > 0
  /\ Cancellable(q, gw[q].job, gw[q].late)
  /\ gw' = [gw EXCEPT ![q].phase = "cancelled", ![q].late = 0]

Gateway(q) ==
  /\ GatewayPays(q) \/ GatewayStores(q) \/ GatewayPauses(q) \/ GatewayLeaseLapses(q)
       \/ LateCancel(q)
  /\ UNCHANGED <<video, jobs, issued, expired, worker, pending, unreported>>

-----------------------------------------------------------------------------

Handlers(v) ==
  \/ AcceptUpload(v) \/ ApproveVideo(v) \/ ApproveLost(v) \/ RequoteVideo(v)
  \/ ResumeVideo(v) \/ DeleteVideo(v) \/ CleanupExpired(v)
  \/ \E k \in Kind : Enqueue(v, k) \/ EnqueueFails(v, k)

Run(w) ==
  \/ StartJob(w) \/ ActivateLease(w) \/ RenewLease(w) \/ ReadStatus(w)
  \/ StartProcessing(w) \/ BuildQuote(w) \/ SetAwaitingApproval(w)
  \/ ReadPlan(w) \/ StoreAdmitted(w) \/ CommitReady(w)
  \/ \E c \in Class : JobFails(w, c)
  \/ MarkSucceeded(w) \/ RetryLater(w) \/ MarkLost(w)
  \/ \E unpaid \in BOOLEAN : FailJob(w, unpaid)
  \/ LoseLease(w) \/ Interrupt(w)

Next ==
  \/ \E v \in Video : Handlers(v)
  \/ \E w \in Worker : Run(w) \/ \E j \in Job : AcquireJob(w, j)
  \/ Restart
  \/ \E j \in Job : LeaseLapses(j) \/ RetryDue(j)
  \/ \E q \in Quote : QuoteExpires(q) \/ Gateway(q)

Spec == Init /\ [][Next]_vars

-----------------------------------------------------------------------------
(* Properties.                                                             *)

Paid(q) == q # None /\ gw[q].paid

\* No job of the video did its work and then lost its report.  When one did, its
\* work is done once more, or its failure is recorded, whatever became of the
\* video since: most of what follows is then not true of the code.
Reported(v) == v \notin unreported

\* A video whose jobs' reports were never lost is paid for under one approval
\* only, however often it is retried, resumed, quoted again or recovered after a
\* restart.
OnePaidApproval ==
  \A p, q \in Quote :
    issued[p] = issued[q] /\ Reported(issued[p]) /\ Paid(p) /\ Paid(q) => p = q

\* A replacement quote is allowed only before payment: as long as the video
\* exists, a paid approval and the plan it paid for stay with it.
PlanStays(v) ==
  Paid(video[v].approved) /\ video[v].final = video[v].approved
    => /\ video'[v].approved = video[v].approved
       /\ video'[v].final = video[v].final

ReplacedOnlyUnpaid == [][\A v \in Video : PlanStays(v)]_vars

\* The same of a video whose jobs' reports were never lost.
PaidPlanStays == [][\A v \in Video : Reported(v) => PlanStays(v)]_vars

\* A video whose jobs' reports were never lost asks for a new approval only after
\* the gateway cancelled the old one with proof that nothing was paid; timeouts
\* never count as such a proof.
ApprovalRequiredUnpaid ==
  \A v \in Video :
    video[v].status = "approval_required" /\ video[v].approved # None /\ Reported(v)
      => gw[video[v].approved].phase = "cancelled" /\ ~gw[video[v].approved].paid

\* Resume reaches the job the gateway has bound the approval to, unless a job of
\* the video lost its report; any other job would be refused its payment lease for
\* ever.
ResumeFindsJob ==
  \A v \in Video :
    LET q == video[v].approved IN
    /\ video[v].status = "payment_recovery_required"
    /\ q # None /\ gw[q].job # None
    /\ Reported(v)
    => LastFailed(v, gw[q].job)

\* A ready video stays ready: no late, reclaimed or recovered job takes it back,
\* unless a job of the video lost its report.
ReadyIsFinal ==
  [][\A v \in Video :
       video[v].status = "ready" /\ Reported(v) => video'[v].status \in {"ready", "deleted"}]_vars

\* Ready means that everything in the approved plan was stored, unless a job of
\* the video lost its report.
ReadyIsStored ==
  \A v \in Video :
    video[v].status = "ready" /\ Reported(v) => /\ video[v].approved = video[v].final
                                                /\ gw[video[v].approved].stored

\* Files are kept for as long as a paid upload may still need them, unless a job
\* of the video lost its report.
PaidFilesKept ==
  \A v \in Video :
    Paid(video[v].approved) /\ video[v].status \notin {"ready", "deleted"} /\ Reported(v)
      => video[v].files

\* After a restart every interrupted video whose source is there is being worked
\* on again, unless a job of the video lost its report, the restart itself included.
RestartRecovers ==
  [][Restart =>
       \A v \in Video :
         /\ video'[v].status \in {"pending", "processing", "quoting", "uploading"}
         /\ ~Unrecoverable(v)
         /\ v \notin unreported'
         => \E j \in Job : /\ jobs'[j].video = v
                           /\ jobs'[j].kind = RecoveryKind(video'[v].status)
                           /\ jobs'[j].status \in {"queued", "running"}]_vars

\* Expiry invalidates an unpaid plan: a job that read an expired plan, and under
\* whose approval nothing was ever admitted, does not end in payment recovery.
ExpiredAsksApproval ==
  [][\A w \in Worker :
       /\ worker[w].pc = "failed" /\ worker[w].class = "plain"
       /\ worker[w].quote # None /\ expired[worker[w].quote]
       /\ gw[worker[w].quote].admitted = 0
       /\ video[VideoOf(w)].files
       /\ jobs'[worker[w].job].status = "failed"
       => video'[VideoOf(w)].status # "payment_recovery_required"]_vars

\* Something was admitted under the generation that an approval has now.
AdmittedNow(q) == gw[q].admitted > 0 /\ gw[q].admitted = gw[q].gen

\* What the workers and handlers know of an approval.
Seen(q) ==
  [phase |-> gw[q].phase, job |-> gw[q].job, gen |-> gw[q].gen, live |-> gw[q].live,
   admitted |-> AdmittedNow(q), paid |-> gw[q].paid, expired |-> expired[q]]

Gateways == INSTANCE GatewayView
              WITH Approval <- Quote, row <- [q \in Quote |-> Seen(q)]

\* What happens to the approvals in this model is what may happen to them in the
\* gateway: none of its behaviours rests on one the gateway does not have.
RespectsView == Gateways!Spec

=============================================================================
