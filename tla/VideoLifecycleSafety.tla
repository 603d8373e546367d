------------------------ MODULE VideoLifecycleSafety ------------------------
(***************************************************************************)
(* Safety of VideoLifecycle for any number of videos, workers, jobs and    *)
(* quotes: what a video was paid for under one approval stays with it,     *)
(* through retries, resumes, requotes and restarts, unless one of its jobs *)
(* did its work and lost its report.                                       *)
(*                                                                         *)
(* The inductive invariant has a part that always holds (BaseInv: who owns *)
(* a quote, one active job per kind) and a part for each video whose jobs' *)
(* reports were never lost (VideoInv).  A step of a handler or a worker    *)
(* concerns one video and leaves the others alone (Elsewhere), whatever    *)
(* became of theirs.                                                       *)
(***************************************************************************)
EXTENDS VideoLifecycleProofs

-----------------------------------------------------------------------------
(* What always holds.                                                      *)

\* Jobs are numbered without gaps, and an unused number belongs to no video.
NoGaps == \A i, j \in Job : jobs[i].status = "none" /\ i < j => jobs[j].status = "none"
Unowned == \A j \in Job : jobs[j].status = "none" => jobs[j].video = None

\* The unique index on active jobs of one kind of one video.
OneActive ==
  \A i, j \in Job :
    Active(i) /\ Active(j) /\ jobs[i].kind = jobs[j].kind /\ jobs[i].video = jobs[j].video => i = j

\* A row names quotes of its own video only.
Named(v) == \A q \in {video[v].final, video[v].approved} : q # None => issued[q] = v

\* A quote is bound to a job only once it is prepared, and paid only then.
Prepared(q) ==
  /\ issued[q] = None => gw[q].job = None
  /\ gw[q].live => gw[q].job # None
  /\ gw[q].paid => gw[q].job # None /\ gw[q].phase # "cancelled"

\* A quote about to be published is new.
Fresh(w) ==
  worker[w].pc = "publish" =>
    /\ worker[w].quote # None
    /\ issued[worker[w].quote] = VideoOf(w)
    /\ gw[worker[w].quote].job = None
    /\ \A v \in Video : worker[w].quote \notin {video[v].final, video[v].approved}
    /\ \A u \in Worker : worker[u].pc = "publish" /\ worker[u].quote = worker[w].quote => u = w

NumbersInv == NoGaps /\ Unowned /\ OneActive

NamesInv ==
  /\ \A v \in Video : Named(v)
  /\ \A q \in Quote : Prepared(q)
  /\ \A w \in Worker : Fresh(w)

BaseInv == TypeInv /\ NumbersInv /\ NamesInv

-----------------------------------------------------------------------------
(* What holds of a video whose jobs' reports were never lost.              *)

\* The work a job of kind k does is what a video with this row waits for.
Fits(k, row) ==
  \/ k = "process" /\ row.status \in {"pending", "processing"} /\ row.files
  \/ k = "quote" /\ row.status = "quoting"
  \/ k = "upload" /\ row.status = "uploading"

\* An active job whose work is not yet done.
Unsettled(j) == Active(j) /\ ~ReportDue(j)

\* An upload job whose video became ready.
Uploaded(j) ==
  jobs[j].kind = "upload" /\ (jobs[j].status = "succeeded" \/ (Active(j) /\ ReportDue(j)))

\* A job and the video it belongs to.
JobOK(j, v) ==
  /\ jobs[j].status # "deleted" => video[v].status \notin {"none", "deleted"}
  /\ jobs[j].status = "deleted" => video[v].status = "deleted"
  /\ Unsettled(j) => Fits(jobs[j].kind, video[v])
  /\ Uploaded(j) => video[v].status = "ready"

\* A handler about to enqueue a job enqueues the one the video waits for.
PendingOK(v) ==
  video[v].status # "deleted" =>
    \A k \in pending[v] :
      /\ Fits(k, video[v])
      /\ k = "process" => video[v].status = "pending"
      /\ \A j \in Job : jobs[j].video = v => ~Unsettled(j)

\* The invariant of a video and its jobs.
JobsInv(v) ==
  /\ \A j \in Job : jobs[j].video = v => JobOK(j, v)
  /\ PendingOK(v)

\* The quotes a row of videos names, and what the gateway knows of them.
RowOK(v) ==
  LET row == video[v] IN
  /\ row.status \in {"none", "pending", "processing", "quoting", "awaiting_approval", "error",
                     "expired"} => row.approved = None
  /\ row.approved # None => row.approved = row.final
  /\ row.status \in {"uploading", "payment_recovery_required", "ready"} => row.approved # None
  /\ row.status \in {"uploading", "payment_recovery_required"} => row.files
  /\ row.status = "awaiting_approval" => row.final # None /\ gw[row.final].job = None
  /\ row.status = "ready" => row.approved = row.final /\ gw[row.approved].stored
  /\ row.status = "approval_required" /\ row.approved # None
       => gw[row.approved].phase = "cancelled" /\ ~gw[row.approved].paid

\* Where an approval may have been paid for.
Settled == {"uploading", "ready", "payment_recovery_required", "deleted"}

\* An approval of the video that a job was bound to, and that was not cancelled,
\* is the one its row names.
BoundHere(q, v) ==
  gw[q].job # None /\ gw[q].phase # "cancelled"
    => video[v].approved = q /\ video[v].status \in Settled

\* A worker that stores for the video under a lease stores the plan its row names.
StoresFinal(w, v) ==
  worker[w].pc = "store" /\ Fenced(w) /\ VideoOf(w) = v
    => worker[w].quote # None /\ worker[w].quote = video[v].final

\* The invariant of a video's quotes and approvals.
QuotesInv(v) ==
  /\ RowOK(v)
  /\ \A q \in Quote : issued[q] = v => BoundHere(q, v)
  /\ \A w \in Worker : StoresFinal(w, v)

\* An upload job of the video.
Upload(j, v) == jobs[j].status # "none" /\ jobs[j].kind = "upload" /\ jobs[j].video = v

\* An active upload job of a video is its youngest.
Youngest(v) ==
  \A i, j \in Job : Upload(i, v) /\ Upload(j, v) /\ Active(j) => i <= j

\* The job an approval is bound to goes on with the video, and is the one a
\* resume finds.
Bound(v) ==
  LET q == video[v].approved IN
  q # None /\ gw[q].job # None =>
    /\ video[v].status = "uploading" => Upload(gw[q].job, v) /\ Active(gw[q].job)
    /\ video[v].status = "payment_recovery_required" => LastFailed(v, gw[q].job)

VideoInv(v) == JobsInv(v) /\ QuotesInv(v) /\ Youngest(v) /\ Bound(v)

\* The inductive invariant.
IInv == BaseInv /\ \A v \in Video : Reported(v) => VideoInv(v)

-----------------------------------------------------------------------------
(* The fence.                                                              *)

\* A job has one owner.
LEMMA FencedUnique ==
  ASSUME NEW u, NEW w, Fenced(u), Fenced(w), worker[u].job = worker[w].job
  PROVE  u = w
BY DEF Fenced, JobOf

\* A worker that holds its lease and has not done its work has an unsettled job.
LEMMA FencedUnsettled ==
  ASSUME TypeInv, NEW w \in Worker, Fenced(w), worker[w].pc \notin {"idle", "stopped", "done"}
  PROVE  worker[w].job \in Job /\ Unsettled(worker[w].job)
<1>1. worker[w].job \in Job
  BY RunFacts
<1>2. Active(worker[w].job)
  BY DEF Active, Fenced, JobOf
<1>3. ~ReportDue(worker[w].job)
  BY FencedUnique DEF ReportDue, Due
<1> QED BY <1>1, <1>2, <1>3 DEF Unsettled

\* A video waits for its unsettled job, and for nothing else.
LEMMA UnsettledAlone ==
  ASSUME BaseInv, NEW v \in Video, JobsInv(v), NEW j \in Job, jobs[j].video = v, Unsettled(j)
  PROVE  /\ Fits(jobs[j].kind, video[v])
         /\ \A i \in Job : Unsettled(i) /\ jobs[i].video = v => i = j
         /\ pending[v] = {}
<1>1. Fits(jobs[j].kind, video[v])
  BY DEF JobsInv, JobOK
<1>2. ASSUME NEW i \in Job, Unsettled(i), jobs[i].video = v PROVE i = j
  <2>1. Fits(jobs[i].kind, video[v])
    BY <1>2 DEF JobsInv, JobOK
  <2>2. jobs[i].kind = jobs[j].kind
    BY <1>1, <2>1 DEF Fits
  <2> QED BY <1>2, <2>2 DEF BaseInv, NumbersInv, OneActive, Unsettled
<1>3. video[v].status # "deleted"
  BY <1>1 DEF Fits
<1>4. pending[v] = {}
  BY <1>3 DEF JobsInv, PendingOK
<1> QED BY <1>1, <1>2, <1>4

\* What a worker that holds its lease in a step before its report stands on.
FencedStep(w, j, v) ==
  /\ j = worker[w].job /\ v = VideoOf(w)
  /\ j \in Job /\ v \in Video /\ jobs[j] = JobOf(w) /\ jobs[j].video = v
  /\ Unsettled(j) /\ Fits(jobs[j].kind, video[v]) /\ pending[v] = {}
  /\ \A i \in Job : Unsettled(i) /\ jobs[i].video = v => i = j

\* A worker that holds its lease stands on the one unsettled job of a video that
\* waits for exactly this work.
LEMMA FencedFacts ==
  ASSUME BaseInv, NEW w \in Worker, Fenced(w), worker[w].pc \notin {"idle", "stopped", "done"},
         JobsInv(VideoOf(w))
  PROVE  FencedStep(w, worker[w].job, VideoOf(w))
<1>0. TypeInv
  BY DEF BaseInv
<1>1. worker[w].job \in Job /\ Unsettled(worker[w].job)
  BY <1>0, FencedUnsettled
<1>2. jobs[worker[w].job].video = VideoOf(w) /\ jobs[worker[w].job] = JobOf(w)
  BY DEF JobOf, VideoOf
<1>3. PICK v \in Video : v = VideoOf(w)
  BY <1>0, RunFacts
<1> QED BY <1>1, <1>2, <1>3, UnsettledAlone DEF FencedStep

\* Reports that are due stay due as long as the job and its worker are left alone.
LEMMA DueStill ==
  ASSUME NEW j, jobs'[j] = jobs[j],
         \A u \in Worker :
           \/ worker'[u] = worker[u]
           \/ /\ ~(worker[u].job = j /\ worker[u].pc = "done" /\ Fenced(u))
              /\ ~(worker'[u].job = j /\ worker'[u].pc = "done" /\ Fenced(u)')
  PROVE  ReportDue(j)' <=> ReportDue(j)
<1>1. ASSUME NEW u \in Worker, worker'[u] = worker[u], worker[u].job = j
      PROVE  Fenced(u)' <=> Fenced(u)
  BY <1>1 DEF Fenced, JobOf
<1>2. ASSUME NEW u \in Worker
      PROVE  (worker[u].job = j /\ worker[u].pc = "done" /\ Fenced(u))
                <=> (worker'[u].job = j /\ worker'[u].pc = "done" /\ Fenced(u)')
  BY <1>1
<1> QED BY <1>2 DEF ReportDue, Due

\* A worker that moves on keeps its lease or goes on without one.
LEMMA MovesFenced ==
  ASSUME NEW w \in Worker, NEW pc, Moves(w, pc), jobs' = jobs
  PROVE  Fenced(w)' <=> Fenced(w)
BY DEF Moves, Fenced, JobOf

-----------------------------------------------------------------------------
(* What the steps do.                                                      *)

\* What every step but a lease does to an approval.
GwKept(q) ==
  /\ gw'[q].job = gw[q].job
  /\ gw'[q].live => gw[q].live
  /\ gw[q].stored => gw'[q].stored
  /\ gw[q].phase = "cancelled" => gw'[q].phase = "cancelled"
  /\ gw'[q].paid => gw[q].paid \/ gw[q].live
  /\ gw'[q].paid => gw'[q].phase # "cancelled"

GwStep == \A q \in Quote : GwKept(q)

\* What every step but the build of a quote does to workers that publish.
PublishStep ==
  \A w \in Worker : worker'[w].pc = "publish" =>
    /\ worker[w].pc = "publish" /\ worker'[w].quote = worker[w].quote
    /\ VideoOf(w)' = VideoOf(w)

\* What every step but the read of a plan does to workers that store.
StoreStep ==
  \A w \in Worker : worker'[w].pc = "store" /\ Fenced(w)' =>
    /\ worker[w].pc = "store" /\ Fenced(w) /\ worker'[w].quote = worker[w].quote
    /\ VideoOf(w)' = VideoOf(w)

WorkersStep == PublishStep /\ StoreStep

\* A claim takes a job no report is due for.
LEMMA AcquireEffects ==
  ASSUME TypeInv, NEW w \in Worker, NEW j \in Job, AcquireJob(w, j)
  PROVE  /\ jobs'[j].status = "running" /\ jobs'[j].kind = jobs[j].kind
         /\ jobs'[j].video = jobs[j].video /\ jobs'[j].owner = w
         /\ \A i \in Job : i # j => jobs'[i] = jobs[i]
         /\ \A u \in Worker : u # w => worker'[u] = worker[u]
         /\ worker[w].pc = "idle" /\ worker'[w].pc = "leased"
         /\ Active(j) /\ \A u \in Worker : worker[u].job = j => ~Fenced(u)
<1>t. /\ jobs \in [Job -> JobRow] /\ worker \in [Worker -> WorkerState] /\ jobs[j] \in JobRow
  BY DEF TypeInv, TypeOK
<1>1. /\ jobs' = [jobs EXCEPT ![j] = Claimed(jobs[j], w)] /\ worker[w].pc = "idle"
      /\ worker' = [worker EXCEPT ![w] = [IdleWorker EXCEPT !.pc = "leased", !.job = j,
                                            !.gen = jobs[j].attempts + 1]]
  BY DEF AcquireJob
<1>2. /\ jobs'[j].status = "running" /\ jobs'[j].kind = jobs[j].kind
      /\ jobs'[j].video = jobs[j].video /\ jobs'[j].owner = w
  BY <1>t, <1>1, JobEffects
<1>3. worker'[w].pc = "leased" /\ \A u \in Worker : u # w => worker'[u] = worker[u]
  BY <1>t, <1>1 DEF IdleWorker
<1>4. Active(j) /\ \A u \in Worker : worker[u].job = j => ~Fenced(u)
  BY DEF AcquireJob, Active, Fenced, JobOf
<1>5. \A i \in Job : i # j => jobs'[i] = jobs[i]
  BY <1>t, <1>1
<1> QED BY <1>1, <1>2, <1>3, <1>4, <1>5

\* What a restart does to the jobs: every interrupted video without a job gets
\* one of its own, in creation order; the others are queued again or left alone.
LEMMA RestartEffects ==
  ASSUME TypeInv, Restart
  PROVE  \E new \in [{v \in Video : NeedsJob(v)} -> Unused] :
           /\ \A v, u \in {x \in Video : NeedsJob(x)} : new[v] = new[u] => v = u
           /\ \A j \in Unused, v \in {x \in Video : NeedsJob(x)} :
                j < new[v] => \E u \in {x \in Video : NeedsJob(x)} : new[u] = j
           /\ \A v \in {x \in Video : NeedsJob(x)} :
                jobs'[new[v]] = NewJob(RecoveryKind(video[v].status), v)
           /\ \A j \in Job : (\A v \in {x \in Video : NeedsJob(x)} : new[v] # j)
                                => jobs'[j] = Requeued(j)
<1> DEFINE need == {v \in Video : NeedsJob(v)}
<1>1. PICK new \in [need -> Unused] :
        /\ \A v, u \in need : new[v] = new[u] => v = u
        /\ \A j \in Unused, v \in need : j < new[v] => \E u \in need : new[u] = j
        /\ jobs' = [j \in Job |->
                      IF \E v \in need : new[v] = j
                      THEN LET v == CHOOSE v \in need : new[v] = j
                           IN NewJob(RecoveryKind(video[v].status), v)
                      ELSE Requeued(j)]
  BY DEF Restart
<1>2. ASSUME NEW v \in need PROVE jobs'[new[v]] = NewJob(RecoveryKind(video[v].status), v)
  <2>1. new[v] \in Job
    BY <1>1 DEF Unused
  <2>2. (CHOOSE x \in need : new[x] = new[v]) = v
    BY <1>1
  <2> QED BY <1>1, <2>1, <2>2
<1>3. \A j \in Job : (\A v \in need : new[v] # j) => jobs'[j] = Requeued(j)
  BY <1>1
<1> QED BY <1>1, <1>2, <1>3

\* Job rows in use keep their kind and video in every step.
LEMMA NextGrows ==
  ASSUME TypeInv, Next
  PROVE  Grows
<1>t. jobs \in [Job -> JobRow] /\ TypeOK
  BY DEF TypeInv, TypeOK
<1>1. ASSUME UNCHANGED jobs PROVE Grows
  BY <1>1, <1>t DEF Grows
<1>2. ASSUME NEW j \in Job, NEW r \in JobRow, jobs' = [jobs EXCEPT ![j] = r], Keeps(r, jobs[j]),
             jobs[j].status # "none"
      PROVE  Grows
  BY <1>2, <1>t DEF Grows, Keeps
<1>3. ASSUME NEW v \in Video, Handlers(v) PROVE Grows
  <2>1. CASE ResumeVideo(v)
    <3>1. PICK j \in Job : LastFailed(v, j) /\ jobs' = [jobs EXCEPT ![j] = Resumed(jobs[j])]
      BY <2>1 DEF ResumeVideo
    <3>2. jobs[j] \in JobRow /\ jobs[j].status = "failed"
      BY <1>t, <3>1 DEF LastFailed, FailedUploads
    <3>3. Keeps(Resumed(jobs[j]), jobs[j])
      BY <3>2, JobTypes, JobEffects DEF Keeps
    <3> QED BY <1>2, <3>1, <3>2, <3>3 DEF Keeps
  <2>2. CASE DeleteVideo(v)
    BY <1>t, <2>2 DEF DeleteVideo, Grows, JobRow
  <2>3. ASSUME NEW k \in Kind, Enqueue(v, k) PROVE Grows
    <3>1. ASSUME NEW j \in Job, NextJob(j), jobs' = [jobs EXCEPT ![j] = NewJob(k, v)] PROVE Grows
      <4>1. jobs[j].status = "none" /\ NewJob(k, v) \in JobRow /\ NewJob(k, v).video \in Video
        BY <3>1, NewTypes DEF NextJob, Unused
      <4> QED BY <1>t, <3>1, <4>1, JobSet
    <3> QED BY <1>1, <2>3, <3>1 DEF Enqueue
  <2>4. CASE \/ AcceptUpload(v) \/ ApproveVideo(v) \/ ApproveLost(v) \/ RequoteVideo(v)
             \/ CleanupExpired(v) \/ \E k \in Kind : EnqueueFails(v, k)
    BY <1>1, <2>4
       DEF AcceptUpload, ApproveVideo, ApproveLost, RequoteVideo, CleanupExpired, EnqueueFails
  <2> QED BY <1>3, <2>1, <2>2, <2>3, <2>4 DEF Handlers
<1>4. ASSUME NEW w \in Worker, Run(w) PROVE Grows
  <2>1. CASE \/ MarkSucceeded(w) \/ RetryLater(w) \/ Interrupt(w)
             \/ \E unpaid \in BOOLEAN : FailJob(w, unpaid)
    <3>1. worker[w].pc \notin {"idle", "stopped"}
      BY <2>1 DEF MarkSucceeded, RetryLater, Interrupt, FailJob, Working
    <3>2. /\ worker[w].job \in Job /\ JobOf(w) \in JobRow /\ JobOf(w).status # "none"
          /\ jobs[worker[w].job] = JobOf(w)
      BY <3>1, RunFacts DEF JobOf
    <3>3. \/ UNCHANGED jobs
          \/ jobs' = [jobs EXCEPT ![worker[w].job] = Released(JobOf(w), "succeeded")]
          \/ jobs' = [jobs EXCEPT ![worker[w].job] = Released(JobOf(w), "failed")]
          \/ jobs' = [jobs EXCEPT ![worker[w].job] = [Released(JobOf(w), "queued") EXCEPT !.due = FALSE]]
          \/ jobs' = [jobs EXCEPT ![worker[w].job] = [Released(JobOf(w), "queued") EXCEPT !.due = TRUE]]
      BY <2>1, <3>2 DEF MarkSucceeded, RetryLater, Interrupt, FailJob
    <3>4. /\ Keeps(Released(JobOf(w), "succeeded"), JobOf(w))
          /\ Keeps(Released(JobOf(w), "failed"), JobOf(w))
          /\ Keeps([Released(JobOf(w), "queued") EXCEPT !.due = FALSE], JobOf(w))
          /\ Keeps([Released(JobOf(w), "queued") EXCEPT !.due = TRUE], JobOf(w))
      BY <3>2, ReleasedKeeps
    <3> QED BY <1>1, <1>2, <3>2, <3>3, <3>4 DEF Keeps
  <2>2. CASE \/ StartJob(w) \/ ActivateLease(w) \/ RenewLease(w) \/ ReadStatus(w)
             \/ StartProcessing(w) \/ BuildQuote(w) \/ SetAwaitingApproval(w)
             \/ ReadPlan(w) \/ StoreAdmitted(w) \/ CommitReady(w)
             \/ (\E c \in Class : JobFails(w, c)) \/ MarkLost(w) \/ LoseLease(w)
    BY <1>1, <2>2 DEF StartJob, ActivateLease, RenewLease, ReadStatus, StartProcessing, BuildQuote,
       SetAwaitingApproval, ReadPlan, StoreAdmitted, CommitReady, JobFails, MarkLost, LoseLease
  <2> QED BY <1>4, <2>1, <2>2 DEF Run
<1>5. ASSUME NEW w \in Worker, NEW j \in Job, AcquireJob(w, j) PROVE Grows
  BY <1>5, <1>t, AcquireEffects DEF Grows, Active
<1>6. CASE Restart
  <2>1. PICK new \in [{v \in Video : NeedsJob(v)} -> Unused] :
          /\ \A v \in {x \in Video : NeedsJob(x)} :
               jobs'[new[v]] = NewJob(RecoveryKind(video[v].status), v)
          /\ \A j \in Job : (\A v \in {x \in Video : NeedsJob(x)} : new[v] # j)
                               => jobs'[j] = Requeued(j)
    BY <1>6, RestartEffects
  <2>2. ASSUME NEW j \in Job, jobs[j].status # "none"
        PROVE  /\ jobs'[j].status # "none" /\ jobs'[j].kind = jobs[j].kind
               /\ jobs'[j].video = jobs[j].video
    <3>1. jobs'[j] = Requeued(j) /\ jobs[j] \in JobRow
      BY <1>t, <2>1, <2>2 DEF Unused
    <3> QED BY <2>2, <3>1 DEF Requeued, JobRow
  <2>3. ASSUME NEW j \in Job, jobs[j].status = "none", jobs'[j].status # "none"
        PROVE  jobs'[j].video \in Video
    <3>1. CASE \A v \in {x \in Video : NeedsJob(x)} : new[v] # j
      BY <2>1, <2>3, <3>1 DEF Requeued
    <3>2. ASSUME NEW v \in {x \in Video : NeedsJob(x)}, new[v] = j PROVE jobs'[j].video \in Video
      <4>1. RecoveryKind(video[v].status) \in Kind
        BY DEF NeedsJob, Interrupted, RecoveryKind, Kind
      <4> QED BY <2>1, <3>2, <4>1, NewTypes
    <3> QED BY <3>1, <3>2
  <2> QED BY <2>2, <2>3 DEF Grows
<1>7. ASSUME NEW j \in Job, LeaseLapses(j) \/ RetryDue(j) PROVE Grows
  BY <1>7, <1>t DEF LeaseLapses, RetryDue, Grows, JobRow
<1>8. ASSUME NEW q \in Quote, QuoteExpires(q) \/ Gateway(q) PROVE Grows
  BY <1>1, <1>8 DEF QuoteExpires, Gateway
<1> QED BY <1>3, <1>4, <1>5, <1>6, <1>7, <1>8 DEF Next

\* A step that leaves the approvals alone.
LEMMA GwStill ==
  ASSUME NamesInv, gw' = gw
  PROVE  GwStep
BY DEF GwStep, GwKept, NamesInv, Prepared

\* The gateway stores an approval, once.
LEMMA ApprovesStep ==
  ASSUME TypeInv, NamesInv, NEW q, GatewayApproves(q)
  PROVE  GwStep
<1>1. gw \in [Quote -> GatewayRow]
  BY DEF TypeInv, TypeOK
<1>2. CASE q \in Quote
  <2>1. \A p \in Quote : p # q => gw'[p] = gw[p]
    BY <1>1 DEF GatewayApproves
  <2>2. /\ gw'[q].job = gw[q].job /\ gw'[q].live = gw[q].live /\ gw'[q].stored = gw[q].stored
        /\ gw'[q].paid = gw[q].paid
        /\ gw'[q].phase = IF gw[q].phase = "none" THEN "open" ELSE gw[q].phase
    BY <1>1, <1>2 DEF GatewayApproves, GatewayRow
  <2> QED BY <2>1, <2>2 DEF GwStep, GwKept, NamesInv, Prepared
<1>3. CASE q \notin Quote
  <2>1. gw' = gw
    BY <1>1, <1>3 DEF GatewayApproves
  <2> QED BY <2>1, GwStill
<1> QED BY <1>2, <1>3

\* A cancel request in flight changes nothing yet.
LEMMA InFlightStep ==
  ASSUME TypeInv, NamesInv, NEW w \in Worker, CancelInFlight(w)
  PROVE  GwStep
<1>1. gw \in [Quote -> GatewayRow]
  BY DEF TypeInv, TypeOK
<1>2. ASSUME NEW q, NEW n, gw' = [gw EXCEPT ![q].late = n] PROVE GwStep
  <2>1. ASSUME NEW p \in Quote
        PROVE  /\ gw'[p].job = gw[p].job /\ gw'[p].live = gw[p].live /\ gw'[p].stored = gw[p].stored
               /\ gw'[p].paid = gw[p].paid /\ gw'[p].phase = gw[p].phase
    BY <1>1, <1>2 DEF GatewayRow
  <2> QED BY <2>1 DEF GwStep, GwKept, NamesInv, Prepared
<1> QED BY <1>2, GwStill DEF CancelInFlight

\* What the gateway does by itself.
LEMMA GatewayStep ==
  ASSUME TypeInv, NamesInv, NEW q \in Quote, Gateway(q)
  PROVE  GwStep
<1>t. gw \in [Quote -> GatewayRow] /\ Prepared(q) /\ gw[q] \in GatewayRow
  BY DEF TypeInv, TypeOK, NamesInv
<1>1. \A p \in Quote : p # q => gw'[p] = gw[p]
  BY <1>t DEF Gateway, GatewayPays, GatewayStores, GatewayPauses, GatewayLeaseLapses, LateCancel
<1>2. GwKept(q)
  <2>1. CASE GatewayPays(q)
    BY <1>t, <2>1 DEF GatewayPays, GatewayRow, GwKept
  <2>2. CASE GatewayStores(q)
    BY <1>t, <2>2 DEF GatewayStores, GatewayRow, Prepared, GwKept
  <2>3. CASE GatewayPauses(q)
    BY <1>t, <2>3 DEF GatewayPauses, GatewayRow, Prepared, GwKept
  <2>4. CASE GatewayLeaseLapses(q)
    BY <1>t, <2>4 DEF GatewayLeaseLapses, GatewayRow, Prepared, GwKept
  <2>5. CASE LateCancel(q)
    BY <1>t, <2>5 DEF LateCancel, Cancellable, GatewayRow, Prepared, GwKept
  <2> QED BY <2>1, <2>2, <2>3, <2>4, <2>5 DEF Gateway
<1> QED BY <1>1, <1>2 DEF GwStep, GwKept, NamesInv, Prepared

\* A step that no worker starts to publish in.
LEMMA PublishStill ==
  ASSUME TypeInv, Grows, \A w \in Worker : worker'[w] = worker[w] \/ worker'[w].pc # "publish"
  PROVE  PublishStep
<1> SUFFICES ASSUME NEW w \in Worker, worker'[w] = worker[w], worker[w].pc = "publish"
             PROVE  VideoOf(w)' = VideoOf(w)
  BY DEF PublishStep
<1>1. worker[w].job \in Job /\ JobOf(w).status # "none"
  BY RunFacts
<1> QED BY <1>1 DEF VideoOf, JobOf, Grows

\* A step that no worker starts to store in, and no lease is renewed in.
LEMMA StoreStill ==
  ASSUME TypeInv, Grows, \A w \in Worker : worker'[w] = worker[w] \/ worker'[w].pc # "store",
         \A j \in Job :
           \/ jobs'[j] = jobs[j]
           \/ jobs'[j].status # "running" \/ ~jobs'[j].live
           \/ \A w \in Worker : worker'[w].pc = "store" => jobs'[j].owner # w
  PROVE  StoreStep
<1> SUFFICES ASSUME NEW w \in Worker, worker'[w] = worker[w], worker[w].pc = "store", Fenced(w)'
             PROVE  VideoOf(w)' = VideoOf(w) /\ Fenced(w)
  BY DEF StoreStep
<1>1. worker[w].job \in Job /\ JobOf(w).status # "none"
  BY RunFacts
<1>2. JobOf(w)' = jobs'[worker[w].job] /\ JobOf(w) = jobs[worker[w].job]
  BY DEF JobOf
<1>3. VideoOf(w)' = VideoOf(w)
  BY <1>1, <1>2 DEF VideoOf, Grows
<1>4. Fenced(w)
  BY <1>1, <1>2 DEF Fenced
<1> QED BY <1>3, <1>4

\* What a handler of the video v does.
LEMMA HandlerEffects ==
  ASSUME BaseInv, NEW v \in Video, Handlers(v)
  PROVE  /\ UNCHANGED <<worker, issued, unreported>> /\ GwStep
         /\ \A u \in Video : u # v => video'[u] = video[u] /\ pending'[u] = pending[u]
         /\ \A j \in Job :
              \/ jobs'[j] = jobs[j]
              \/ /\ jobs'[j].video = v /\ jobs'[j].status \in {"queued", "deleted"}
                 /\ jobs[j].video = v \/ jobs[j].status = "none"
         /\ video'[v].final \in {video[v].final, None}
         /\ video'[v].approved \in {video[v].approved, video[v].final, None}
<1>t. /\ TypeInv /\ NamesInv /\ TypeOK /\ video \in [Video -> VideoRow] /\ jobs \in [Job -> JobRow]
      /\ pending \in [Video -> SUBSET Kind] /\ video[v] \in VideoRow
  BY DEF BaseInv, TypeInv, TypeOK
<1> DEFINE Others == \A u \in Video : u # v => video'[u] = video[u] /\ pending'[u] = pending[u]
           Row == /\ video'[v].final \in {video[v].final, None}
                  /\ video'[v].approved \in {video[v].approved, video[v].final, None}
           JobsStep == \A j \in Job :
                         \/ jobs'[j] = jobs[j]
                         \/ /\ jobs'[j].video = v /\ jobs'[j].status \in {"queued", "deleted"}
                            /\ jobs[j].video = v \/ jobs[j].status = "none"
<1>1. UNCHANGED <<worker, issued, unreported>>
  BY DEF Handlers, AcceptUpload, ApproveVideo, ApproveLost, RequoteVideo, ResumeVideo, DeleteVideo,
     CleanupExpired, Enqueue, EnqueueFails
<1>2. GwStep
  <2>1. CASE ApproveVideo(v) \/ ApproveLost(v)
    BY <1>t, <2>1, ApprovesStep DEF ApproveVideo, ApproveLost
  <2>2. CASE ~(ApproveVideo(v) \/ ApproveLost(v))
    <3>1. gw' = gw
      BY <2>2 DEF Handlers, AcceptUpload, RequoteVideo, ResumeVideo, DeleteVideo, CleanupExpired,
         Enqueue, EnqueueFails
    <3> QED BY <1>t, <3>1, GwStill
  <2> QED BY <2>1, <2>2
<1>3. Others
  BY <1>t DEF Handlers, AcceptUpload, ApproveVideo, ApproveLost, RequoteVideo, ResumeVideo,
     DeleteVideo, CleanupExpired, Enqueue, EnqueueFails
<1>4. JobsStep
  <2>1. CASE UNCHANGED jobs
    BY <2>1
  <2>2. CASE ResumeVideo(v)
    <3>1. PICK j \in Job : LastFailed(v, j) /\ jobs' = [jobs EXCEPT ![j] = Resumed(jobs[j])]
      BY <2>2 DEF ResumeVideo
    <3>2. jobs[j] \in JobRow /\ jobs[j].video = v
      BY <1>t, <3>1 DEF LastFailed, FailedUploads
    <3> QED BY <1>t, <3>1, <3>2, JobEffects
  <2>3. CASE DeleteVideo(v)
    BY <1>t, <2>3 DEF DeleteVideo, JobRow
  <2>4. ASSUME NEW k \in Kind, NEW j \in Job, NextJob(j), jobs' = [jobs EXCEPT ![j] = NewJob(k, v)]
        PROVE  JobsStep
    <3>1. jobs[j].status = "none"
      BY <2>4 DEF NextJob, Unused
    <3> QED BY <1>t, <2>4, <3>1, NewTypes
  <2> QED BY <2>1, <2>2, <2>3, <2>4
          DEF Handlers, AcceptUpload, ApproveVideo, ApproveLost, RequoteVideo, CleanupExpired,
              Enqueue, EnqueueFails
<1>5. Row
  <2>1. CASE AcceptUpload(v)
    BY <1>t, <2>1 DEF AcceptUpload, NoVideo
  <2>2. CASE CleanupExpired(v)
    BY <1>t, <2>2 DEF CleanupExpired, Expire, VideoRow
  <2>3. CASE ~(AcceptUpload(v) \/ CleanupExpired(v))
    <3>1. \/ UNCHANGED video
          \/ \E s : video' = [video EXCEPT ![v].status = s]
          \/ \E s, f : video' = [video EXCEPT ![v].status = s, ![v].files = f]
          \/ \E s, a : /\ video' = [video EXCEPT ![v].status = s, ![v].approved = a]
                       /\ a \in {video[v].final, None}
      BY <2>3 DEF Handlers, ApproveVideo, ApproveLost, RequoteVideo, ResumeVideo, DeleteVideo,
         Enqueue, EnqueueFails
    <3>2. CASE UNCHANGED video
      BY <3>2
    <3>3. ASSUME NEW s, video' = [video EXCEPT ![v].status = s] PROVE Row
      BY <1>t, <3>3, VideoEffects DEF SetsVideo
    <3>4. ASSUME NEW s, NEW f, video' = [video EXCEPT ![v].status = s, ![v].files = f] PROVE Row
      BY <1>t, <3>4, VideoEffects DEF SetsVideo
    <3>5. ASSUME NEW s, NEW a \in {video[v].final, None},
                 video' = [video EXCEPT ![v].status = s, ![v].approved = a]
          PROVE  Row
      <4>1. SetsVideo(v, s, video[v].final, a, video[v].files)
        BY <1>t, <3>5, VideoEffects
      <4> QED BY <3>5, <4>1 DEF SetsVideo
    <3> QED BY <3>1, <3>2, <3>3, <3>4, <3>5
  <2> QED BY <2>1, <2>2, <2>3
<1> HIDE DEF Others, Row, JobsStep
<1> QED BY <1>1, <1>2, <1>3, <1>4, <1>5 DEF Others, Row, JobsStep

\* A worker that runs stands on a job of a video.
RunsOn(w) ==
  /\ worker[w].pc \notin {"idle", "stopped"}
  /\ worker[w].job \in Job /\ JobOf(w) \in JobRow /\ JobOf(w).status # "none"
  /\ VideoOf(w) \in Video /\ video[VideoOf(w)] \in VideoRow
  /\ jobs[worker[w].job] = JobOf(w) /\ jobs[worker[w].job].video = VideoOf(w)

LEMMA RunStands ==
  ASSUME TypeInv, NEW w \in Worker, Run(w)
  PROVE  RunsOn(w)
<1>1. worker[w].pc \notin {"idle", "stopped"}
  BY DEF Run, StartJob, ActivateLease, RenewLease, ReadStatus, StartProcessing, BuildQuote,
     SetAwaitingApproval, ReadPlan, StoreAdmitted, CommitReady, JobFails, MarkSucceeded, RetryLater,
     MarkLost, FailJob, LoseLease, Interrupt, Working
<1> QED BY <1>1, RunFacts DEF RunsOn, JobOf, VideoOf

\* What a run does to the workers.
LEMMA RunMoves ==
  ASSUME TypeInv, NEW w \in Worker, Run(w)
  PROVE  \/ worker' = worker
         \/ Rests(w)
         \/ \E pc : Moves(w, pc) /\ (pc = "publish" => BuildQuote(w)) /\ (pc = "store" => ReadPlan(w))
<1>t. TypeOK /\ worker \in [Worker -> WorkerState]
  BY DEF TypeInv, TypeOK
<1>1. CASE RenewLease(w) \/ StoreAdmitted(w)
  BY <1>1 DEF RenewLease, StoreAdmitted
<1>2. CASE \/ MarkSucceeded(w) \/ RetryLater(w) \/ MarkLost(w) \/ LoseLease(w) \/ Interrupt(w)
           \/ \E unpaid \in BOOLEAN : FailJob(w, unpaid)
  <2>1. CASE Interrupt(w)
    BY <1>t, <2>1 DEF Interrupt, Rests, IdleWorker
  <2>2. CASE ~Interrupt(w)
    <3>1. Forget(w)
      BY <1>2, <2>2 DEF MarkSucceeded, RetryLater, MarkLost, LoseLease, FailJob
    <3> QED BY <1>t, <3>1, WorkerEffects
  <2> QED BY <2>1, <2>2
<1>3. CASE \/ StartJob(w) \/ ActivateLease(w) \/ ReadStatus(w) \/ StartProcessing(w)
           \/ SetAwaitingApproval(w) \/ CommitReady(w) \/ \E c \in Class : JobFails(w, c)
  <2>1. \/ \E pc \in {"quote", "read", "done", "plan", "work"} : Goto(w, pc)
        \/ \E c : FailWith(w, c)
    BY <1>3 DEF StartJob, ActivateLease, ReadStatus, StartProcessing, SetAwaitingApproval,
       CommitReady, JobFails
  <2>2. \E pc \in {"quote", "read", "done", "plan", "work", "failed"} : Moves(w, pc)
    BY <1>t, <2>1, WorkerEffects
  <2> QED BY <2>2
<1>4. CASE BuildQuote(w)
  <2>1. PICK q : worker' = [worker EXCEPT ![w].pc = "publish", ![w].quote = q]
    BY <1>4 DEF BuildQuote
  <2>2. Moves(w, "publish")
    BY <1>t, <2>1 DEF WorkerState, Moves
  <2> QED BY <1>4, <2>2
<1>5. CASE ReadPlan(w)
  <2> DEFINE q == video[VideoOf(w)].final
  <2>1. \/ FailWith(w, "approval")
        \/ worker' = [worker EXCEPT ![w].pc = "failed", ![w].class = "plain", ![w].quote = q]
        \/ worker' = [worker EXCEPT ![w].pc = "store", ![w].quote = q]
    BY <1>5 DEF ReadPlan
  <2>2. CASE FailWith(w, "approval")
    <3>1. Moves(w, "failed")
      BY <1>t, <2>2, WorkerEffects
    <3> QED BY <3>1
  <2>3. CASE worker' = [worker EXCEPT ![w].pc = "failed", ![w].class = "plain", ![w].quote = q]
    <3>1. Moves(w, "failed")
      BY <1>t, <2>3 DEF WorkerState, Moves
    <3> QED BY <3>1
  <2>4. CASE worker' = [worker EXCEPT ![w].pc = "store", ![w].quote = q]
    <3>1. Moves(w, "store")
      BY <1>t, <2>4 DEF WorkerState, Moves
    <3> QED BY <1>5, <3>1
  <2> QED BY <2>1, <2>2, <2>3, <2>4
<1> QED BY <1>1, <1>2, <1>3, <1>4, <1>5 DEF Run

\* What a run does to the jobs: its own is reported, or left alone.
LEMMA RunReports ==
  ASSUME TypeInv, NEW w \in Worker, Run(w)
  PROVE  /\ \A j \in Job : j # worker[w].job => jobs'[j] = jobs[j]
         /\ \/ jobs'[worker[w].job] = jobs[worker[w].job]
            \/ /\ Active(worker[w].job)
               /\ jobs'[worker[w].job].kind = JobOf(w).kind
               /\ jobs'[worker[w].job].video = VideoOf(w)
               /\ jobs'[worker[w].job].status \in {"queued", "succeeded", "failed"}
<1>t. /\ jobs \in [Job -> JobRow] /\ RunsOn(w)
  BY RunStands DEF TypeInv, TypeOK
<1>1. CASE UNCHANGED jobs
  BY <1>1
<1>2. ASSUME NEW r, jobs' = [jobs EXCEPT ![worker[w].job] = r], Active(worker[w].job),
             r.kind = JobOf(w).kind, r.video = JobOf(w).video,
             r.status \in {"queued", "succeeded", "failed"}
      PROVE  /\ \A j \in Job : j # worker[w].job => jobs'[j] = jobs[j]
             /\ Active(worker[w].job)
             /\ jobs'[worker[w].job].kind = JobOf(w).kind
             /\ jobs'[worker[w].job].video = VideoOf(w)
             /\ jobs'[worker[w].job].status \in {"queued", "succeeded", "failed"}
  BY <1>t, <1>2 DEF RunsOn, VideoOf
<1>3. CASE MarkSucceeded(w)
  <2>1. /\ jobs' = [jobs EXCEPT ![worker[w].job] = Released(JobOf(w), "succeeded")]
        /\ Active(worker[w].job)
    BY <1>t, <1>3 DEF MarkSucceeded, RunsOn, Active, Fenced
  <2> QED BY <1>t, <1>2, <2>1, JobEffects DEF RunsOn
<1>4. CASE \E unpaid \in BOOLEAN : FailJob(w, unpaid)
  <2>1. /\ jobs' = [jobs EXCEPT ![worker[w].job] = Released(JobOf(w), "failed")]
        /\ Active(worker[w].job)
    BY <1>t, <1>4 DEF FailJob, RunsOn, Active, Fenced
  <2> QED BY <1>t, <1>2, <2>1, JobEffects DEF RunsOn
<1>5. CASE RetryLater(w)
  <2>1. /\ jobs' = [jobs EXCEPT ![worker[w].job] = [Released(JobOf(w), "queued") EXCEPT !.due = FALSE]]
        /\ Active(worker[w].job)
    BY <1>t, <1>5 DEF RetryLater, RunsOn, Active, Fenced
  <2> QED BY <1>t, <1>2, <2>1, JobEffects DEF RunsOn
<1>6. CASE Interrupt(w) /\ jobs' # jobs
  <2>1. /\ jobs' = [jobs EXCEPT ![worker[w].job] = [Released(JobOf(w), "queued") EXCEPT !.due = TRUE]]
        /\ Active(worker[w].job)
    BY <1>t, <1>6 DEF Interrupt, RunsOn, Active
  <2> QED BY <1>t, <1>2, <2>1, JobEffects DEF RunsOn
<1> QED BY <1>1, <1>3, <1>4, <1>5, <1>6
        DEF Run, StartJob, ActivateLease, RenewLease, ReadStatus, StartProcessing, BuildQuote,
            SetAwaitingApproval, ReadPlan, StoreAdmitted, CommitReady, JobFails, MarkLost, LoseLease

\* What a run does to the rows and the handlers' second halves: only the row of
\* its own video may move, and only a publication names another quote.
LEMMA RunVideo ==
  ASSUME TypeInv, NEW w \in Worker, Run(w)
  PROVE  /\ \A v \in Video : v # VideoOf(w) => video'[v] = video[v]
         /\ pending' = pending
         /\ \/ SetAwaitingApproval(w)
            \/ \E s, f : SetsVideo(VideoOf(w), s, video[VideoOf(w)].final,
                                   video[VideoOf(w)].approved, f)
<1>t. /\ TypeOK /\ video \in [Video -> VideoRow] /\ RunsOn(w)
  BY RunStands DEF TypeInv, TypeOK
<1>1. pending' = pending
  BY DEF Run, StartJob, ActivateLease, RenewLease, ReadStatus, StartProcessing, BuildQuote,
     SetAwaitingApproval, ReadPlan, StoreAdmitted, CommitReady, JobFails, MarkSucceeded, RetryLater,
     MarkLost, FailJob, LoseLease, Interrupt
<1>2. CASE SetAwaitingApproval(w)
  BY <1>t, <1>1, <1>2 DEF SetAwaitingApproval
<1>3. CASE ~SetAwaitingApproval(w)
  <2>1. \/ UNCHANGED video
        \/ \E s : video' = [video EXCEPT ![VideoOf(w)].status = s]
        \/ \E f : video' = [video EXCEPT ![VideoOf(w)].files = f]
    BY <1>3 DEF Run, StartJob, ActivateLease, RenewLease, ReadStatus, StartProcessing, BuildQuote,
       ReadPlan, StoreAdmitted, CommitReady, JobFails, MarkSucceeded, RetryLater, MarkLost, FailJob,
       LoseLease, Interrupt
  <2>2. ASSUME UNCHANGED video
        PROVE  SetsVideo(VideoOf(w), video[VideoOf(w)].status, video[VideoOf(w)].final,
                         video[VideoOf(w)].approved, video[VideoOf(w)].files)
    BY <1>t, <2>2 DEF SetsVideo
  <2>3. ASSUME NEW s, video' = [video EXCEPT ![VideoOf(w)].status = s]
        PROVE  SetsVideo(VideoOf(w), s, video[VideoOf(w)].final, video[VideoOf(w)].approved,
                         video[VideoOf(w)].files)
    BY <1>t, <2>3, VideoEffects DEF RunsOn
  <2>4. ASSUME NEW f, video' = [video EXCEPT ![VideoOf(w)].files = f]
        PROVE  SetsVideo(VideoOf(w), video[VideoOf(w)].status, video[VideoOf(w)].final,
                         video[VideoOf(w)].approved, f)
    BY <1>t, <2>4, VideoEffects DEF RunsOn
  <2>5. \E s, f : SetsVideo(VideoOf(w), s, video[VideoOf(w)].final, video[VideoOf(w)].approved, f)
    <3> DEFINE P(s, f) ==
          SetsVideo(VideoOf(w), s, video[VideoOf(w)].final, video[VideoOf(w)].approved, f)
    <3>1. \/ P(video[VideoOf(w)].status, video[VideoOf(w)].files)
          \/ \E s : P(s, video[VideoOf(w)].files)
          \/ \E f : P(video[VideoOf(w)].status, f)
      BY <2>1, <2>2, <2>3, <2>4
    <3> HIDE DEF P
    <3>2. \E s, f : P(s, f)
      BY <3>1
    <3> QED BY <3>2 DEF P
  <2> QED BY <1>1, <2>5 DEF SetsVideo
<1> QED BY <1>2, <1>3

\* A run reports its own job's work only.
LEMMA RunOthers ==
  ASSUME TypeInv, NEW w \in Worker, Run(w), NEW j \in Job, j # worker[w].job
  PROVE  ReportDue(j)' <=> ReportDue(j)
<1>1. jobs'[j] = jobs[j]
  BY RunReports
<1>2. \A u \in Worker :
        \/ worker'[u] = worker[u]
        \/ /\ ~(worker[u].job = j /\ worker[u].pc = "done" /\ Fenced(u))
           /\ ~(worker'[u].job = j /\ worker'[u].pc = "done" /\ Fenced(u)')
  BY RunMoves DEF Rests, Moves
<1> QED BY <1>1, <1>2, DueStill

\* What a run does to the workers that publish or store.
LEMMA RunWorkers ==
  ASSUME TypeInv, NEW w \in Worker, Run(w)
  PROVE  /\ ~BuildQuote(w) => PublishStep
         /\ ~ReadPlan(w) => StoreStep
<1>1. Grows
  BY NextGrows DEF Next
<1>2. ASSUME ~BuildQuote(w) PROVE PublishStep
  <2>1. \A u \in Worker : worker'[u] = worker[u] \/ worker'[u].pc # "publish"
    BY <1>2, RunMoves DEF Rests, Moves
  <2> QED BY <1>1, <2>1, PublishStill
<1>3. ASSUME ~ReadPlan(w) PROVE StoreStep
  <2>1. \A u \in Worker : worker'[u] = worker[u] \/ worker'[u].pc # "store"
    BY <1>3, RunMoves DEF Rests, Moves
  <2>2. \A j \in Job : jobs'[j] = jobs[j] \/ jobs'[j].status # "running"
    BY RunReports
  <2> QED BY <1>1, <2>1, <2>2, StoreStill
<1> QED BY <1>2, <1>3

\* A lease that a run asks for.
Leases(w) ==
  /\ worker[w].pc \notin {"idle", "stopped", "done"} /\ JobOf(w).kind = "upload" /\ Fenced(w)
  /\ video[VideoOf(w)].approved # None /\ GatewayLeases(video[VideoOf(w)].approved, w)
  /\ UNCHANGED <<video, jobs, issued, pending>>

\* What an admission and a report do to the approvals.
LEMMA ReportGw ==
  ASSUME TypeInv, NamesInv, NEW w \in Worker,
         StoreAdmitted(w) \/ MarkLost(w) \/ \E unpaid \in BOOLEAN : FailJob(w, unpaid)
  PROVE  GwStep
<1>t. gw \in [Quote -> GatewayRow]
  BY DEF TypeInv, TypeOK
<1>1. CASE UNCHANGED gw
  BY <1>1, GwStill
<1>3. CASE StoreAdmitted(w)
  <2>1. gw' = [gw EXCEPT ![worker[w].quote].admitted = worker[w].gen]
    BY <1>3 DEF StoreAdmitted
  <2>2. ASSUME NEW p \in Quote
        PROVE  /\ gw'[p].job = gw[p].job /\ gw'[p].live = gw[p].live
               /\ gw'[p].stored = gw[p].stored
               /\ gw'[p].paid = gw[p].paid /\ gw'[p].phase = gw[p].phase
    BY <1>t, <2>1 DEF GatewayRow
  <2> QED BY <2>2 DEF GwStep, GwKept, NamesInv, Prepared
<1>4. CASE CancelInFlight(w)
  BY <1>4, InFlightStep
<1>5. ASSUME NEW a, ~gw[a].paid, gw' = [gw EXCEPT ![a].phase = "cancelled"] PROVE GwStep
  <2>1. ASSUME NEW p \in Quote
        PROVE  /\ gw'[p].job = gw[p].job /\ gw'[p].live = gw[p].live
               /\ gw'[p].stored = gw[p].stored /\ gw'[p].paid = gw[p].paid
               /\ gw'[p].phase = IF p = a THEN "cancelled" ELSE gw[p].phase
    BY <1>t, <1>5 DEF GatewayRow
  <2> QED BY <1>5, <2>1 DEF GwStep, GwKept, NamesInv, Prepared
<1>6. CASE \E unpaid \in BOOLEAN : FailJob(w, unpaid)
  BY <1>1, <1>4, <1>5, <1>6 DEF FailJob, Cancellable
<1>7. CASE MarkLost(w)
  BY <1>1, <1>4, <1>7 DEF MarkLost
<1> QED BY <1>3, <1>6, <1>7

\* What a run does to the approvals.
LEMMA RunGw ==
  ASSUME TypeInv, NamesInv, NEW w \in Worker, Run(w)
  PROVE  GwStep \/ (Leases(w) /\ (ActivateLease(w) \/ RenewLease(w)))
<1>1. CASE UNCHANGED gw
  BY <1>1, GwStill
<1>2. CASE (ActivateLease(w) \/ RenewLease(w)) /\ gw' # gw
  BY <1>2 DEF Leases, ActivateLease, RenewLease, Working
<1>3. CASE StoreAdmitted(w) \/ MarkLost(w) \/ \E unpaid \in BOOLEAN : FailJob(w, unpaid)
  BY <1>3, ReportGw
<1> QED BY <1>1, <1>2, <1>3
        DEF Run, StartJob, ActivateLease, RenewLease, ReadStatus, StartProcessing, BuildQuote,
            SetAwaitingApproval, ReadPlan, CommitReady, JobFails, MarkSucceeded, RetryLater,
            LoseLease, Interrupt

-----------------------------------------------------------------------------
(* What always holds: jobs.                                                *)

\* A step that inserts no job and makes none active.
LEMMA NumbersKept ==
  ASSUME NumbersInv,
         \A j \in Job :
           \/ jobs'[j] = jobs[j]
           \/ /\ jobs[j].status # "none" /\ jobs'[j].status # "none"
              /\ jobs'[j].kind = jobs[j].kind /\ jobs'[j].video = jobs[j].video
              /\ Active(j)' => Active(j)
  PROVE  NumbersInv'
<1>1. \A j \in Job : /\ jobs'[j].status = "none" <=> jobs[j].status = "none"
                     /\ jobs'[j].kind = jobs[j].kind /\ jobs'[j].video = jobs[j].video
                     /\ Active(j)' => Active(j)
  BY DEF Active
<1>2. NoGaps' /\ Unowned'
  BY <1>1 DEF NumbersInv, NoGaps, Unowned
<1>3. OneActive'
  BY <1>1 DEF NumbersInv, OneActive
<1> QED BY <1>2, <1>3 DEF NumbersInv

\* A job is enqueued or resumed for a video that has no active one of its kind.
LEMMA NumbersStart ==
  ASSUME NumbersInv, NEW j \in Job, NEW v, NEW k,
         \A i \in Job : i # j => jobs'[i] = jobs[i],
         jobs'[j].status = "queued", jobs'[j].kind = k, jobs'[j].video = v,
         ~HasActive(k, v), jobs[j].status # "none" \/ NextJob(j)
  PROVE  NumbersInv'
<1>i. Job \subseteq Int
  BY DEF Job
<1>1. NoGaps'
  <2> SUFFICES ASSUME NEW a \in Job, NEW b \in Job, jobs'[a].status = "none", a < b
               PROVE  jobs'[b].status = "none"
    BY DEF NoGaps
  <2>1. a # j /\ jobs[a].status = "none" /\ jobs[b].status = "none"
    BY DEF NumbersInv, NoGaps
  <2>2. b # j
    BY <1>i, <2>1 DEF NextJob, Unused
  <2> QED BY <2>1, <2>2
<1>2. Unowned'
  BY DEF NumbersInv, Unowned
<1>3. OneActive'
  <2> SUFFICES ASSUME NEW a \in Job, NEW b \in Job, Active(a)', Active(b)',
                      jobs'[a].kind = jobs'[b].kind, jobs'[a].video = jobs'[b].video
               PROVE  a = b
    BY DEF OneActive
  <2>1. \A i \in Job : i # j /\ Active(i)' => Active(i) /\ ~(jobs'[i].kind = k /\ jobs'[i].video = v)
    BY DEF HasActive, Active
  <2>2. CASE a = j \/ b = j
    BY <2>1, <2>2
  <2>3. CASE a # j /\ b # j
    BY <2>1, <2>3 DEF NumbersInv, OneActive
  <2> QED BY <2>2, <2>3
<1> QED BY <1>1, <1>2, <1>3 DEF NumbersInv

LEMMA HandlerNumbers ==
  ASSUME BaseInv, NEW v \in Video, Handlers(v)
  PROVE  NumbersInv'
<1>t. /\ jobs \in [Job -> JobRow] /\ NumbersInv /\ None \notin Video
  BY LifecycleAssumption DEF BaseInv, TypeInv, TypeOK
<1>1. CASE UNCHANGED jobs
  BY <1>t, <1>1, NumbersKept
<1>2. CASE ResumeVideo(v)
  <2>1. PICK j \in Job : LastFailed(v, j) /\ jobs' = [jobs EXCEPT ![j] = Resumed(jobs[j])]
    BY <1>2 DEF ResumeVideo
  <2>2. /\ jobs[j] \in JobRow /\ jobs[j].status = "failed" /\ jobs[j].kind = "upload"
        /\ jobs[j].video = v
    BY <1>t, <2>1 DEF LastFailed, FailedUploads
  <2>3. /\ jobs'[j].status = "queued" /\ jobs'[j].kind = "upload" /\ jobs'[j].video = v
        /\ \A i \in Job : i # j => jobs'[i] = jobs[i]
    BY <1>t, <2>1, <2>2, JobEffects
  <2> QED BY <1>t, <1>2, <2>2, <2>3, NumbersStart DEF ResumeVideo
<1>3. CASE DeleteVideo(v)
  <2>1. ASSUME NEW j \in Job
        PROVE  \/ jobs'[j] = jobs[j]
               \/ /\ jobs[j].status # "none" /\ jobs'[j].status = "deleted"
                  /\ jobs'[j].kind = jobs[j].kind /\ jobs'[j].video = jobs[j].video
    BY <1>t, <1>3 DEF DeleteVideo, JobRow, NumbersInv, Unowned
  <2> QED BY <1>t, <2>1, NumbersKept DEF Active
<1>4. ASSUME NEW k \in Kind, NEW j \in Job, NextJob(j), ~HasActive(k, v),
             jobs' = [jobs EXCEPT ![j] = NewJob(k, v)]
      PROVE  NumbersInv'
  <2>1. /\ jobs'[j].status = "queued" /\ jobs'[j].kind = k /\ jobs'[j].video = v
        /\ \A i \in Job : i # j => jobs'[i] = jobs[i]
    BY <1>t, <1>4, NewTypes
  <2> QED BY <1>t, <1>4, <2>1, NumbersStart
<1> QED BY <1>1, <1>2, <1>3, <1>4
        DEF Handlers, AcceptUpload, ApproveVideo, ApproveLost, RequoteVideo, CleanupExpired, Enqueue,
            EnqueueFails

\* What a restart does to the jobs, one by one.
LEMMA RestartNumbers ==
  ASSUME TypeInv, NumbersInv, Restart
  PROVE  /\ NumbersInv'
         /\ \A j \in Job : jobs[j].status # "none" =>
              /\ jobs'[j] = Requeued(j) /\ jobs'[j].kind = jobs[j].kind
              /\ jobs'[j].video = jobs[j].video /\ (Active(j)' <=> Active(j))
              /\ ~Active(j) => jobs'[j].status = jobs[j].status
         /\ \A j \in Job : jobs[j].status = "none" =>
              \/ jobs'[j] = jobs[j]
              \/ \E v \in Video : NeedsJob(v) /\ jobs'[j] = NewJob(RecoveryKind(video[v].status), v)
         /\ \A v \in Video : NeedsJob(v) =>
              \E j \in Job : jobs'[j] = NewJob(RecoveryKind(video[v].status), v)
<1>t. jobs \in [Job -> JobRow] /\ Job \subseteq Int
  BY DEF TypeInv, TypeOK, Job
<1> DEFINE need == {v \in Video : NeedsJob(v)}
<1>1. PICK new \in [need -> Unused] :
        /\ \A v, u \in need : new[v] = new[u] => v = u
        /\ \A j \in Unused, v \in need : j < new[v] => \E u \in need : new[u] = j
        /\ \A v \in need : jobs'[new[v]] = NewJob(RecoveryKind(video[v].status), v)
        /\ \A j \in Job : (\A v \in need : new[v] # j) => jobs'[j] = Requeued(j)
  BY RestartEffects
<1>2. ASSUME NEW v \in need
      PROVE  /\ v \in Video /\ NeedsJob(v) /\ new[v] \in Job /\ jobs[new[v]].status = "none"
             /\ jobs'[new[v]].kind = RecoveryKind(video[v].status)
             /\ jobs'[new[v]].video = v /\ jobs'[new[v]].status = "queued"
             /\ ~HasActive(RecoveryKind(video[v].status), v)
  <2>1. v \in Video /\ NeedsJob(v) /\ new[v] \in Job /\ jobs[new[v]].status = "none"
    BY <1>1 DEF Unused
  <2>2. RecoveryKind(video[v].status) \in Kind /\ ~HasActive(RecoveryKind(video[v].status), v)
    BY <2>1 DEF NeedsJob, Interrupted, RecoveryKind, Kind
  <2> QED BY <1>1, <2>1, <2>2, NewTypes
<1>3. ASSUME NEW j \in Job, \A v \in need : new[v] # j
      PROVE  /\ jobs'[j] = Requeued(j)
             /\ jobs'[j].kind = jobs[j].kind /\ jobs'[j].video = jobs[j].video
             /\ Active(j)' <=> Active(j)
             /\ ~Active(j) => jobs'[j].status = jobs[j].status
             /\ jobs[j].status = "none" => jobs'[j] = jobs[j]
  <2>1. jobs'[j] = Requeued(j) /\ jobs[j] \in JobRow
    BY <1>1, <1>3, <1>t
  <2> QED BY <2>1 DEF Requeued, JobRow, Active
<1>4. \A v \in Video : NeedsJob(v) => \E j \in Job : jobs'[j] = NewJob(RecoveryKind(video[v].status), v)
  BY <1>1, <1>2
<1>5. ASSUME NEW j \in Job, jobs[j].status = "none"
      PROVE  \/ jobs'[j] = jobs[j]
             \/ \E v \in Video : NeedsJob(v) /\ jobs'[j] = NewJob(RecoveryKind(video[v].status), v)
  <2>1. CASE \A v \in need : new[v] # j
    BY <1>3, <1>5, <2>1
  <2>2. ASSUME NEW v \in need, new[v] = j
        PROVE  \E u \in Video : NeedsJob(u) /\ jobs'[j] = NewJob(RecoveryKind(video[u].status), u)
    BY <1>1, <1>2, <2>2
  <2> QED BY <2>1, <2>2
<1> HIDE DEF need
<1>6. ASSUME NEW j \in Job, jobs[j].status # "none" PROVE \A v \in need : new[v] # j
  BY <1>2, <1>6
<1>7. NoGaps'
  <2> SUFFICES ASSUME NEW i \in Job, NEW j \in Job, jobs'[i].status = "none", i < j,
                      jobs'[j].status # "none"
               PROVE  FALSE
    BY DEF NoGaps
  <2>1. \A v \in need : new[v] # i
    BY <1>2
  <2>2. jobs[i].status = "none"
    BY <1>3, <2>1 DEF Active
  <2>3. jobs[j].status = "none"
    BY <2>2 DEF NumbersInv, NoGaps
  <2>4. PICK v \in need : new[v] = j
    <3>1. CASE \A v \in need : new[v] # j
      BY <1>3, <2>3, <3>1
    <3> QED BY <3>1
  <2> QED BY <1>1, <2>1, <2>2, <2>4 DEF Unused
<1>8. Unowned'
  <2> SUFFICES ASSUME NEW j \in Job, jobs'[j].status = "none" PROVE jobs'[j].video = None
    BY DEF Unowned
  <2>1. \A v \in need : new[v] # j
    BY <1>2
  <2>2. jobs[j].status = "none" /\ jobs'[j] = jobs[j]
    BY <1>3, <2>1 DEF Active
  <2> QED BY <2>2 DEF NumbersInv, Unowned
<1>9. OneActive'
  <2> SUFFICES ASSUME NEW i \in Job, NEW h \in Job, Active(i)', Active(h)',
                      jobs'[i].kind = jobs'[h].kind, jobs'[i].video = jobs'[h].video
               PROVE  i = h
    BY DEF OneActive
  <2>1. ASSUME NEW a \in Job, NEW b \in Job, NEW v \in need, new[v] = a, Active(b)',
               jobs'[a].kind = jobs'[b].kind, jobs'[a].video = jobs'[b].video
        PROVE  a = b
    <3>1. CASE \A u \in need : new[u] # b
      BY <1>2, <1>3, <2>1, <3>1 DEF HasActive
    <3>2. ASSUME NEW u \in need, new[u] = b PROVE a = b
      BY <1>2, <2>1, <3>2
    <3> QED BY <3>1, <3>2
  <2>2. CASE \E v \in need : new[v] = i \/ new[v] = h
    BY <2>1, <2>2
  <2>3. CASE \A v \in need : new[v] # i /\ new[v] # h
    BY <1>3, <2>3 DEF NumbersInv, OneActive
  <2> QED BY <2>2, <2>3
<1>10. NumbersInv'
  BY <1>7, <1>8, <1>9 DEF NumbersInv
<1> HIDE DEF need
<1>11. \A j \in Job : jobs[j].status # "none" =>
              /\ jobs'[j] = Requeued(j) /\ jobs'[j].kind = jobs[j].kind
              /\ jobs'[j].video = jobs[j].video /\ (Active(j)' <=> Active(j))
              /\ ~Active(j) => jobs'[j].status = jobs[j].status
  BY <1>3, <1>6
<1> QED BY <1>4, <1>5, <1>10, <1>11

\* Every step keeps the numbers of jobs and the unique index.
LEMMA NumbersNext ==
  ASSUME BaseInv, Next
  PROVE  NumbersInv'
<1>t. TypeInv /\ NumbersInv /\ jobs \in [Job -> JobRow]
  BY DEF BaseInv, TypeInv, TypeOK
<1>1. ASSUME NEW v \in Video, Handlers(v) PROVE NumbersInv'
  BY <1>1, HandlerNumbers
<1>2. ASSUME NEW w \in Worker, Run(w) PROVE NumbersInv'
  <2>1. RunsOn(w) /\ JobOf(w).status # "none"
    BY <1>t, <1>2, RunStands DEF RunsOn
  <2>2. \A j \in Job :
           \/ jobs'[j] = jobs[j]
           \/ /\ jobs[j].status # "none" /\ jobs'[j].status # "none"
              /\ jobs'[j].kind = jobs[j].kind /\ jobs'[j].video = jobs[j].video
              /\ Active(j)' => Active(j)
    BY <1>t, <1>2, <2>1, RunReports DEF RunsOn
  <2> QED BY <1>t, <2>2, NumbersKept
<1>3. ASSUME NEW w \in Worker, NEW j \in Job, AcquireJob(w, j) PROVE NumbersInv'
  BY <1>t, <1>3, AcquireEffects, NumbersKept DEF Active
<1>4. CASE Restart
  BY <1>t, <1>4, RestartNumbers
<1>5. ASSUME NEW j \in Job, LeaseLapses(j) \/ RetryDue(j) PROVE NumbersInv'
  <2>1. \A i \in Job :
           \/ jobs'[i] = jobs[i]
           \/ /\ jobs[i].status # "none" /\ jobs'[i].status # "none"
              /\ jobs'[i].kind = jobs[i].kind /\ jobs'[i].video = jobs[i].video
              /\ Active(i)' => Active(i)
    BY <1>t, <1>5 DEF LeaseLapses, RetryDue, JobRow, Active
  <2> QED BY <1>t, <2>1, NumbersKept
<1>6. ASSUME NEW q \in Quote, QuoteExpires(q) \/ Gateway(q) PROVE NumbersInv'
  BY <1>t, <1>6, NumbersKept DEF QuoteExpires, Gateway
<1> QED BY <1>1, <1>2, <1>3, <1>4, <1>5, <1>6 DEF Next

-----------------------------------------------------------------------------
(* What always holds: quotes.                                              *)

\* A worker about to publish stands on a quote of its own.
LEMMA FreshFacts ==
  ASSUME TypeInv, NamesInv, NEW w \in Worker, worker[w].pc = "publish"
  PROVE  /\ worker[w].quote \in Quote /\ issued[worker[w].quote] = VideoOf(w)
         /\ VideoOf(w) \in Video /\ gw[worker[w].quote].job = None
         /\ \A v \in Video : worker[w].quote \notin {video[v].final, video[v].approved}
         /\ \A u \in Worker : worker[u].pc = "publish" /\ worker[u].quote = worker[w].quote => u = w
<1>1. Fresh(w)
  BY DEF NamesInv
<1>2. worker[w] \in WorkerState /\ VideoOf(w) \in Video
  BY RunFacts
<1>3. worker[w].quote \in Quote
  BY <1>1, <1>2 DEF Fresh, WorkerState
<1> QED BY <1>1, <1>2, <1>3 DEF Fresh

\* A step that prepares no quote and binds none.
LEMMA NamesKept ==
  ASSUME TypeInv, NamesInv, GwStep, PublishStep, issued' = issued,
         \A v \in Video : /\ video'[v].final \in {video[v].final, None}
                          /\ video'[v].approved \in {video[v].approved, video[v].final, None}
  PROVE  NamesInv'
<1>1. \A v \in Video : Named(v)'
  BY DEF NamesInv, Named
<1>2. \A q \in Quote : Prepared(q)'
  BY DEF NamesInv, Prepared, GwStep, GwKept
<1>3. ASSUME NEW w \in Worker, worker'[w].pc = "publish" PROVE Fresh(w)'
  <2>1. /\ worker[w].pc = "publish" /\ worker'[w].quote = worker[w].quote
        /\ VideoOf(w)' = VideoOf(w)
    BY <1>3 DEF PublishStep
  <2>2. /\ worker[w].quote \in Quote /\ issued[worker[w].quote] = VideoOf(w)
        /\ gw[worker[w].quote].job = None
        /\ \A v \in Video : worker[w].quote \notin {video[v].final, video[v].approved}
        /\ \A u \in Worker : worker[u].pc = "publish" /\ worker[u].quote = worker[w].quote => u = w
    BY <2>1, FreshFacts
  <2>3. worker'[w].quote # None
    BY <2>1 DEF NamesInv, Fresh
  <2>4. issued'[worker'[w].quote] = VideoOf(w)' /\ gw'[worker'[w].quote].job = None
    BY <2>1, <2>2 DEF GwStep, GwKept
  <2>5. \A v \in Video : worker'[w].quote \notin {video'[v].final, video'[v].approved}
    BY <2>1, <2>2, <2>3
  <2>6. \A u \in Worker : worker'[u].pc = "publish" /\ worker'[u].quote = worker'[w].quote => u = w
    BY <2>1, <2>2 DEF PublishStep
  <2> QED BY <2>3, <2>4, <2>5, <2>6 DEF Fresh
<1>4. \A w \in Worker : Fresh(w)'
  BY <1>3 DEF Fresh
<1> QED BY <1>1, <1>2, <1>4 DEF NamesInv

\* A lease binds the approval that a row names, a quote no worker is to publish.
LEMMA NamesLease ==
  ASSUME BaseInv, NEW w \in Worker, Leases(w), PublishStep
  PROVE  NamesInv'
<1>t. /\ TypeInv /\ NamesInv /\ TypeOK /\ gw \in [Quote -> GatewayRow]
      /\ UNCHANGED <<video, jobs, issued>>
  BY DEF BaseInv, TypeInv, TypeOK, Leases
<1>r. /\ worker[w].job \in Job /\ VideoOf(w) \in Video /\ None \notin Job /\ None \notin Video
  BY <1>t, RunFacts, LifecycleAssumption DEF Leases, Job
<1>1. PICK v \in Video, q \in Quote : v = VideoOf(w) /\ q = video[v].approved
  <2>1. PICK v \in Video : v = VideoOf(w)
    BY <1>r
  <2>2. video[v].approved \in Quote
    BY <1>t, <2>1, VideoEffects DEF Leases
  <2> QED BY <2>1, <2>2
<1>2. issued[q] = v /\ q # None
  BY <1>1, <1>t, LifecycleAssumption DEF NamesInv, Named, Quote
<1>3. GatewayLeases(q, w)
  BY <1>1 DEF Leases
<1>4. /\ gw'[q].job = worker[w].job /\ gw'[q].paid = gw[q].paid /\ gw'[q].phase = gw[q].phase
      /\ \A p \in Quote : p # q => gw'[p] = gw[p]
  BY <1>t, <1>3 DEF GatewayLeases, GatewayRow
<1>5. \A u \in Video : Named(u)'
  BY <1>t DEF NamesInv, Named
<1>6. \A p \in Quote : Prepared(p)'
  <2>1. Prepared(q)'
    BY <1>r, <1>t, <1>2, <1>4 DEF NamesInv, Prepared
  <2> QED BY <1>t, <1>4, <2>1 DEF NamesInv, Prepared
<1>7. ASSUME NEW u \in Worker, worker'[u].pc = "publish" PROVE Fresh(u)'
  <2>1. /\ worker[u].pc = "publish" /\ worker'[u].quote = worker[u].quote
        /\ VideoOf(u)' = VideoOf(u)
    BY <1>7 DEF PublishStep
  <2>2. /\ worker[u].quote \in Quote /\ issued[worker[u].quote] = VideoOf(u)
        /\ gw[worker[u].quote].job = None
        /\ \A x \in Video : worker[u].quote \notin {video[x].final, video[x].approved}
        /\ \A x \in Worker : worker[x].pc = "publish" /\ worker[x].quote = worker[u].quote => x = u
    BY <1>t, <2>1, FreshFacts
  <2>3. worker[u].quote # None /\ worker[u].quote # q
    BY <1>1, <1>t, <2>1, <2>2 DEF NamesInv, Fresh
  <2>4. \A x \in Worker : worker'[x].pc = "publish" /\ worker'[x].quote = worker'[u].quote => x = u
    BY <2>1, <2>2 DEF PublishStep
  <2> QED BY <1>t, <1>4, <2>1, <2>2, <2>3, <2>4 DEF Fresh
<1>8. \A u \in Worker : Fresh(u)'
  BY <1>7 DEF Fresh
<1> QED BY <1>5, <1>6, <1>8 DEF NamesInv

\* A new quote is named and bound nowhere.
LEMMA NamesBuild ==
  ASSUME BaseInv, NEW w \in Worker, BuildQuote(w)
  PROVE  NamesInv'
<1>t. /\ TypeInv /\ NamesInv /\ TypeOK /\ worker \in [Worker -> WorkerState]
      /\ issued \in [Quote -> Video \cup {None}] /\ None \notin Video /\ None \notin Quote
  BY LifecycleAssumption DEF BaseInv, TypeInv, TypeOK, Quote
<1>1. PICK q \in Quote : /\ issued[q] = None
                         /\ issued' = [issued EXCEPT ![q] = VideoOf(w)]
                         /\ worker' = [worker EXCEPT ![w].pc = "publish", ![w].quote = q]
  BY DEF BuildQuote
<1>2. Moves(w, "publish") /\ worker'[w].quote = q /\ UNCHANGED <<video, jobs, gw>>
  BY <1>t, <1>1 DEF WorkerState, Moves, BuildQuote
<1>3. issued'[q] = VideoOf(w) /\ \A p \in Quote : p # q => issued'[p] = issued[p]
  BY <1>t, <1>1
<1>4. gw[q].job = None
  BY <1>t, <1>1 DEF NamesInv, Prepared
<1>5. ASSUME NEW v \in Video PROVE Named(v)' /\ video[v].final # q /\ video[v].approved # q
  <2>1. /\ Named(v) /\ video[v].final \in Quote \cup {None} /\ video[v].approved \in Quote \cup {None}
    BY <1>t, VideoEffects DEF NamesInv
  <2>2. video[v].final # q /\ video[v].approved # q
    BY <1>t, <1>1, <2>1 DEF Named
  <2> QED BY <1>2, <1>3, <2>1, <2>2 DEF Named
<1>6. \A p \in Quote : Prepared(p)'
  BY <1>t, <1>2, <1>3, <1>4 DEF NamesInv, Prepared
<1>7. ASSUME NEW u \in Worker, u # w, worker'[u].pc = "publish"
      PROVE  worker[u].pc = "publish" /\ worker'[u] = worker[u] /\ worker[u].quote # q
  <2>1. worker'[u] = worker[u] /\ worker[u].pc = "publish"
    BY <1>2, <1>7 DEF Moves
  <2>2. issued[worker[u].quote] = VideoOf(u) /\ VideoOf(u) \in Video
    BY <1>t, <2>1, FreshFacts
  <2> QED BY <1>t, <1>1, <2>1, <2>2
<1>8. ASSUME NEW u \in Worker, worker'[u].pc = "publish" PROVE Fresh(u)'
  <2>1. CASE u = w
    <3>1. VideoOf(w)' = VideoOf(w)
      BY <1>2 DEF VideoOf, JobOf, Moves
    <3>2. \A x \in Worker : worker'[x].pc = "publish" /\ worker'[x].quote = q => x = w
      BY <1>7
    <3> QED BY <1>t, <1>2, <1>3, <1>4, <1>5, <2>1, <3>1, <3>2 DEF Fresh
  <2>2. CASE u # w
    <3>1. worker[u].pc = "publish" /\ worker'[u] = worker[u] /\ worker[u].quote # q
      BY <1>7, <1>8, <2>2
    <3>2. VideoOf(u)' = VideoOf(u)
      BY <1>2, <3>1 DEF VideoOf, JobOf
    <3>3. /\ worker[u].quote \in Quote /\ issued[worker[u].quote] = VideoOf(u)
          /\ gw[worker[u].quote].job = None
          /\ \A x \in Video : worker[u].quote \notin {video[x].final, video[x].approved}
          /\ \A x \in Worker : worker[x].pc = "publish" /\ worker[x].quote = worker[u].quote => x = u
      BY <1>t, <3>1, FreshFacts
    <3>4. \A x \in Worker : worker'[x].pc = "publish" /\ worker'[x].quote = worker'[u].quote => x = u
      <4> SUFFICES ASSUME NEW x \in Worker, worker'[x].pc = "publish",
                          worker'[x].quote = worker'[u].quote
                   PROVE  x = u
        OBVIOUS
      <4>1. x # w
        BY <1>2, <3>1
      <4> QED BY <1>7, <3>1, <3>3, <4>1
    <3>5. worker[u].quote # None
      BY <1>t, <3>3
    <3> QED BY <1>2, <1>3, <3>1, <3>2, <3>3, <3>4, <3>5 DEF Fresh
  <2> QED BY <2>1, <2>2
<1>9. \A u \in Worker : Fresh(u)'
  BY <1>8 DEF Fresh
<1> QED BY <1>5, <1>6, <1>9 DEF NamesInv

\* A published quote is named by one row and published no more.
LEMMA NamesPublish ==
  ASSUME BaseInv, NEW w \in Worker, SetAwaitingApproval(w), PublishStep, GwStep
  PROVE  NamesInv'
<1>t. /\ TypeInv /\ NamesInv /\ TypeOK /\ None \notin Video /\ None \notin Quote
  BY LifecycleAssumption DEF BaseInv, TypeInv, TypeOK, Quote
<1>1. worker[w].pc = "publish" /\ issued' = issued
  BY DEF SetAwaitingApproval
<1>2. Moves(w, "done")
  BY <1>t, WorkerEffects DEF SetAwaitingApproval
<1>3. PICK v \in Video, q \in Quote : v = VideoOf(w) /\ q = worker[w].quote
  BY <1>t, <1>1, FreshFacts
<1>4. issued[q] = v /\ \A u \in Worker : worker[u].pc = "publish" /\ worker[u].quote = q => u = w
  BY <1>t, <1>1, <1>3, FreshFacts
<1>5. SetsVideo(v, "awaiting_approval", q, video[v].approved, video[v].files)
  BY <1>t, <1>3, VideoEffects DEF SetAwaitingApproval
<1>6. \A u \in Video : Named(u)'
  BY <1>t, <1>1, <1>4, <1>5 DEF NamesInv, Named, SetsVideo
<1>7. \A p \in Quote : Prepared(p)'
  BY <1>t, <1>1 DEF NamesInv, Prepared, GwStep, GwKept
<1>8. ASSUME NEW u \in Worker, worker'[u].pc = "publish" PROVE Fresh(u)'
  <2>1. /\ worker[u].pc = "publish" /\ worker'[u].quote = worker[u].quote
        /\ VideoOf(u)' = VideoOf(u)
    BY <1>8 DEF PublishStep
  <2>2. /\ worker[u].quote \in Quote /\ issued[worker[u].quote] = VideoOf(u)
        /\ gw[worker[u].quote].job = None
        /\ \A x \in Video : worker[u].quote \notin {video[x].final, video[x].approved}
        /\ \A x \in Worker : worker[x].pc = "publish" /\ worker[x].quote = worker[u].quote => x = u
    BY <1>t, <2>1, FreshFacts
  <2>3. worker[u].quote # q /\ worker[u].quote # None
    <3>1. u # w
      BY <1>2, <1>8 DEF Moves
    <3> QED BY <1>t, <1>4, <2>1, <2>2, <3>1
  <2>4. issued'[worker'[u].quote] = VideoOf(u)' /\ gw'[worker'[u].quote].job = None
    BY <1>1, <2>1, <2>2 DEF GwStep, GwKept
  <2>5. \A x \in Video : worker'[u].quote \notin {video'[x].final, video'[x].approved}
    BY <1>5, <2>1, <2>2, <2>3 DEF SetsVideo
  <2>6. \A x \in Worker : worker'[x].pc = "publish" /\ worker'[x].quote = worker'[u].quote => x = u
    BY <2>1, <2>2 DEF PublishStep
  <2> QED BY <2>1, <2>3, <2>4, <2>5, <2>6 DEF Fresh
<1>9. \A u \in Worker : Fresh(u)'
  BY <1>8 DEF Fresh
<1> QED BY <1>6, <1>7, <1>9 DEF NamesInv

\* What time and the gateway do.
LEMMA EnvironmentEffects ==
  ASSUME TypeInv, NamesInv,
         \/ \E j \in Job : LeaseLapses(j) \/ RetryDue(j)
         \/ \E q \in Quote : QuoteExpires(q) \/ Gateway(q)
  PROVE  GwStep /\ PublishStep /\ StoreStep /\ UNCHANGED <<video, worker, issued, pending>>
<1>t. jobs \in [Job -> JobRow]
  BY DEF TypeInv, TypeOK
<1>1. Grows
  BY NextGrows DEF Next
<1>2. UNCHANGED <<video, worker, issued, pending>>
  BY DEF LeaseLapses, RetryDue, QuoteExpires, Gateway
<1>3. \A i \in Job : jobs'[i] = jobs[i] \/ jobs'[i].status # "running" \/ ~jobs'[i].live
  <2>1. CASE UNCHANGED jobs
    BY <2>1
  <2>2. ASSUME NEW j \in Job, LeaseLapses(j) \/ RetryDue(j)
        PROVE  \A i \in Job : jobs'[i] = jobs[i] \/ jobs'[i].status # "running" \/ ~jobs'[i].live
    BY <1>t, <2>2 DEF LeaseLapses, RetryDue, JobRow
  <2> QED BY <2>1, <2>2 DEF QuoteExpires, Gateway
<1>4. PublishStep /\ StoreStep
  BY <1>1, <1>2, <1>3, PublishStill, StoreStill
<1>5. GwStep
  <2>1. CASE UNCHANGED gw
    BY <2>1, GwStill
  <2>2. ASSUME NEW q \in Quote, Gateway(q) PROVE GwStep
    BY <2>2, GatewayStep
  <2> QED BY <2>1, <2>2 DEF LeaseLapses, RetryDue, QuoteExpires
<1> QED BY <1>2, <1>4, <1>5

\* What a claim does to quotes and approvals.
LEMMA AcquireStill ==
  ASSUME TypeInv, NamesInv, NEW w \in Worker, NEW j \in Job, AcquireJob(w, j)
  PROVE  GwStep /\ PublishStep /\ StoreStep /\ UNCHANGED <<video, issued, pending>>
<1>1. UNCHANGED <<video, issued, gw, pending>>
  BY DEF AcquireJob
<1>2. Grows
  BY NextGrows DEF Next
<1>3. \A u \in Worker : worker'[u] = worker[u] \/ worker'[u].pc \notin {"publish", "store"}
  BY AcquireEffects
<1>4. \A i \in Job : jobs'[i] = jobs[i] \/ \A u \in Worker : worker'[u].pc = "store" => jobs'[i].owner # u
  BY AcquireEffects
<1>5. PublishStep /\ StoreStep
  BY <1>2, <1>3, <1>4, PublishStill, StoreStill
<1> QED BY <1>1, <1>5, GwStill

\* What a restart does to the rows, the workers and the approvals.
LEMMA RestartStill ==
  ASSUME TypeInv, NamesInv, Restart
  PROVE  /\ GwStep /\ PublishStep /\ StoreStep /\ UNCHANGED <<issued, gw>>
         /\ \A w \in Worker : worker'[w].pc = "idle"
         /\ \A v \in Video :
              /\ pending'[v] = {}
              /\ video'[v].final = video[v].final /\ video'[v].approved = video[v].approved
              /\ \/ video'[v] = video[v]
                 \/ IsExpired(v) /\ video'[v].status = "expired"
                 \/ Unrecoverable(v) /\ video'[v].status = "error" /\ video'[v].files = video[v].files
<1>1. GwStep /\ UNCHANGED <<issued, gw>>
  BY GwStill DEF Restart
<1>2. \A w \in Worker : worker'[w].pc = "idle"
  BY DEF Restart, IdleWorker
<1>3. PublishStep /\ StoreStep
  BY <1>2 DEF PublishStep, StoreStep
<1>4. ASSUME NEW v \in Video
      PROVE  /\ pending'[v] = {}
             /\ video'[v].final = video[v].final /\ video'[v].approved = video[v].approved
             /\ \/ video'[v] = video[v]
                \/ IsExpired(v) /\ video'[v].status = "expired"
                \/ Unrecoverable(v) /\ video'[v].status = "error" /\ video'[v].files = video[v].files
  <2>1. video[v] \in VideoRow /\ pending'[v] = {}
    BY DEF TypeInv, TypeOK, Restart
  <2>2. \/ video'[v] = video[v]
        \/ IsExpired(v) /\ video'[v] = Expire(video[v])
        \/ Unrecoverable(v) /\ video'[v] = [video[v] EXCEPT !.status = "error"]
    BY DEF Restart
  <2>3. /\ Expire(video[v]).status = "expired" /\ Expire(video[v]).final = video[v].final
        /\ Expire(video[v]).approved = video[v].approved
    BY <2>1 DEF Expire, VideoRow
  <2>4. /\ [video[v] EXCEPT !.status = "error"].status = "error"
        /\ [video[v] EXCEPT !.status = "error"].final = video[v].final
        /\ [video[v] EXCEPT !.status = "error"].approved = video[v].approved
        /\ [video[v] EXCEPT !.status = "error"].files = video[v].files
    BY <2>1 DEF VideoRow
  <2> QED BY <2>1, <2>2, <2>3, <2>4
<1> QED BY <1>1, <1>2, <1>3, <1>4

\* A handler moves no worker.
LEMMA HandlerWorkers ==
  ASSUME BaseInv, NEW v \in Video, Handlers(v)
  PROVE  PublishStep /\ StoreStep
<1>t. TypeInv
  BY DEF BaseInv
<1>1. Grows
  BY <1>t, NextGrows DEF Next
<1>2. worker' = worker /\ \A j \in Job : jobs'[j] = jobs[j] \/ jobs'[j].status # "running"
  BY HandlerEffects
<1> QED BY <1>t, <1>1, <1>2, PublishStill, StoreStill

\* Every step keeps the owners of quotes.
LEMMA NamesNext ==
  ASSUME BaseInv, Next
  PROVE  NamesInv'
<1>t. TypeInv /\ NamesInv
  BY DEF BaseInv
<1>1. ASSUME NEW v \in Video, Handlers(v) PROVE NamesInv'
  <2>1. PublishStep
    BY <1>1, HandlerWorkers
  <2> QED BY <1>t, <1>1, <2>1, HandlerEffects, NamesKept
<1>2. ASSUME NEW w \in Worker, Run(w) PROVE NamesInv'
  <2>1. CASE BuildQuote(w)
    BY <2>1, NamesBuild
  <2>2. CASE ~BuildQuote(w)
    <3>1. PublishStep
      BY <1>t, <1>2, <2>2, RunWorkers
    <3>2. CASE Leases(w)
      BY <3>1, <3>2, NamesLease
    <3>3. CASE GwStep
      <4>1. CASE SetAwaitingApproval(w)
        BY <3>1, <3>3, <4>1, NamesPublish
      <4>2. CASE ~SetAwaitingApproval(w)
        <5>1. issued' = issued
          BY <1>2, <2>2 DEF Run, StartJob, ActivateLease, RenewLease, ReadStatus, StartProcessing,
             SetAwaitingApproval, ReadPlan, StoreAdmitted, CommitReady, JobFails, MarkSucceeded,
             RetryLater, MarkLost, FailJob, LoseLease, Interrupt
        <5>2. \A v \in Video : video'[v].final = video[v].final /\ video'[v].approved = video[v].approved
          BY <1>t, <1>2, <4>2, RunVideo DEF SetsVideo
        <5> QED BY <1>t, <3>1, <3>3, <5>1, <5>2, NamesKept
      <4> QED BY <4>1, <4>2
    <3> QED BY <1>t, <1>2, <3>2, <3>3, RunGw
  <2> QED BY <2>1, <2>2
<1>3. ASSUME NEW w \in Worker, NEW j \in Job, AcquireJob(w, j) PROVE NamesInv'
  BY <1>t, <1>3, AcquireStill, NamesKept
<1>4. CASE Restart
  BY <1>t, <1>4, RestartStill, NamesKept
<1>5. CASE \/ \E j \in Job : LeaseLapses(j) \/ RetryDue(j)
           \/ \E q \in Quote : QuoteExpires(q) \/ Gateway(q)
  BY <1>t, <1>5, EnvironmentEffects, NamesKept
<1> QED BY <1>1, <1>2, <1>3, <1>4, <1>5 DEF Next

\* What always holds is inductive.
LEMMA BaseNext ==
  ASSUME BaseInv, [Next]_vars
  PROVE  BaseInv'
<1>1. TypeInv'
  BY NextTypes DEF BaseInv
<1>2. CASE Next
  BY <1>1, <1>2, NumbersNext, NamesNext DEF BaseInv
<1>3. CASE UNCHANGED vars
  <2>1. NumbersInv' <=> NumbersInv
    BY <1>3 DEF vars, NumbersInv, NoGaps, Unowned, OneActive, Active
  <2>2. NamesInv' <=> NamesInv
    BY <1>3 DEF vars, NamesInv, Named, Prepared, Fresh, VideoOf, JobOf
  <2> QED BY <1>1, <2>1, <2>2 DEF BaseInv
<1> QED BY <1>2, <1>3

-----------------------------------------------------------------------------
(* A video and its jobs.                                                   *)

\* As far as the invariant goes, nothing happened to the job.
JobKept(j) ==
  /\ jobs'[j].kind = jobs[j].kind /\ jobs'[j].video = jobs[j].video
  /\ jobs'[j].status = "none" <=> jobs[j].status = "none"
  /\ jobs'[j].status = "deleted" <=> jobs[j].status = "deleted"
  /\ Active(j)' => Active(j)
  /\ Unsettled(j)' <=> Unsettled(j)
  /\ Uploaded(j)' => Uploaded(j)

\* A job whose row and whose reports are left alone is kept.
LEMMA StillKept ==
  ASSUME NEW j, jobs'[j] = jobs[j], ReportDue(j)' <=> ReportDue(j)
  PROVE  JobKept(j)
BY DEF JobKept, Active, Unsettled, Uploaded

\* So is one that goes from worker to worker while its work is not done.
LEMMA ActiveKept ==
  ASSUME NEW j, jobs'[j].kind = jobs[j].kind, jobs'[j].video = jobs[j].video,
         Active(j), Active(j)', ~ReportDue(j), ~ReportDue(j)'
  PROVE  JobKept(j)
<1>1. Unsettled(j)' <=> Unsettled(j)
  BY DEF Unsettled
<1>2. Uploaded(j)' => Uploaded(j)
  BY DEF Uploaded, Active
<1> QED BY <1>1, <1>2 DEF JobKept, Active

\* As far as the invariant goes, nothing happened to the jobs of the video.
JobsStill(v) ==
  \A j \in Job : jobs'[j].video = v => jobs[j].video = v /\ JobKept(j)

\* A step that keeps the jobs and the status of a video.
LEMMA JobsFrame ==
  ASSUME NEW v \in Video, JobsInv(v), JobsStill(v), pending'[v] \subseteq pending[v],
         video'[v].status = video[v].status,
         video'[v].files = video[v].files \/ video[v].status = "ready"
  PROVE  JobsInv(v)'
<1>1. \A k : Fits(k, video[v]) => Fits(k, video'[v])
  BY DEF Fits
<1>2. ASSUME NEW j \in Job, jobs'[j].video = v PROVE JobOK(j, v)'
  <2>1. JobKept(j) /\ JobOK(j, v)
    BY <1>2 DEF JobsStill, JobsInv
  <2> QED BY <1>1, <2>1 DEF JobOK, JobKept
<1>3. PendingOK(v)'
  BY <1>1 DEF JobsInv, JobsStill, PendingOK, JobKept
<1> QED BY <1>2, <1>3 DEF JobsInv

\* A video that no job works on goes on to a status that waits for a job about
\* to be enqueued, or for none.
LEMMA QuietMove ==
  ASSUME NEW v \in Video, JobsInv(v), JobsStill(v),
         video[v].status \notin {"ready", "deleted"},
         \A j \in Job : jobs[j].video = v => ~Unsettled(j),
         video'[v].status \notin {"none", "deleted"},
         \A k \in pending'[v] : Fits(k, video'[v]) /\ (k = "process" => video'[v].status = "pending")
  PROVE  JobsInv(v)'
<1>1. ASSUME NEW j \in Job, jobs'[j].video = v PROVE JobOK(j, v)' /\ ~Unsettled(j)'
  <2>1. JobKept(j) /\ JobOK(j, v) /\ ~Unsettled(j)
    BY <1>1 DEF JobsStill, JobsInv
  <2> QED BY <2>1 DEF JobOK, JobKept
<1>2. PendingOK(v)'
  BY <1>1 DEF PendingOK
<1> QED BY <1>1, <1>2 DEF JobsInv

\* A job ends its work and its video goes on.
LEMMA JobEnds ==
  ASSUME BaseInv, NEW v \in Video, JobsInv(v), NEW j \in Job, jobs[j].video = v, Unsettled(j),
         pending'[v] = pending[v], video'[v].status \notin {"none", "deleted"},
         \A i \in Job : i # j /\ jobs'[i].video = v => jobs[i].video = v /\ JobKept(i),
         jobs'[j].status \notin {"none", "deleted"},
         ~Unsettled(j)', Uploaded(j)' => video'[v].status = "ready"
  PROVE  JobsInv(v)'
<1>a. /\ Fits(jobs[j].kind, video[v]) /\ pending[v] = {}
      /\ \A i \in Job : Unsettled(i) /\ jobs[i].video = v => i = j
  BY UnsettledAlone
<1>1. ASSUME NEW i \in Job, jobs'[i].video = v PROVE JobOK(i, v)'
  <2>1. CASE i = j
    BY <2>1 DEF JobOK
  <2>2. CASE i # j
    <3>1. JobOK(i, v) /\ JobKept(i) /\ ~Unsettled(i)
      BY <1>a, <1>1, <2>2 DEF JobsInv
    <3>2. video[v].status \notin {"ready", "deleted"}
      BY <1>a DEF Fits
    <3> QED BY <3>1, <3>2 DEF JobOK, JobKept
  <2> QED BY <2>1, <2>2
<1>2. PendingOK(v)'
  BY <1>a DEF PendingOK
<1> QED BY <1>1, <1>2 DEF JobsInv

\* A job is enqueued or resumed for a video that no other job works on.
LEMMA JobStarts ==
  ASSUME NEW v \in Video, JobsInv(v), NEW j \in Job,
         \A i \in Job : i # j /\ jobs'[i].video = v => jobs[i].video = v /\ JobKept(i),
         jobs'[j].status = "queued", jobs'[j].video = v,
         \A i \in Job : jobs[i].video = v => ~Unsettled(i),
         video[v].status \notin {"ready", "deleted"},
         Fits(jobs'[j].kind, video'[v]), pending'[v] = {}
  PROVE  JobsInv(v)'
<1>1. ~ReportDue(j)'
  BY DEF ReportDue, Due, Fenced, JobOf
<1>2. video'[v].status \notin {"none", "deleted"}
  BY DEF Fits
<1>3. ASSUME NEW i \in Job, jobs'[i].video = v PROVE JobOK(i, v)'
  <2>1. CASE i = j
    BY <1>1, <1>2, <2>1 DEF JobOK, Uploaded
  <2>2. CASE i # j
    <3>1. JobOK(i, v) /\ JobKept(i) /\ ~Unsettled(i)
      BY <1>3, <2>2 DEF JobsInv
    <3> QED BY <1>2, <3>1 DEF JobOK, JobKept
  <2> QED BY <2>1, <2>2
<1>4. PendingOK(v)'
  BY DEF PendingOK
<1> QED BY <1>3, <1>4 DEF JobsInv

\* A video that waits for a person waits for no job.
LEMMA Waiting ==
  ASSUME NEW v \in Video, JobsInv(v),
         video[v].status \in {"none", "awaiting_approval", "approval_required", "error", "expired",
                              "payment_recovery_required"}
  PROVE  pending[v] = {} /\ \A j \in Job : jobs[j].video = v => ~Unsettled(j)
<1>1. \A k : ~Fits(k, video[v])
  BY DEF Fits
<1>2. pending[v] = {}
  BY <1>1 DEF JobsInv, PendingOK
<1> QED BY <1>1, <1>2 DEF JobsInv, JobOK

-----------------------------------------------------------------------------
(* A video and its quotes.                                                 *)

\* Nothing but a lease happened to the approvals of the video.
OwnGw(v) ==
  \A q \in Quote :
    /\ issued[q] = v => issued'[q] = v /\ GwKept(q)
    /\ issued'[q] = v /\ gw'[q].job # None => issued[q] = v

\* No worker with a lease began to store for the video.
OwnStores(v) ==
  \A w \in Worker : worker'[w].pc = "store" /\ Fenced(w)' /\ VideoOf(w)' = v =>
    /\ worker[w].pc = "store" /\ Fenced(w) /\ VideoOf(w) = v
    /\ worker'[w].quote = worker[w].quote

\* An approval of the video that a job is bound to stays with it.
Stays(v) ==
  \A q \in Quote :
    issued[q] = v /\ gw[q].job # None /\ gw'[q].phase # "cancelled"
      => video'[v].approved = q /\ video'[v].status \in Settled

\* The row keeps its status and its quotes.
RowStill(v) ==
  /\ video'[v].status = video[v].status
  /\ video'[v].final = video[v].final /\ video'[v].approved = video[v].approved
  /\ video'[v].files = video[v].files \/ video[v].status = "ready"

\* The gateway does not touch what it knows of a video's quotes.
LEMMA OwnKept ==
  ASSUME NEW v, GwStep, issued' = issued
  PROVE  OwnGw(v)
BY DEF OwnGw, GwStep

LEMMA OwnStoresKept ==
  ASSUME NEW v, StoreStep
  PROVE  OwnStores(v)
BY DEF OwnStores, StoreStep

\* A row that keeps its plan, and an approval that stays.
LEMMA QuotesMove ==
  ASSUME NEW v \in Video, QuotesInv(v), OwnGw(v), OwnStores(v),
         \/ video'[v].final = video[v].final
         \/ \A w \in Worker : ~(worker[w].pc = "store" /\ Fenced(w) /\ VideoOf(w) = v),
         RowOK(v)', Stays(v)
  PROVE  QuotesInv(v)'
<1>1. ASSUME NEW q \in Quote, issued'[q] = v PROVE BoundHere(q, v)'
  BY <1>1 DEF QuotesInv, OwnGw, GwKept, BoundHere, Stays
<1>2. ASSUME NEW w \in Worker PROVE StoresFinal(w, v)'
  <2> SUFFICES ASSUME worker'[w].pc = "store", Fenced(w)', VideoOf(w)' = v
               PROVE  worker'[w].quote # None /\ worker'[w].quote = video'[v].final
    BY DEF StoresFinal
  <2>1. /\ worker[w].pc = "store" /\ Fenced(w) /\ VideoOf(w) = v
        /\ worker'[w].quote = worker[w].quote
    BY DEF OwnStores
  <2>2. StoresFinal(w, v)
    BY DEF QuotesInv
  <2> QED BY <2>1, <2>2 DEF StoresFinal
<1> QED BY <1>1, <1>2 DEF QuotesInv

\* A row that is left alone.
LEMMA RowKept ==
  ASSUME TypeInv, NamesInv, NEW v \in Video, QuotesInv(v), OwnGw(v), RowStill(v)
  PROVE  RowOK(v)' /\ Stays(v)
<1>1. /\ Named(v)
      /\ video[v].final \in Quote \cup {None} /\ video[v].approved \in Quote \cup {None}
  BY VideoEffects DEF TypeInv, NamesInv
<1>2. RowOK(v)
  BY DEF QuotesInv
<1>3. \A q \in Quote : q \in {video[v].final, video[v].approved} => GwKept(q)
  <2>1. None \notin Quote
    BY LifecycleAssumption DEF Quote
  <2> QED BY <1>1, <2>1 DEF Named, OwnGw
<1>4. RowOK(v)'
  <2>1. video[v].approved # None => GwKept(video[v].approved)
    BY <1>1, <1>3
  <2>2. video[v].final # None => GwKept(video[v].final)
    BY <1>1, <1>3
  <2> QED BY <1>2, <2>1, <2>2 DEF RowOK, RowStill, GwKept
<1>5. Stays(v)
  BY DEF QuotesInv, BoundHere, OwnGw, GwKept, Stays, RowStill
<1> QED BY <1>4, <1>5

\* A video whose upload has not begun has no approval a job is bound to.
LEMMA UnboundStays ==
  ASSUME NEW v \in Video, QuotesInv(v), OwnGw(v), video[v].status \notin Settled
  PROVE  Stays(v)
BY DEF QuotesInv, BoundHere, OwnGw, GwKept, Stays

\* An approval stays with the video through its upload.
LEMMA BoundStays ==
  ASSUME NEW v \in Video, QuotesInv(v), OwnGw(v), video'[v].approved = video[v].approved,
         video'[v].status \in Settled
  PROVE  Stays(v)
BY DEF QuotesInv, BoundHere, OwnGw, GwKept, Stays

-----------------------------------------------------------------------------
(* A video and the jobs its approvals are bound to.                        *)

\* A job that stays what it was to the uploads of a video.
UploadKept(j, v) ==
  \/ jobs'[j] = jobs[j]
  \/ ~Upload(j, v) /\ ~Upload(j, v)'
  \/ jobs'[j].kind = jobs[j].kind /\ jobs'[j].video = jobs[j].video /\ Active(j) /\ Active(j)'

\* A row that keeps its approval or is not being uploaded under a bound one.
RowBound(v) ==
  \/ video'[v].status \notin {"uploading", "payment_recovery_required"}
  \/ video'[v].approved = None
  \/ gw'[video'[v].approved].job = None
  \/ /\ video'[v].status = video[v].status /\ video'[v].approved = video[v].approved
     /\ gw'[video[v].approved].job = gw[video[v].approved].job

\* No job of the video becomes an upload or active.
LEMMA YoungestKept ==
  ASSUME NEW v \in Video, Youngest(v),
         \A j \in Job : Upload(j, v)' => Upload(j, v) /\ (Active(j)' => Active(j))
  PROVE  Youngest(v)'
BY DEF Youngest

\* A video whose row and whose uploads are kept.
LEMMA BoundKept ==
  ASSUME TypeInv, NEW v \in Video, Youngest(v), Bound(v), \A j \in Job : UploadKept(j, v),
         RowBound(v)
  PROVE  Youngest(v)' /\ Bound(v)'
<1>1. ASSUME NEW j \in Job
      PROVE  /\ Upload(j, v)' <=> Upload(j, v)
             /\ Upload(j, v) => (Active(j)' <=> Active(j))
             /\ Upload(j, v) => (jobs'[j].status = "failed" <=> jobs[j].status = "failed")
  <2>1. CASE jobs'[j] = jobs[j]
    BY <2>1 DEF Upload, Active
  <2>2. CASE ~Upload(j, v) /\ ~Upload(j, v)'
    BY <2>2
  <2>3. CASE /\ jobs'[j].kind = jobs[j].kind /\ jobs'[j].video = jobs[j].video
             /\ Active(j) /\ Active(j)'
    BY <2>3 DEF Upload, Active
  <2> QED BY <2>1, <2>2, <2>3 DEF UploadKept
<1>2. Youngest(v)'
  BY <1>1 DEF Youngest
<1>3. Bound(v)'
  <2>1. FailedUploads(v)' = FailedUploads(v)
    BY <1>1 DEF FailedUploads, Upload
  <2>2. \A j : LastFailed(v, j)' <=> LastFailed(v, j)
    BY <2>1 DEF LastFailed
  <2>3. video[v].approved \in Quote \cup {None} /\ gw \in [Quote -> GatewayRow]
    BY VideoEffects DEF TypeInv, TypeOK
  <2>4. CASE /\ video'[v].status = video[v].status /\ video'[v].approved = video[v].approved
             /\ gw'[video[v].approved].job = gw[video[v].approved].job
             /\ video[v].approved # None /\ gw[video[v].approved].job # None
    <3>1. gw[video[v].approved].job \in Job
      BY <2>3, <2>4 DEF GatewayRow
    <3> QED BY <1>1, <2>2, <2>4, <3>1 DEF Bound
  <2> QED BY <2>4 DEF RowBound, Bound
<1> QED BY <1>2, <1>3

\* A row that keeps its status and its approval keeps the job it is bound to.
LEMMA StillBound ==
  ASSUME TypeInv, NamesInv, NEW v \in Video, OwnGw(v), video'[v].status = video[v].status,
         video'[v].approved = video[v].approved
  PROVE  RowBound(v)
<1>1. video[v].approved \in Quote \cup {None} /\ Named(v) /\ None \notin Quote
  BY VideoEffects, LifecycleAssumption DEF TypeInv, NamesInv, Quote
<1>2. CASE video[v].approved = None
  BY <1>2 DEF RowBound
<1>3. CASE video[v].approved \in Quote
  <2>1. GwKept(video[v].approved)
    BY <1>1, <1>3 DEF Named, OwnGw
  <2> QED BY <2>1 DEF RowBound, GwKept
<1> QED BY <1>1, <1>2, <1>3

\* A new upload job is the youngest: it is enqueued when no other is active.
LEMMA NewYoungest ==
  ASSUME NumbersInv, NEW v \in Video, NEW n \in Job, jobs[n].status = "none",
         ~HasActive("upload", v), \A i \in Job : i # n => jobs'[i] = jobs[i]
  PROVE  Youngest(v)'
<1> SUFFICES ASSUME NEW i \in Job, NEW j \in Job, Upload(i, v)', Upload(j, v)', Active(j)'
             PROVE  i <= j
  BY DEF Youngest
<1>1. Job \subseteq Int
  BY DEF Job
<1>2. j = n
  BY DEF HasActive, Upload, Active
<1>3. CASE i = n
  BY <1>1, <1>2, <1>3
<1>4. CASE i # n
  <2>1. jobs[i].status # "none"
    BY <1>4 DEF Upload
  <2> QED BY <1>1, <1>2, <2>1 DEF NumbersInv, NoGaps
<1> QED BY <1>3, <1>4

\* A step that leaves the video and its jobs alone.
LEMMA VideoFrame ==
  ASSUME TypeInv, NamesInv, NEW v \in Video, VideoInv(v), JobsStill(v),
         \A j \in Job : UploadKept(j, v), OwnGw(v), OwnStores(v), RowStill(v),
         pending'[v] \subseteq pending[v]
  PROVE  VideoInv(v)'
<1>1. JobsInv(v)'
  BY JobsFrame DEF VideoInv, RowStill
<1>2. QuotesInv(v)'
  BY RowKept, QuotesMove DEF VideoInv, RowStill
<1>3. Youngest(v)' /\ Bound(v)'
  BY StillBound, BoundKept DEF VideoInv, RowStill
<1> QED BY <1>1, <1>2, <1>3 DEF VideoInv

-----------------------------------------------------------------------------
(* What happens to other videos.                                           *)

\* A handler leaves the other videos alone.
LEMMA HandlerElsewhere ==
  ASSUME BaseInv, NEW u \in Video, Handlers(u), NEW v \in Video, v # u, VideoInv(v)
  PROVE  VideoInv(v)'
<1>b. TypeInv /\ NamesInv
  BY DEF BaseInv
<1>h. /\ UNCHANGED <<worker, issued>> /\ GwStep
      /\ video'[v] = video[v] /\ pending'[v] = pending[v]
      /\ \A j \in Job :
           \/ jobs'[j] = jobs[j]
           \/ /\ jobs'[j].video = u
              /\ jobs[j].video = u \/ jobs[j].status = "none"
  BY HandlerEffects
<1>1. JobsStill(v)
  <2> SUFFICES ASSUME NEW j \in Job, jobs'[j].video = v PROVE jobs[j].video = v /\ JobKept(j)
    BY DEF JobsStill
  <2>1. jobs'[j] = jobs[j]
    BY <1>h
  <2>2. ReportDue(j)' <=> ReportDue(j)
    BY <1>h, <2>1, DueStill
  <2> QED BY <2>1, <2>2, StillKept
<1>2. \A j \in Job : UploadKept(j, v)
  BY <1>h DEF UploadKept, Upload
<1>3. OwnGw(v) /\ OwnStores(v)
  BY <1>h, HandlerWorkers, OwnKept, OwnStoresKept
<1>4. RowStill(v)
  BY <1>h DEF RowStill
<1> QED BY <1>b, <1>h, <1>1, <1>2, <1>3, <1>4, VideoFrame

\* A run leaves the other jobs alone.
LEMMA OthersKept ==
  ASSUME TypeInv, NEW w \in Worker, Run(w), NEW j \in Job, j # worker[w].job
  PROVE  jobs'[j] = jobs[j] /\ JobKept(j)
<1>1. jobs'[j] = jobs[j]
  BY RunReports
<1> QED BY <1>1, RunOthers, StillKept

\* A run touches the approvals of its own video only.
LEMMA RunOwnGw ==
  ASSUME BaseInv, NEW w \in Worker, Run(w), NEW v \in Video, v # VideoOf(w) \/ GwStep
  PROVE  OwnGw(v)
<1>b. /\ TypeInv /\ NamesInv /\ TypeOK /\ gw \in [Quote -> GatewayRow]
      /\ issued \in [Quote -> Video \cup {None}] /\ None \notin Video /\ None \notin Quote
  BY LifecycleAssumption DEF BaseInv, TypeInv, TypeOK, Quote
<1>r. RunsOn(w)
  BY <1>b, RunStands
<1>1. CASE Leases(w) /\ v # VideoOf(w)
  <2> DEFINE q == video[VideoOf(w)].approved
  <2>1. q \in Quote /\ q # None /\ UNCHANGED issued /\ GatewayLeases(q, w)
    BY <1>b, <1>r, <1>1, VideoEffects DEF Leases, RunsOn
  <2>2. issued[q] = VideoOf(w)
    BY <1>b, <1>r, <2>1 DEF NamesInv, Named, RunsOn
  <2>3. ASSUME NEW p \in Quote, p # q PROVE GwKept(p)
    <3>1. gw'[p] = gw[p]
      BY <1>b, <2>1, <2>3 DEF GatewayLeases
    <3>2. Prepared(p)
      BY <1>b DEF NamesInv
    <3> QED BY <3>1, <3>2 DEF GwKept, Prepared
  <2> HIDE DEF q
  <2> QED BY <1>1, <2>1, <2>2, <2>3 DEF OwnGw
<1>2. CASE GwStep /\ ~BuildQuote(w)
  <2>2. issued' = issued
    BY <1>2 DEF Run, StartJob, ActivateLease, RenewLease, ReadStatus, StartProcessing,
       SetAwaitingApproval, ReadPlan, StoreAdmitted, CommitReady, JobFails, MarkSucceeded,
       RetryLater, MarkLost, FailJob, LoseLease, Interrupt
  <2> QED BY <1>2, <2>2, OwnKept
<1>3. CASE BuildQuote(w)
  <2>1. PICK q \in Quote : issued[q] = None /\ issued' = [issued EXCEPT ![q] = VideoOf(w)]
    BY <1>3 DEF BuildQuote
  <2>2. gw' = gw /\ GwStep
    BY <1>b, <1>3, GwStill DEF BuildQuote
  <2>3. gw[q].job = None
    BY <1>b, <2>1 DEF NamesInv, Prepared
  <2> QED BY <1>b, <2>1, <2>2, <2>3 DEF OwnGw, GwStep
<1> QED BY <1>b, <1>1, <1>2, <1>3, RunGw

\* A run stores for its own video only.
LEMMA RunOwnStores ==
  ASSUME BaseInv, NEW w \in Worker, Run(w), NEW v \in Video,
         ReadPlan(w) => v # VideoOf(w) \/ worker'[w].pc # "store"
  PROVE  OwnStores(v)
<1>b. TypeInv
  BY DEF BaseInv
<1>1. CASE ~ReadPlan(w)
  BY <1>b, <1>1, RunWorkers, OwnStoresKept
<1>2. CASE ReadPlan(w)
  <2>1. jobs' = jobs /\ worker[w].pc = "plan"
    BY <1>2 DEF ReadPlan
  <2>2. worker'[w].pc \in {"failed", "store"}
    <3>1. worker[w] \in WorkerState /\ worker \in [Worker -> WorkerState]
      BY <1>b DEF TypeInv, TypeOK
    <3>2. PICK q : \/ FailWith(w, "approval")
                   \/ worker' = [worker EXCEPT ![w].pc = "failed", ![w].class = "plain",
                                               ![w].quote = q]
                   \/ worker' = [worker EXCEPT ![w].pc = "store", ![w].quote = q]
      BY <1>2 DEF ReadPlan
    <3> QED BY <3>1, <3>2 DEF FailWith, WorkerState
  <2>3. PICK pc : Moves(w, pc)
    BY <1>b, <2>1, <2>2, RunMoves DEF Rests
  <2>4. ASSUME NEW u \in Worker PROVE (Fenced(u)' <=> Fenced(u)) /\ VideoOf(u)' = VideoOf(u)
    <3>1. worker'[u].job = worker[u].job /\ worker'[u].gen = worker[u].gen
      BY <2>3 DEF Moves
    <3> QED BY <2>1, <3>1 DEF Fenced, VideoOf, JobOf
  <2>5. ASSUME NEW u \in Worker, worker'[u].pc = "store", Fenced(u)', VideoOf(u)' = v
        PROVE  /\ worker[u].pc = "store" /\ Fenced(u) /\ VideoOf(u) = v
               /\ worker'[u].quote = worker[u].quote
    <3>1. u # w
      BY <1>2, <2>4, <2>5
    <3> QED BY <2>3, <2>4, <2>5, <3>1 DEF Moves
  <2> QED BY <2>5 DEF OwnStores
<1> QED BY <1>1, <1>2

\* A run that leaves the row alone, and its job as far as its video goes.
LEMMA RunFrame ==
  ASSUME BaseInv, NEW w \in Worker, Run(w), NEW v \in Video, VideoInv(v), OwnGw(v), OwnStores(v),
         RowStill(v), NEW j \in Job, j = worker[w].job,
         v = VideoOf(w) => JobKept(j) /\ UploadKept(j, v)
  PROVE  VideoInv(v)'
<1>b. TypeInv /\ NamesInv
  BY DEF BaseInv
<1>r. jobs[j].video = VideoOf(w)
  BY <1>b, RunStands DEF RunsOn
<1>v. jobs'[j].video = VideoOf(w)
  BY <1>b, <1>r, RunReports
<1>1. JobsStill(v)
  BY <1>b, <1>r, <1>v, OthersKept DEF JobsStill
<1>2. ASSUME NEW i \in Job PROVE UploadKept(i, v)
  <2>1. CASE i # j
    BY <1>b, <2>1, OthersKept DEF UploadKept
  <2>2. CASE i = j /\ v # VideoOf(w)
    BY <1>r, <1>v, <2>2 DEF UploadKept, Upload
  <2> QED BY <2>1, <2>2
<1>3. pending'[v] = pending[v]
  BY <1>b, RunVideo
<1> QED BY <1>b, <1>1, <1>2, <1>3, VideoFrame

\* A run leaves the other videos alone.
LEMMA RunElsewhere ==
  ASSUME BaseInv, NEW w \in Worker, Run(w), NEW v \in Video, v # VideoOf(w), VideoInv(v)
  PROVE  VideoInv(v)'
<1>1. RowStill(v)
  BY RunVideo DEF BaseInv, RowStill
<1>2. OwnGw(v) /\ OwnStores(v)
  BY RunOwnGw, RunOwnStores
<1>3. PICK j \in Job : j = worker[w].job
  BY RunStands DEF BaseInv, RunsOn
<1> QED BY <1>1, <1>2, <1>3, RunFrame

-----------------------------------------------------------------------------
(* Runs that only move on.                                                 *)

\* A worker moves on or gives up, and no report is due before or after.
LEMMA RunQuiet ==
  ASSUME BaseInv, NEW w \in Worker, Run(w), NEW v \in Video, v = VideoOf(w), VideoInv(v),
         UNCHANGED <<video, jobs>>, GwStep, ReadPlan(w) => worker'[w].pc # "store",
         ~Due(w), ~Due(w)'
  PROVE  VideoInv(v)'
<1>1. RowStill(v) /\ OwnGw(v) /\ OwnStores(v)
  BY RunOwnGw, RunOwnStores DEF RowStill
<1>2. \A u \in Worker : u # w => worker'[u] = worker[u]
  BY RunMoves DEF BaseInv, Rests, Moves
<1>j. PICK j \in Job : j = worker[w].job
  BY RunStands DEF BaseInv, RunsOn
<1>3. ReportDue(j)' <=> ReportDue(j)
  BY <1>2, DueStill DEF Due
<1>4. JobKept(j) /\ UploadKept(j, v)
  BY <1>3, StillKept DEF UploadKept
<1> QED BY <1>1, <1>j, <1>4, RunFrame

\* A job is given back before its work is done.
LEMMA RunGivesBack ==
  ASSUME BaseInv, NEW w \in Worker, Run(w), NEW v \in Video, v = VideoOf(w), VideoInv(v),
         video' = video, GwStep, Rests(w), NEW j \in Job, j = worker[w].job, Active(j),
         ~ReportDue(j), jobs'[j].status = "queued"
  PROVE  VideoInv(v)'
<1>b. TypeInv
  BY DEF BaseInv
<1>1. RowStill(v) /\ OwnGw(v) /\ OwnStores(v)
  BY RunOwnGw, RunOwnStores DEF RowStill, Rests
<1>r. jobs[j] = JobOf(w) /\ jobs[j].video = VideoOf(w)
  BY <1>b, RunStands DEF RunsOn
<1>2. jobs'[j].kind = jobs[j].kind /\ jobs'[j].video = jobs[j].video
  BY <1>b, <1>r, RunReports
<1>3. Active(j)' /\ ~ReportDue(j)'
  BY DEF Active, ReportDue, Due, Fenced, JobOf
<1>4. JobKept(j) /\ UploadKept(j, v)
  BY <1>2, <1>3, ActiveKept DEF UploadKept
<1> QED BY <1>1, <1>4, RunFrame

\* A job row is replaced.
LEMMA JobReplaced ==
  ASSUME TypeInv, NEW j \in Job, NEW r, jobs' = [jobs EXCEPT ![j] = r]
  PROVE  jobs'[j] = r /\ \A i \in Job : i # j => jobs'[i] = jobs[i]
BY DEF TypeInv, TypeOK

\* A job that failed for now or is interrupted is queued again.
LEMMA RunReturns ==
  ASSUME BaseInv, NEW w \in Worker, RetryLater(w) \/ Interrupt(w), NEW v \in Video, v = VideoOf(w),
         VideoInv(v)
  PROVE  VideoInv(v)'
<1>b. /\ TypeInv /\ NamesInv /\ TypeOK /\ Run(w)
  BY DEF BaseInv, TypeInv, Run
<1>r. RunsOn(w)
  BY <1>b, RunStands
<1>j. PICK j \in Job : j = worker[w].job
  BY <1>r DEF RunsOn
<1>o. JobOf(w) = jobs[j] /\ jobs[j] \in JobRow
  BY <1>j, <1>r DEF RunsOn
<1>g. GwStep /\ video' = video
  BY <1>b, GwStill DEF RetryLater, Interrupt
<1>s. \A d : [Released(jobs[j], "queued") EXCEPT !.due = d].status = "queued"
  BY <1>o, JobEffects
<1>1. CASE RetryLater(w)
  <2>1. Rests(w)
    BY <1>1, <1>b, WorkerEffects DEF RetryLater
  <2>2. Active(j) /\ ~ReportDue(j)
    BY <1>1, <1>b, <1>j, FencedUnsettled DEF RetryLater, Unsettled
  <2>3. jobs'[j].status = "queued"
    <3>1. jobs' = [jobs EXCEPT ![j] = [Released(jobs[j], "queued") EXCEPT !.due = FALSE]]
      BY <1>1, <1>j DEF RetryLater
    <3> QED BY <1>b, <1>s, <3>1, JobReplaced
  <2> QED BY <1>b, <1>g, <1>j, <2>1, <2>2, <2>3, RunGivesBack
<1>2. CASE Interrupt(w)
  <2>1. Rests(w) /\ worker[w].pc # "done"
    BY <1>2, <1>b DEF Interrupt, Rests, IdleWorker, Working, TypeOK
  <2>2. CASE UNCHANGED jobs
    BY <1>b, <1>g, <2>1, <2>2, RunQuiet DEF Rests, Due
  <2>3. CASE /\ jobs[j].status = "running" /\ jobs[j].owner = w
             /\ jobs' = [jobs EXCEPT ![j] = [Released(jobs[j], "queued") EXCEPT !.due = TRUE]]
    <3>1. Active(j) /\ ~ReportDue(j)
      BY <2>1, <2>3 DEF Active, ReportDue, Due, Fenced, JobOf
    <3>2. jobs'[j].status = "queued"
      BY <1>b, <1>s, <2>3, JobReplaced
    <3> QED BY <1>b, <1>g, <1>j, <2>1, <3>1, <3>2, RunGivesBack
  <2> QED BY <1>2, <1>j, <2>2, <2>3 DEF Interrupt
<1> QED BY <1>1, <1>2

\* The read of a plan that is not stored.
PlanRefused(w) == ReadPlan(w) /\ worker'[w].pc = "failed"

\* A worker reads, quotes, admits, fails or gives up.
LEMMA RunWorks ==
  ASSUME BaseInv, NEW w \in Worker, NEW v \in Video, v = VideoOf(w), VideoInv(v), Reported(v)',
         \/ StartJob(w) \/ ReadStatus(w) \/ BuildQuote(w) \/ PlanRefused(w) \/ StoreAdmitted(w)
         \/ LoseLease(w) \/ MarkLost(w) \/ \E c \in Class : JobFails(w, c)
  PROVE  VideoInv(v)'
<1>b. /\ TypeInv /\ NamesInv /\ TypeOK /\ Run(w)
  BY DEF BaseInv, TypeInv, Run, PlanRefused
<1>r. RunsOn(w) /\ worker[w] \in WorkerState
  BY <1>b, RunStands DEF TypeOK
<1>u. UNCHANGED <<video, jobs>>
  BY DEF StartJob, ReadStatus, BuildQuote, PlanRefused, ReadPlan, StoreAdmitted, LoseLease, MarkLost,
     JobFails
<1>g. GwStep
  <2>1. CASE UNCHANGED gw
    BY <1>b, <2>1, GwStill
  <2>2. CASE StoreAdmitted(w) \/ MarkLost(w)
    BY <1>b, <2>2, ReportGw
  <2> QED BY <2>1, <2>2 DEF StartJob, ReadStatus, BuildQuote, PlanRefused, ReadPlan, LoseLease, JobFails
<1>1. CASE /\ ~MarkLost(w) /\ worker[w].pc # "done" /\ worker'[w].pc \notin {"done", "store"}
  BY <1>b, <1>g, <1>u, <1>1, RunQuiet DEF Due
<1>2. CASE StoreAdmitted(w)
  <2>1. worker' = worker /\ worker[w].pc = "store" /\ ~ReadPlan(w)
    BY <1>2 DEF StoreAdmitted, ReadPlan
  <2> QED BY <1>b, <1>g, <1>u, <2>1, RunQuiet DEF Due
<1>3. CASE MarkLost(w)
  <2>1. Rests(w) /\ ~ReadPlan(w)
    BY <1>3, <1>b, WorkerEffects DEF MarkLost, ReadPlan
  <2>2. ~Due(w)
    BY <1>3 DEF MarkLost, LosesReports, Reported
  <2> QED BY <1>b, <1>g, <1>u, <2>1, <2>2, RunQuiet DEF Due, Rests
<1>4. CASE ReadStatus(w)
  <2>1. CASE Goto(w, "done") /\ ~Runs(JobOf(w).kind, video[VideoOf(w)])
    <3>1. Moves(w, "done") /\ jobs' = jobs /\ worker[w].pc = "read" /\ ~ReadPlan(w)
      BY <1>4, <1>b, <2>1, WorkerEffects DEF ReadStatus, ReadPlan
    <3>2. ~Fenced(w)
      <4>1. JobOf(w).kind \in {"process", "upload"}
        BY <1>b, <3>1 DEF TypeInv, PcInv
      <4>2. ASSUME Fenced(w) PROVE FALSE
        <5>1. Fits(JobOf(w).kind, video[VideoOf(w)])
          BY <3>1, <4>2, FencedFacts DEF FencedStep, VideoInv
        <5> QED BY <2>1, <4>1, <5>1 DEF Fits, Runs
      <4> QED BY <4>2
    <3>3. ~Fenced(w)'
      BY <3>1, <3>2, MovesFenced
    <3> QED BY <1>b, <1>g, <1>u, <3>1, <3>2, <3>3, RunQuiet DEF Due
  <2>2. CASE Goto(w, "plan") \/ Goto(w, "work") \/ FailWith(w, "plain")
    <3>1. Moves(w, "plan") \/ Moves(w, "work") \/ Moves(w, "failed")
      BY <1>b, <2>2, WorkerEffects
    <3>2. worker[w].pc = "read" /\ ~MarkLost(w)
      BY <1>4 DEF ReadStatus, MarkLost
    <3> QED BY <1>1, <3>1, <3>2 DEF Moves
  <2> QED BY <1>4, <2>1, <2>2 DEF ReadStatus
<1>5. CASE StartJob(w) \/ \E c \in Class : JobFails(w, c)
  <2>1. Moves(w, "quote") \/ Moves(w, "read") \/ Moves(w, "failed")
    BY <1>5, <1>b, WorkerEffects DEF StartJob, JobFails
  <2>2. worker[w].pc \in Working
    BY <1>5 DEF StartJob, JobFails, Working
  <2> QED BY <1>1, <2>1, <2>2 DEF Moves, MarkLost, Working
<1>6. CASE BuildQuote(w)
  <2>1. Moves(w, "publish") /\ worker[w].pc = "quote"
    BY <1>6, <1>b, WorkerEffects DEF BuildQuote
  <2> QED BY <1>1, <2>1 DEF Moves, MarkLost
<1>7. CASE PlanRefused(w)
  BY <1>1, <1>7 DEF PlanRefused, ReadPlan, MarkLost
<1>8. CASE LoseLease(w)
  <2>1. Rests(w) /\ worker[w].pc \in Working
    BY <1>8, <1>b, WorkerEffects DEF LoseLease
  <2> QED BY <1>1, <2>1 DEF Rests, MarkLost, Working
<1> QED BY <1>2, <1>3, <1>4, <1>5, <1>6, <1>7, <1>8

-----------------------------------------------------------------------------
(* Runs that move their video on.                                          *)

\* What every step of a run for its own video stands on.
RunStep(w, v, j) ==
  /\ TypeInv /\ NamesInv /\ TypeOK /\ Run(w)
  /\ worker[w] \in WorkerState /\ v = VideoOf(w) /\ j = worker[w].job
  /\ jobs[j] \in JobRow /\ jobs[j] = JobOf(w) /\ jobs[j].video = v
  /\ video[v] \in VideoRow

LEMMA RunStepFacts ==
  ASSUME BaseInv, NEW w \in Worker, Run(w), NEW v \in Video, v = VideoOf(w)
  PROVE  \E j \in Job : RunStep(w, v, j)
<1>1. TypeInv /\ NamesInv /\ TypeOK
  BY DEF BaseInv, TypeInv
<1>2. RunsOn(w) /\ worker[w] \in WorkerState
  BY <1>1, RunStands DEF TypeOK
<1> QED BY <1>1, <1>2 DEF RunsOn, RunStep

\* A worker that moves on leaves the uploads of its video what they are.
LEMMA MoveBound ==
  ASSUME TypeInv, NEW v \in Video, Youngest(v), Bound(v), jobs' = jobs, RowBound(v)
  PROVE  Youngest(v)' /\ Bound(v)'
BY BoundKept DEF UploadKept

LEMMA StartProcessingSafe ==
  ASSUME BaseInv, NEW w \in Worker, StartProcessing(w), NEW v \in Video, v = VideoOf(w), VideoInv(v)
  PROVE  VideoInv(v)'
<1>j. PICK j \in Job : RunStep(w, v, j)
  BY RunStepFacts DEF Run
<1>1. Fenced(w) /\ worker[w].pc = "work" /\ jobs[j].kind = "process"
  BY <1>j DEF StartProcessing, RunStep, TypeInv, PcInv
<1>2. FencedStep(w, j, v)
  BY <1>j, <1>1, FencedFacts DEF VideoInv, RunStep
<1>3. video[v].status \in {"pending", "processing"} /\ video[v].files
  BY <1>1, <1>2 DEF FencedStep, Fits
<1>4. SetsVideo(v, "processing", video[v].final, video[v].approved, video[v].files)
  BY <1>j, VideoEffects DEF StartProcessing, RunStep
<1>5. Moves(w, "quote") /\ jobs' = jobs /\ pending' = pending /\ issued' = issued /\ gw' = gw
  BY <1>j, WorkerEffects DEF StartProcessing, RunStep
<1>6. GwStep /\ OwnGw(v) /\ OwnStores(v)
  <2>1. GwStep
    BY <1>j, <1>5, GwStill DEF RunStep
  <2> QED BY <1>j, <1>5, <2>1, OwnKept, RunOwnStores DEF RunStep, Moves
<1>7. JobsInv(v)'
  <2>1. \A i \in Job : JobKept(i)
    <3> SUFFICES ASSUME NEW i \in Job PROVE JobKept(i)
      OBVIOUS
    <3>1. ReportDue(i)' <=> ReportDue(i)
      BY <1>1, <1>5, DueStill DEF Moves
    <3> QED BY <1>5, <3>1, StillKept
  <2>2. ASSUME NEW i \in Job, jobs'[i].video = v PROVE JobOK(i, v)'
    <3>1. jobs[i].video = v /\ JobOK(i, v) /\ JobKept(i) /\ jobs'[i] = jobs[i]
      BY <1>5, <2>1, <2>2 DEF VideoInv, JobsInv
    <3>2. Unsettled(i) => i = j
      BY <1>2, <3>1 DEF FencedStep
    <3>3. Unsettled(i)' => Fits(jobs'[i].kind, video'[v])
      BY <1>1, <1>3, <1>4, <3>1, <3>2 DEF JobKept, Fits, SetsVideo
    <3> QED BY <1>3, <1>4, <3>1, <3>3 DEF JobOK, JobKept, SetsVideo
  <2>3. PendingOK(v)'
    BY <1>2, <1>5 DEF PendingOK, FencedStep
  <2> QED BY <2>2, <2>3 DEF JobsInv
<1>8. QuotesInv(v)'
  <2>1. RowOK(v)'
    BY <1>3, <1>4 DEF VideoInv, QuotesInv, RowOK, SetsVideo
  <2>2. Stays(v)
    BY <1>3, <1>6, UnboundStays DEF VideoInv, Settled
  <2> QED BY <1>4, <1>6, <2>1, <2>2, QuotesMove DEF VideoInv, SetsVideo
<1>9. Youngest(v)' /\ Bound(v)'
  BY <1>j, <1>4, <1>5, MoveBound DEF VideoInv, RunStep, RowBound, SetsVideo
<1> QED BY <1>7, <1>8, <1>9 DEF VideoInv

\* The work of a job is done: the report is due.
LEMMA WorkDone ==
  ASSUME NEW w \in Worker, Moves(w, "done"), jobs' = jobs, Fenced(w), NEW j, j = worker[w].job
  PROVE  ReportDue(j)'
<1>1. Fenced(w)'
  BY MovesFenced
<1> QED BY <1>1 DEF ReportDue, Due, Moves

\* A worker that did its work commits it to the row of its video.
LEMMA CommitsSafe ==
  ASSUME BaseInv, NEW w \in Worker, SetAwaitingApproval(w) \/ CommitReady(w), NEW v \in Video,
         v = VideoOf(w), VideoInv(v)
  PROVE  VideoInv(v)'
<1>j. PICK j \in Job : RunStep(w, v, j)
  BY RunStepFacts DEF Run
<1>1. Fenced(w) /\ worker[w].pc \in {"publish", "store"}
  BY DEF SetAwaitingApproval, CommitReady
<1>2. FencedStep(w, j, v)
  BY <1>j, <1>1, FencedFacts DEF VideoInv, RunStep
<1>3. Moves(w, "done") /\ jobs' = jobs /\ pending' = pending /\ issued' = issued /\ gw' = gw
  BY <1>j, WorkerEffects DEF SetAwaitingApproval, CommitReady, RunStep
<1>4. GwStep /\ OwnGw(v) /\ OwnStores(v)
  <2>1. GwStep
    BY <1>j, <1>3, GwStill DEF RunStep
  <2> QED BY <1>j, <1>3, <2>1, OwnKept, RunOwnStores DEF RunStep, Moves
<1>5. CASE SetAwaitingApproval(w)
  <2>1. worker[w].pc = "publish" /\ jobs[j].kind \in {"process", "quote"}
    BY <1>j, <1>5 DEF SetAwaitingApproval, RunStep, TypeInv, PcInv
  <2>2. video[v].status \in {"pending", "processing", "quoting"}
    BY <1>2, <2>1 DEF FencedStep, Fits
  <2>3. SetsVideo(v, "awaiting_approval", worker[w].quote, video[v].approved, video[v].files)
    BY <1>j, <1>5, VideoEffects DEF SetAwaitingApproval, RunStep
  <2>4. JobsInv(v)'
    <3>1. ReportDue(j)'
      BY <1>j, <1>1, <1>3, WorkDone DEF RunStep
    <3>2. ~Unsettled(j)' /\ ~Uploaded(j)'
      BY <1>3, <2>1, <3>1 DEF Unsettled, Uploaded
    <3>3. \A i \in Job : i # j => jobs'[i] = jobs[i] /\ JobKept(i)
      BY <1>j, OthersKept DEF RunStep
    <3> QED BY <1>2, <1>3, <2>3, <3>2, <3>3, JobEnds
            DEF VideoInv, FencedStep, SetsVideo, Unsettled, Active
  <2>5. QuotesInv(v)'
    <3>1. RowOK(v)'
      <4>1. worker[w].quote # None /\ gw[worker[w].quote].job = None
        BY <2>1, <1>j DEF RunStep, NamesInv, Fresh
      <4>2. video[v].approved = None
        BY <2>2 DEF VideoInv, QuotesInv, RowOK
      <4> QED BY <1>3, <2>3, <4>1, <4>2 DEF RowOK, SetsVideo
    <3>2. Stays(v)
      BY <1>4, <2>2, UnboundStays DEF VideoInv, Settled
    <3>3. \A u \in Worker : ~(worker[u].pc = "store" /\ Fenced(u) /\ VideoOf(u) = v)
      <4> SUFFICES ASSUME NEW u \in Worker, worker[u].pc = "store", Fenced(u), VideoOf(u) = v
                   PROVE  FALSE
        OBVIOUS
      <4>1. FencedStep(u, worker[u].job, v)
        BY FencedFacts DEF VideoInv
      <4>2. PICK i \in Job : i = worker[u].job /\ Unsettled(i) /\ jobs[i].video = v
                               /\ jobs[i] = JobOf(u)
        BY <4>1 DEF FencedStep
      <4>3. jobs[i].kind = "upload"
        BY <1>j, <4>2 DEF RunStep, TypeInv, PcInv
      <4>4. i = j
        BY <1>2, <4>2 DEF FencedStep
      <4> QED BY <2>1, <4>3, <4>4
    <3> QED BY <1>4, <2>3, <3>1, <3>2, <3>3, QuotesMove DEF VideoInv
  <2>6. Youngest(v)' /\ Bound(v)'
    BY <1>j, <1>3, <2>3, MoveBound DEF VideoInv, RunStep, RowBound, SetsVideo
  <2> QED BY <2>4, <2>5, <2>6 DEF VideoInv
<1>6. CASE CommitReady(w)
  <2>1. worker[w].pc = "store" /\ jobs[j].kind = "upload" /\ gw[worker[w].quote].stored
    BY <1>j, <1>6 DEF CommitReady, RunStep, TypeInv, PcInv
  <2>2. video[v].status = "uploading"
    BY <1>2, <2>1 DEF FencedStep, Fits
  <2>3. SetsVideo(v, "ready", video[v].final, video[v].approved, video[v].files)
    BY <1>j, <1>6, VideoEffects DEF CommitReady, RunStep
  <2>4. JobsInv(v)'
    <3>1. ReportDue(j)'
      BY <1>j, <1>1, <1>3, WorkDone DEF RunStep
    <3>2. ~Unsettled(j)'
      BY <3>1 DEF Unsettled
    <3>3. \A i \in Job : i # j => jobs'[i] = jobs[i] /\ JobKept(i)
      BY <1>j, OthersKept DEF RunStep
    <3> QED BY <1>2, <1>3, <2>3, <3>2, <3>3, JobEnds
            DEF VideoInv, FencedStep, SetsVideo, Unsettled, Active
  <2>5. QuotesInv(v)'
    <3>1. /\ RowOK(v) /\ worker[w].quote = video[v].final
      BY <1>j, <1>1, <2>1 DEF VideoInv, QuotesInv, StoresFinal, RunStep
    <3>2. video[v].approved # None /\ video[v].approved = video[v].final
      BY <2>2, <3>1 DEF RowOK
    <3>3. RowOK(v)'
      BY <1>3, <2>1, <2>3, <3>1, <3>2 DEF RowOK, SetsVideo
    <3>4. Stays(v)
      BY <1>4, <2>3, BoundStays DEF VideoInv, Settled, SetsVideo
    <3> QED BY <1>4, <2>3, <3>3, <3>4, QuotesMove DEF VideoInv, SetsVideo
  <2>6. Youngest(v)' /\ Bound(v)'
    BY <1>j, <1>3, <2>3, MoveBound DEF VideoInv, RunStep, RowBound, SetsVideo
  <2> QED BY <2>4, <2>5, <2>6 DEF VideoInv
<1> QED BY <1>5, <1>6

\* The gateway leases an approved upload to the job that runs it.
LEMMA LeasesSafe ==
  ASSUME BaseInv, NEW w \in Worker, ActivateLease(w) \/ RenewLease(w), NEW v \in Video,
         v = VideoOf(w), VideoInv(v), Leases(w)
  PROVE  VideoInv(v)'
<1>j. PICK j \in Job : RunStep(w, v, j)
  BY RunStepFacts DEF Run
<1>1. FencedStep(w, j, v) /\ jobs[j].kind = "upload"
  BY <1>j, FencedFacts DEF VideoInv, RunStep, Leases
<1> DEFINE q == video[v].approved
<1>2. /\ q # None /\ GatewayLeases(q, w) /\ UNCHANGED <<video, jobs, issued, pending>>
      /\ Fenced(w) /\ worker[w].pc # "done"
  BY <1>j DEF Leases, RunStep
<1>3. video[v].status = "uploading" /\ RowOK(v) /\ q = video[v].final
  BY <1>1, <1>2 DEF FencedStep, Fits, VideoInv, QuotesInv, RowOK
<1>4. q \in Quote /\ issued[q] = v
  BY <1>j, <1>2, VideoEffects DEF RunStep, NamesInv, Named
<1>5. /\ gw'[q].job = j /\ gw'[q].phase = gw[q].phase /\ gw'[q].paid = gw[q].paid
      /\ gw'[q].stored = gw[q].stored /\ \A p \in Quote : p # q => gw'[p] = gw[p]
  BY <1>j, <1>2, <1>4 DEF GatewayLeases, GatewayRow, RunStep, TypeOK
<1>6. OwnStores(v)
  <2>1. ~ReadPlan(w)
    <3>1. CASE ActivateLease(w)
      BY <3>1 DEF ActivateLease, ReadPlan
    <3>2. CASE RenewLease(w)
      <4>1. worker' = worker
        BY <3>2 DEF RenewLease
      <4>2. ASSUME ReadPlan(w) PROVE worker'[w].pc # "plan" /\ worker[w].pc = "plan"
        <5>1. PICK r : \/ FailWith(w, "approval")
                       \/ worker' = [worker EXCEPT ![w].pc = "failed", ![w].class = "plain",
                                                   ![w].quote = r]
                       \/ worker' = [worker EXCEPT ![w].pc = "store", ![w].quote = r]
          BY <4>2 DEF ReadPlan
        <5> QED BY <1>j, <4>2, <5>1 DEF FailWith, RunStep, TypeOK, WorkerState, ReadPlan
      <4> QED BY <4>1, <4>2
    <3> QED BY <3>1, <3>2
  <2> QED BY <1>j, <2>1, RunOwnStores DEF RunStep
<1>7. JobsInv(v)'
  <2>1. \A u \in Worker : u # w => worker'[u] = worker[u]
    BY <1>j, RunMoves DEF RunStep, Rests, Moves
  <2>2. worker'[w].pc # "done"
    <3>1. TypeOK
      BY <1>j DEF RunStep
    <3>2. CASE ActivateLease(w)
      <4>1. Moves(w, "read") \/ Moves(w, "failed")
        BY <3>1, <3>2, WorkerEffects DEF ActivateLease
      <4> QED BY <4>1 DEF Moves
    <3>3. CASE RenewLease(w)
      BY <1>2, <3>3 DEF RenewLease
    <3> QED BY <3>2, <3>3
  <2>3. \A i \in Job : JobKept(i)
    <3> SUFFICES ASSUME NEW i \in Job PROVE JobKept(i)
      OBVIOUS
    <3>1. ReportDue(i)' <=> ReportDue(i)
      BY <1>2, <2>1, <2>2, DueStill
    <3> QED BY <1>2, <3>1, StillKept
  <2> QED BY <1>2, <2>3, JobsFrame DEF VideoInv, JobsStill
<1>8. QuotesInv(v)'
  <2>1. RowOK(v)'
    BY <1>2, <1>3, <1>5 DEF RowOK
  <2>2. ASSUME NEW p \in Quote, issued'[p] = v PROVE BoundHere(p, v)'
    BY <1>2, <1>3, <1>5, <2>2 DEF VideoInv, QuotesInv, BoundHere, Settled
  <2>3. ASSUME NEW u \in Worker PROVE StoresFinal(u, v)'
    BY <1>2, <1>6, <2>3 DEF VideoInv, QuotesInv, StoresFinal, OwnStores
  <2> QED BY <2>1, <2>2, <2>3 DEF QuotesInv
<1>9. Youngest(v)'
  BY <1>2 DEF VideoInv, Youngest, Upload, Active
<1>10. Bound(v)'
  <2>1. Upload(j, v) /\ Active(j)
    BY <1>1 DEF FencedStep, Unsettled, Active, Upload
  <2>2. gw'[video'[v].approved].job = j /\ video'[v].status = "uploading"
    BY <1>2, <1>3, <1>5
  <2>3. Upload(j, v)' /\ Active(j)'
    BY <1>2, <2>1 DEF Upload, Active
  <2> QED BY <2>2, <2>3 DEF Bound
<1> QED BY <1>7, <1>8, <1>9, <1>10 DEF VideoInv

\* A plan is read that is the one approved.
LEMMA PlanSafe ==
  ASSUME BaseInv, NEW w \in Worker, ReadPlan(w), worker'[w].pc = "store", NEW v \in Video,
         v = VideoOf(w), VideoInv(v)
  PROVE  VideoInv(v)'
<1>j. PICK j \in Job : RunStep(w, v, j)
  BY RunStepFacts DEF Run
<1>1. /\ Moves(w, "store") /\ worker'[w].quote = video[v].final /\ worker[w].pc = "plan"
      /\ video[v].approved = video[v].final
      /\ UNCHANGED <<video, jobs, issued, pending, gw>>
  <2>0. /\ worker[w].pc = "plan" /\ UNCHANGED <<video, jobs, issued, pending, gw>>
        /\ TypeOK /\ v = VideoOf(w)
    BY <1>j DEF RunStep, ReadPlan
  <2>1. ~FailWith(w, "approval")
    BY <2>0, WorkerEffects DEF Moves
  <2>2. worker' # [worker EXCEPT ![w].pc = "failed", ![w].class = "plain",
                                 ![w].quote = video[v].final]
    <3> SUFFICES ASSUME worker' = [worker EXCEPT ![w].pc = "failed", ![w].class = "plain",
                                                 ![w].quote = video[v].final]
                 PROVE  FALSE
      OBVIOUS
    <3>1. Moves(w, "failed")
      BY <2>0, WorkerEffects
    <3> QED BY <3>1 DEF Moves
  <2>3. /\ worker' = [worker EXCEPT ![w].pc = "store", ![w].quote = video[v].final]
        /\ video[v].approved = video[v].final
    BY <2>0, <2>1, <2>2 DEF ReadPlan
  <2>4. Moves(w, "store") /\ worker'[w].quote = video[v].final
    BY <2>0, <2>3, WorkerEffects
  <2> QED BY <2>0, <2>3, <2>4
<1>2. GwStep /\ OwnGw(v)
  BY <1>j, <1>1, GwStill, OwnKept DEF RunStep
<1>3. JobsInv(v)'
  <2>3. \A i \in Job : JobKept(i)
    <3> SUFFICES ASSUME NEW i \in Job PROVE JobKept(i)
      OBVIOUS
    <3>1. ReportDue(i)' <=> ReportDue(i)
      BY <1>1, DueStill DEF Moves
    <3> QED BY <1>1, <3>1, StillKept
  <2> QED BY <1>1, <2>3, JobsFrame DEF VideoInv, JobsStill
<1>4. QuotesInv(v)'
  <2>1. RowOK(v)' /\ \A p \in Quote : issued'[p] = v => BoundHere(p, v)'
    BY <1>1 DEF VideoInv, QuotesInv, RowOK, BoundHere
  <2>2. ASSUME NEW u \in Worker PROVE StoresFinal(u, v)'
    <3>1. (Fenced(u)' <=> Fenced(u)) /\ VideoOf(u)' = VideoOf(u)
      <4>1. worker'[u].job = worker[u].job /\ worker'[u].gen = worker[u].gen
        BY <1>1 DEF Moves
      <4> QED BY <1>1, <4>1 DEF Fenced, VideoOf, JobOf
    <3>2. CASE u # w
      <4>1. StoresFinal(u, v) /\ worker'[u] = worker[u]
        BY <1>1, <3>2 DEF VideoInv, QuotesInv, Moves
      <4> QED BY <1>1, <3>1, <4>1 DEF StoresFinal
    <3>3. CASE u = w
      <4> SUFFICES ASSUME Fenced(w) PROVE video[v].final # None
        BY <1>1, <3>1, <3>3 DEF StoresFinal
      <4>1. FencedStep(w, j, v)
        BY <1>j, <1>1, FencedFacts DEF VideoInv, RunStep
      <4>2. jobs[j].kind = "upload"
        BY <1>j, <1>1 DEF RunStep, TypeInv, PcInv
      <4>3. video[v].status = "uploading"
        BY <4>1, <4>2 DEF FencedStep, Fits
      <4> QED BY <1>1, <4>3 DEF VideoInv, QuotesInv, RowOK
    <3> QED BY <3>2, <3>3
  <2> QED BY <2>1, <2>2 DEF QuotesInv
<1>5. RowBound(v)
  BY <1>j, <1>1, <1>2, StillBound DEF RunStep
<1>6. Youngest(v)' /\ Bound(v)'
  BY <1>j, <1>1, <1>5, MoveBound DEF VideoInv, RunStep
<1> QED BY <1>3, <1>4, <1>6 DEF VideoInv

\* A job succeeded.
LEMMA SucceededSafe ==
  ASSUME BaseInv, NEW w \in Worker, MarkSucceeded(w), NEW v \in Video, v = VideoOf(w), VideoInv(v)
  PROVE  VideoInv(v)'
<1>j. PICK j \in Job : RunStep(w, v, j)
  BY RunStepFacts DEF Run
<1>1. Fenced(w) /\ worker[w].pc = "done" /\ pending' = pending /\ gw' = gw /\ issued' = issued
  BY DEF MarkSucceeded
<1>2. Active(j) /\ ReportDue(j)
  BY <1>j, <1>1 DEF Active, ReportDue, Due, Fenced, JobOf, RunStep
<1>3. jobs' = [jobs EXCEPT ![j] = Released(jobs[j], "succeeded")] /\ Rests(w)
  BY <1>j, WorkerEffects DEF MarkSucceeded, RunStep
<1>4. /\ jobs'[j].status = "succeeded" /\ jobs'[j].kind = jobs[j].kind /\ jobs'[j].video = v
      /\ \A i \in Job : i # j => jobs'[i] = jobs[i]
  <2>1. jobs'[j] = Released(jobs[j], "succeeded") /\ \A i \in Job : i # j => jobs'[i] = jobs[i]
    BY <1>j, <1>3, JobReplaced DEF RunStep
  <2>2. jobs[j] \in JobRow /\ jobs[j].video = v
    BY <1>j DEF RunStep
  <2> QED BY <2>1, <2>2, JobEffects
<1>5. /\ video'[v].status = video[v].status /\ video'[v].final = video[v].final
      /\ video'[v].approved = video[v].approved
      /\ video'[v].files = video[v].files \/ video[v].status = "ready"
  <2>1. CASE UNCHANGED video
    BY <2>1
  <2>2. CASE video[v].status = "ready" /\ video' = [video EXCEPT ![v].files = FALSE]
    <3>1. SetsVideo(v, video[v].status, video[v].final, video[v].approved, FALSE)
      BY <1>j, <2>2, VideoEffects DEF RunStep
    <3> QED BY <2>2, <3>1 DEF SetsVideo
  <2> QED BY <1>j, <2>1, <2>2 DEF MarkSucceeded, RunStep
<1>6. GwStep /\ OwnGw(v) /\ OwnStores(v)
  <2>1. GwStep
    BY <1>j, <1>1, GwStill DEF RunStep
  <2> QED BY <1>j, <1>1, <1>3, <2>1, OwnKept, RunOwnStores DEF RunStep, Rests
<1>7. JobsInv(v)'
  <2>1. JobKept(j)
    BY <1>2, <1>4, <1>j DEF JobKept, Active, Unsettled, Uploaded, RunStep
  <2>2. \A i \in Job : JobKept(i)
    BY <1>j, <2>1, OthersKept DEF RunStep
  <2>3. \A i \in Job : jobs'[i].video = jobs[i].video
    BY <2>2 DEF JobKept
  <2> QED BY <1>1, <1>5, <2>2, <2>3, JobsFrame DEF VideoInv, JobsStill
<1>8. QuotesInv(v)'
  BY <1>j, <1>5, <1>6, RowKept, QuotesMove DEF VideoInv, RunStep, RowStill
<1>9. Youngest(v)'
  <2>1. \A i \in Job : Upload(i, v)' => Upload(i, v) /\ (Active(i)' => Active(i))
    BY <1>2, <1>4, <1>j DEF Upload, Active, RunStep
  <2> QED BY <2>1, YoungestKept DEF VideoInv
<1>10. Bound(v)'
  <2> SUFFICES ASSUME video[v].approved # None, gw[video[v].approved].job # None
               PROVE  Bound(v)'
    BY <1>1, <1>5 DEF Bound
  <2>0. /\ video[v].approved \in Quote /\ gw[video[v].approved].job \in Job
    BY <1>j, VideoEffects DEF RunStep, TypeOK, GatewayRow
  <2>1. PICK i \in Job : i = gw[video[v].approved].job
    BY <2>0
  <2>2. CASE video[v].status = "uploading"
    <3>1. Upload(i, v) /\ Active(i)
      BY <2>1, <2>2 DEF VideoInv, Bound
    <3>2. i # j
      <4>1. jobs[j].kind = "upload" => video[v].status = "ready"
        BY <1>2, <1>j DEF VideoInv, JobsInv, JobOK, Uploaded, RunStep
      <4> QED BY <2>2, <3>1, <4>1 DEF Upload
    <3>3. Upload(i, v)' /\ Active(i)'
      BY <1>4, <3>1, <3>2 DEF Upload, Active
    <3> QED BY <1>1, <1>5, <2>1, <2>2, <3>3 DEF Bound
  <2>3. CASE video[v].status = "payment_recovery_required"
    <3>1. LastFailed(v, i)
      BY <2>1, <2>3 DEF VideoInv, Bound
    <3>2. FailedUploads(v)' = FailedUploads(v)
      <4>1. ASSUME NEW k \in Job
            PROVE  (jobs'[k].status = "failed" /\ jobs'[k].kind = "upload" /\ jobs'[k].video = v)
                      <=> (jobs[k].status = "failed" /\ jobs[k].kind = "upload" /\ jobs[k].video = v)
        BY <1>2, <1>4 DEF Active
      <4> QED BY <4>1 DEF FailedUploads
    <3>3. LastFailed(v, i)'
      BY <3>1, <3>2 DEF LastFailed
    <3> QED BY <1>1, <1>5, <2>1, <2>3, <3>3 DEF Bound
  <2> QED BY <1>5, <2>2, <2>3 DEF Bound
<1> QED BY <1>7, <1>8, <1>9, <1>10 DEF VideoInv

\* The status and the quotes of a video whose job failed for good.
LEMMA FailedRow ==
  ASSUME BaseInv, NEW w \in Worker, NEW unpaid \in BOOLEAN, FailJob(w, unpaid), NEW v \in Video,
         v = VideoOf(w), VideoInv(v)
  PROVE  \/ /\ JobOf(w).kind = "upload" /\ video[v].status = "uploading"
            /\ FailedStatus(w, unpaid) = "payment_recovery_required"
         \/ /\ JobOf(w).kind = "upload" /\ video[v].status = "uploading"
            /\ FailedStatus(w, unpaid) = "approval_required"
            /\ gw' = [gw EXCEPT ![video[v].approved].phase = "cancelled"]
            /\ ~gw[video[v].approved].paid
         \/ /\ JobOf(w).kind # "upload" /\ video[v].status \in {"pending", "processing", "quoting"}
            /\ FailedStatus(w, unpaid) \in {"approval_required", "error"}
<1>b. TypeInv
  BY DEF BaseInv
<1>1. worker[w].pc = "failed" /\ Fenced(w)
  BY DEF FailJob
<1>2. Fits(JobOf(w).kind, video[v]) /\ RowOK(v)
  BY <1>1, FencedFacts DEF FencedStep, VideoInv, QuotesInv
<1>3. CASE JobOf(w).kind # "upload"
  <2>1. video[v].status \in {"pending", "processing", "quoting"}
    BY <1>2, <1>3 DEF Fits
  <2>2. ~AsksCancel(w) /\ ~NeedsRecovery(w)
    BY <1>b, <1>1, <1>3 DEF AsksCancel, NeedsRecovery, TypeInv, PcInv
  <2>3. FailedStatus(w, unpaid) \in {"approval_required", "error"}
    BY <1>3, <2>2 DEF FailedStatus
  <2> QED BY <1>3, <2>1, <2>3
<1>4. CASE JobOf(w).kind = "upload"
  <2>1. video[v].status = "uploading"
    BY <1>2, <1>4 DEF Fits
  <2>2. video[v].approved # None
    BY <1>2, <2>1 DEF RowOK
  <2>3. CASE unpaid
    <3>1. /\ AsksCancel(w) /\ ~gw[video[v].approved].paid
          /\ gw' = [gw EXCEPT ![video[v].approved].phase = "cancelled"]
      BY <2>3 DEF FailJob, Cancellable
    <3>2. FailedStatus(w, unpaid) = "approval_required"
      BY <2>3, <3>1 DEF FailedStatus, AsksCancel
    <3> QED BY <1>4, <2>1, <3>1, <3>2
  <2>4. CASE ~unpaid
    <3>1. FailedStatus(w, unpaid) = "payment_recovery_required"
      BY <1>4, <2>2, <2>4 DEF FailedStatus, AsksCancel
    <3> QED BY <1>4, <2>1, <3>1
  <2> QED BY <2>3, <2>4
<1> QED BY <1>3, <1>4

\* The last failed upload of a video is the one that failed last.
LEMMA FailsLast ==
  ASSUME BaseInv, BaseInv', NEW v \in Video, Youngest(v), NEW j \in Job, Upload(j, v), Active(j),
         jobs'[j].status = "failed", jobs'[j].kind = "upload", jobs'[j].video = v,
         \A i \in Job : i # j => jobs'[i] = jobs[i]
  PROVE  LastFailed(v, j)'
<1>1. ASSUME NEW i \in FailedUploads(v)' PROVE i <= j
  <2>1. i \in Job /\ Upload(i, v)
    BY <1>1 DEF FailedUploads, Upload
  <2> QED BY <2>1 DEF Youngest
<1> QED BY <1>1 DEF LastFailed, FailedUploads

\* A job failed for good.
LEMMA FailedSafe ==
  ASSUME BaseInv, BaseInv', NEW w \in Worker, NEW unpaid \in BOOLEAN, FailJob(w, unpaid),
         NEW v \in Video, v = VideoOf(w), VideoInv(v)
  PROVE  VideoInv(v)'
<1>j. PICK j \in Job : RunStep(w, v, j)
  BY RunStepFacts DEF Run
<1>1. Fenced(w) /\ worker[w].pc = "failed" /\ pending' = pending /\ issued' = issued
  BY DEF FailJob
<1>2. FencedStep(w, j, v)
  BY <1>j, <1>1, FencedFacts DEF VideoInv, RunStep
<1>3. jobs' = [jobs EXCEPT ![j] = Released(jobs[j], "failed")] /\ Rests(w)
  BY <1>j, WorkerEffects DEF FailJob, RunStep
<1>4. /\ jobs'[j].status = "failed" /\ jobs'[j].kind = jobs[j].kind /\ jobs'[j].video = v
      /\ \A i \in Job : i # j => jobs'[i] = jobs[i]
  <2>1. jobs'[j] = Released(jobs[j], "failed") /\ \A i \in Job : i # j => jobs'[i] = jobs[i]
    BY <1>j, <1>3, JobReplaced DEF RunStep
  <2>2. jobs[j] \in JobRow /\ jobs[j].video = v
    BY <1>j DEF RunStep
  <2> QED BY <2>1, <2>2, JobEffects
<1> DEFINE st == FailedStatus(w, unpaid)
<1>5. SetsVideo(v, st, video[v].final, video[v].approved, video[v].files)
  BY <1>j, VideoEffects DEF FailJob, RunStep
<1>6. GwStep /\ OwnGw(v) /\ OwnStores(v)
  <2>1. GwStep
    BY <1>j, ReportGw DEF RunStep
  <2> QED BY <1>j, <1>1, <1>3, <2>1, OwnKept, RunOwnStores DEF RunStep, Rests
<1>7. st \in {"payment_recovery_required", "approval_required", "error"}
  BY FailedRow
<1>8. /\ st = "payment_recovery_required" => jobs[j].kind = "upload" /\ video[v].status = "uploading"
      /\ st = "approval_required" =>
           \/ /\ video[v].status = "uploading" /\ ~gw[video[v].approved].paid
              /\ gw' = [gw EXCEPT ![video[v].approved].phase = "cancelled"]
           \/ video[v].status \in {"pending", "processing", "quoting"}
      /\ st = "error" => video[v].status \in {"pending", "processing", "quoting"}
  BY <1>j, FailedRow DEF RunStep
<1> HIDE DEF st
<1>r. RowOK(v) /\ video[v].approved \in Quote \cup {None} /\ gw \in [Quote -> GatewayRow]
  BY <1>j, VideoEffects DEF VideoInv, QuotesInv, RunStep, TypeOK
<1>9. JobsInv(v)'
  <2>1. \A i \in Job : i # j => jobs'[i] = jobs[i] /\ JobKept(i)
    BY <1>j, OthersKept DEF RunStep
  <2>2. ~Unsettled(j)' /\ ~Uploaded(j)'
    BY <1>4 DEF Unsettled, Uploaded, Active
  <2> QED BY <1>1, <1>2, <1>4, <1>5, <1>7, <2>1, <2>2, JobEnds DEF VideoInv, FencedStep, SetsVideo
<1>10. QuotesInv(v)'
  <2>1. CASE st = "payment_recovery_required"
    <3>1. RowOK(v)'
      BY <1>r, <1>5, <1>8, <2>1 DEF RowOK, SetsVideo
    <3>2. Stays(v)
      BY <1>5, <1>6, <2>1, BoundStays DEF VideoInv, Settled, SetsVideo
    <3> QED BY <1>5, <1>6, <3>1, <3>2, QuotesMove DEF VideoInv, SetsVideo
  <2>2. CASE video[v].status \in {"pending", "processing", "quoting"}
    <3>1. RowOK(v)'
      <4>1. video[v].approved = None /\ st \in {"approval_required", "error"}
        BY <1>r, <1>7, <1>8, <2>2 DEF RowOK
      <4> QED BY <1>5, <4>1 DEF RowOK, SetsVideo
    <3>2. Stays(v)
      BY <1>6, <2>2, UnboundStays DEF VideoInv, Settled
    <3> QED BY <1>5, <1>6, <3>1, <3>2, QuotesMove DEF VideoInv, SetsVideo
  <2>3. CASE /\ st = "approval_required" /\ video[v].status = "uploading"
             /\ ~gw[video[v].approved].paid
             /\ gw' = [gw EXCEPT ![video[v].approved].phase = "cancelled"]
    <3>1. video[v].approved # None /\ video[v].approved = video[v].final
          /\ video[v].approved \in Quote
      BY <1>r, <2>3 DEF RowOK
    <3>2. gw'[video[v].approved].phase = "cancelled" /\ ~gw'[video[v].approved].paid
      BY <1>r, <2>3, <3>1 DEF GatewayRow
    <3>3. RowOK(v)'
      BY <1>5, <2>3, <3>1, <3>2 DEF RowOK, SetsVideo
    <3>4. Stays(v)
      <4>1. ASSUME NEW q \in Quote, issued[q] = v, gw[q].job # None, gw'[q].phase # "cancelled"
            PROVE  FALSE
        <5>1. gw[q].phase # "cancelled"
          BY <1>6, <4>1 DEF OwnGw, GwKept
        <5>2. video[v].approved = q
          BY <4>1, <5>1 DEF VideoInv, QuotesInv, BoundHere
        <5> QED BY <3>2, <4>1, <5>2
      <4> QED BY <4>1 DEF Stays
    <3> QED BY <1>5, <1>6, <3>3, <3>4, QuotesMove DEF VideoInv, SetsVideo
  <2> QED BY <1>7, <1>8, <2>1, <2>2, <2>3
<1>11. Active(j)
  BY <1>2 DEF FencedStep, Unsettled
<1>12. Youngest(v)'
  <2>1. \A i \in Job : Upload(i, v)' => Upload(i, v) /\ (Active(i)' => Active(i))
    BY <1>4, <1>11, <1>j DEF Upload, Active, RunStep
  <2> QED BY <2>1, YoungestKept DEF VideoInv
<1>13. Bound(v)'
  <2>1. CASE st # "payment_recovery_required"
    BY <1>5, <1>7, <2>1 DEF Bound, SetsVideo
  <2>2. CASE st = "payment_recovery_required"
    <3>1. Upload(j, v)
      BY <1>8, <1>11, <1>j, <2>2 DEF Upload, Active, RunStep
    <3>2. LastFailed(v, j)'
      BY <1>4, <1>8, <1>11, <2>2, <3>1, FailsLast DEF VideoInv
    <3>3. ASSUME video[v].approved # None, gw'[video[v].approved].job # None
          PROVE  gw'[video[v].approved].job = j
      <4>1. video[v].approved \in Quote /\ issued[video[v].approved] = v
        BY <1>r, <1>j, <3>3 DEF RunStep, NamesInv, Named
      <4>2. gw'[video[v].approved].job = gw[video[v].approved].job
        BY <1>6, <4>1 DEF GwStep, GwKept
      <4>3. PICK i \in Job : i = gw[video[v].approved].job
        BY <1>r, <3>3, <4>1, <4>2 DEF GatewayRow
      <4>4. Upload(i, v) /\ Active(i)
        BY <1>8, <2>2, <3>3, <4>2, <4>3 DEF VideoInv, Bound
      <4> QED BY <1>11, <3>1, <4>2, <4>3, <4>4 DEF BaseInv, NumbersInv, OneActive, Upload
    <3>4. video'[v].status = "payment_recovery_required" /\ video'[v].approved = video[v].approved
      BY <1>5, <2>2 DEF SetsVideo
    <3> SUFFICES ASSUME video'[v].approved # None, gw'[video'[v].approved].job # None
                 PROVE  LastFailed(v, gw[video[v].approved].job)'
      BY <3>4 DEF Bound
    <3>5. gw'[video'[v].approved].job = j
      BY <3>3, <3>4
    <3> QED BY <3>2, <3>5 DEF LastFailed, FailedUploads
  <2> QED BY <2>1, <2>2
<1> QED BY <1>9, <1>10, <1>12, <1>13 DEF VideoInv

\* A run keeps the invariant of its video.
LEMMA RunSafe ==
  ASSUME BaseInv, BaseInv', NEW w \in Worker, Run(w), NEW v \in Video, VideoInv(v), Reported(v)'
  PROVE  VideoInv(v)'
<1>1. CASE v # VideoOf(w)
  BY <1>1, RunElsewhere
<1>2. CASE v = VideoOf(w)
  <2>1. CASE RetryLater(w) \/ Interrupt(w)
    BY <1>2, <2>1, RunReturns
  <2>2. CASE \/ StartJob(w) \/ ReadStatus(w) \/ BuildQuote(w) \/ PlanRefused(w) \/ StoreAdmitted(w)
             \/ LoseLease(w) \/ MarkLost(w) \/ \E c \in Class : JobFails(w, c)
    BY <1>2, <2>2, RunWorks
  <2>3. CASE StartProcessing(w)
    BY <1>2, <2>3, StartProcessingSafe
  <2>4. CASE SetAwaitingApproval(w) \/ CommitReady(w)
    BY <1>2, <2>4, CommitsSafe
  <2>5. CASE ActivateLease(w) \/ RenewLease(w)
    <3>1. CASE gw' # gw
      <4>1. Leases(w)
        BY <2>5, <3>1 DEF Leases, ActivateLease, RenewLease, Working
      <4> QED BY <1>2, <2>5, <4>1, LeasesSafe
    <3>2. CASE gw' = gw
      <4>1. TypeInv /\ TypeOK /\ NamesInv
        BY DEF BaseInv, TypeInv
      <4>2. GwStep
        BY <3>2, <4>1, GwStill
      <4>3. /\ UNCHANGED <<video, jobs>> /\ worker[w].pc \in Working
            /\ worker' = worker \/ Moves(w, "read") \/ Moves(w, "failed")
        BY <2>5, <4>1, WorkerEffects DEF ActivateLease, RenewLease, Working
      <4>4. worker[w].pc # "done" /\ worker'[w].pc # "done"
        BY <4>3 DEF Moves, Working
      <4>5. ReadPlan(w) => worker'[w].pc # "store"
        <5> SUFFICES ASSUME ReadPlan(w), worker' = worker PROVE worker'[w].pc # "store"
          BY <4>3 DEF Moves
        <5> QED BY DEF ReadPlan
      <4> QED BY <1>2, <4>2, <4>3, <4>4, <4>5, RunQuiet DEF Due
    <3> QED BY <3>1, <3>2
  <2>6. CASE ReadPlan(w) /\ ~PlanRefused(w)
    <3>1. worker'[w].pc = "store"
      <4>1. worker[w] \in WorkerState /\ worker \in [Worker -> WorkerState]
        BY DEF BaseInv, TypeInv, TypeOK
      <4>2. PICK q : \/ FailWith(w, "approval")
                     \/ worker' = [worker EXCEPT ![w].pc = "failed", ![w].class = "plain",
                                                 ![w].quote = q]
                     \/ worker' = [worker EXCEPT ![w].pc = "store", ![w].quote = q]
        BY <2>6 DEF ReadPlan
      <4>3. worker'[w].pc \in {"failed", "store"}
        BY <4>1, <4>2 DEF FailWith, WorkerState
      <4> QED BY <2>6, <4>3 DEF PlanRefused
    <3> QED BY <1>2, <2>6, <3>1, PlanSafe
  <2>7. CASE MarkSucceeded(w)
    BY <1>2, <2>7, SucceededSafe
  <2>8. CASE \E unpaid \in BOOLEAN : FailJob(w, unpaid)
    BY <1>2, <2>8, FailedSafe
  <2> QED BY <2>1, <2>2, <2>3, <2>4, <2>5, <2>6, <2>7, <2>8 DEF Run
<1> QED BY <1>1, <1>2

-----------------------------------------------------------------------------
(* Handlers.                                                               *)

\* What every handler of a video stands on.
HandlerStep(v) ==
  /\ TypeInv /\ NamesInv /\ TypeOK /\ NumbersInv /\ Handlers(v)
  /\ worker' = worker /\ issued' = issued /\ OwnGw(v) /\ OwnStores(v)
  /\ JobsInv(v) /\ QuotesInv(v) /\ RowOK(v) /\ Youngest(v) /\ Bound(v)

LEMMA HandlerFacts ==
  ASSUME BaseInv, NEW v \in Video, Handlers(v), VideoInv(v)
  PROVE  HandlerStep(v)
<1>1. GwStep /\ worker' = worker /\ issued' = issued
  BY HandlerEffects
<1>2. OwnGw(v) /\ OwnStores(v)
  BY <1>1, HandlerWorkers, OwnKept, OwnStoresKept
<1> QED BY <1>1, <1>2 DEF HandlerStep, BaseInv, TypeInv, VideoInv, QuotesInv

\* A handler that leaves the jobs alone leaves their reports alone.
LEMMA HandlerJobsStill ==
  ASSUME NEW v, worker' = worker, jobs' = jobs
  PROVE  JobsStill(v) /\ \A j \in Job : UploadKept(j, v)
<1>1. ASSUME NEW j \in Job PROVE JobKept(j)
  <2>1. ReportDue(j)' <=> ReportDue(j)
    BY DueStill
  <2> QED BY <2>1, StillKept
<1> QED BY <1>1 DEF JobsStill, UploadKept

\* A new video has no jobs.
LEMMA AcceptSafe ==
  ASSUME NEW v \in Video, HandlerStep(v), AcceptUpload(v)
  PROVE  VideoInv(v)'
<1>1. /\ video[v].status = "none" /\ worker' = worker /\ jobs' = jobs
      /\ video \in [Video -> VideoRow] /\ pending \in [Video -> SUBSET Kind]
  BY DEF AcceptUpload, HandlerStep, TypeOK
<1>2. /\ video'[v].status = "pending" /\ video'[v].files = TRUE
      /\ video'[v].final = None /\ video'[v].approved = None
  BY <1>1 DEF AcceptUpload, NoVideo
<1>3. pending[v] = {} /\ \A j \in Job : jobs[j].video # v
  <2>1. pending[v] = {}
    BY <1>1, Waiting DEF HandlerStep
  <2>2. ASSUME NEW j \in Job, jobs[j].video = v PROVE FALSE
    BY <1>1, <2>2 DEF HandlerStep, JobsInv, JobOK
  <2> QED BY <2>1, <2>2
<1>4. pending'[v] = {"process"}
  BY <1>1, <1>3 DEF AcceptUpload
<1>5. JobsInv(v)'
  BY <1>1, <1>2, <1>3, <1>4 DEF JobsInv, PendingOK, Fits
<1>6. QuotesInv(v)'
  <2>1. RowOK(v)'
    BY <1>2 DEF RowOK
  <2>2. Stays(v)
    BY <1>1, UnboundStays DEF HandlerStep, Settled
  <2>3. ASSUME NEW w \in Worker, worker[w].pc = "store", VideoOf(w) = v PROVE FALSE
    BY <1>3, <2>3, RunFacts DEF HandlerStep, VideoOf, JobOf
  <2> QED BY <2>1, <2>2, <2>3, QuotesMove DEF HandlerStep
<1>7. RowBound(v) /\ \A j \in Job : UploadKept(j, v)
  BY <1>1, <1>2 DEF RowBound, UploadKept
<1> QED BY <1>5, <1>6, <1>7, BoundKept DEF HandlerStep, VideoInv

\* A handler moves a video that waits for a person.
LEMMA HandlerMove ==
  ASSUME NEW v \in Video, HandlerStep(v), jobs' = jobs,
         video[v].status \notin {"ready", "deleted"},
         \A j \in Job : jobs[j].video = v => ~Unsettled(j),
         video'[v].status \notin {"none", "deleted"}, video'[v].final = video[v].final,
         \A k \in pending'[v] : Fits(k, video'[v]) /\ (k = "process" => video'[v].status = "pending"),
         RowOK(v)', Stays(v), RowBound(v)
  PROVE  VideoInv(v)'
<1>1. JobsStill(v) /\ \A j \in Job : UploadKept(j, v)
  BY HandlerJobsStill DEF HandlerStep
<1>2. JobsInv(v)'
  BY <1>1, QuietMove DEF HandlerStep
<1>3. QuotesInv(v)'
  BY QuotesMove DEF HandlerStep
<1>4. Youngest(v)' /\ Bound(v)'
  BY <1>1, BoundKept DEF HandlerStep
<1> QED BY <1>2, <1>3, <1>4 DEF VideoInv

\* A handler leaves the row and the jobs alone.
LEMMA HandlerStill ==
  ASSUME NEW v \in Video, HandlerStep(v), jobs' = jobs, video' = video,
         pending'[v] \subseteq pending[v]
  PROVE  VideoInv(v)'
<1>1. JobsStill(v) /\ \A j \in Job : UploadKept(j, v)
  BY HandlerJobsStill DEF HandlerStep
<1>2. RowStill(v) /\ VideoInv(v)
  BY DEF RowStill, HandlerStep, VideoInv
<1> QED BY <1>1, <1>2, VideoFrame DEF HandlerStep

LEMMA ApproveSafe ==
  ASSUME NEW v \in Video, HandlerStep(v), ApproveVideo(v)
  PROVE  VideoInv(v)'
<1>1. /\ video[v].status = "awaiting_approval" /\ video[v].files /\ jobs' = jobs
      /\ pending \in [Video -> SUBSET Kind]
  BY DEF ApproveVideo, Approvable, HandlerStep, TypeOK
<1>2. SetsVideo(v, "uploading", video[v].final, video[v].final, video[v].files)
  <2>1. TypeOK /\ video' = [video EXCEPT ![v].status = "uploading", ![v].approved = video[v].final]
    BY DEF ApproveVideo, HandlerStep
  <2> QED BY <2>1, VideoEffects
<1>3. pending[v] = {} /\ \A j \in Job : jobs[j].video = v => ~Unsettled(j)
  BY <1>1, Waiting DEF HandlerStep
<1>4. pending'[v] = {"upload"}
  BY <1>1, <1>3 DEF ApproveVideo
<1>5. video[v].final # None /\ gw[video[v].final].job = None
  BY <1>1 DEF HandlerStep, RowOK
<1>6. gw'[video[v].final].job = None
  <2>1. video[v].final \in Quote /\ issued[video[v].final] = v
    BY <1>5, VideoEffects DEF HandlerStep, NamesInv, Named
  <2> QED BY <1>5, <2>1 DEF HandlerStep, OwnGw, GwKept
<1>7. RowOK(v)'
  BY <1>1, <1>2, <1>5 DEF RowOK, SetsVideo
<1>8. Stays(v)
  BY <1>1, UnboundStays DEF HandlerStep, Settled
<1>9. RowBound(v)
  BY <1>2, <1>6 DEF RowBound, SetsVideo
<1> QED BY <1>1, <1>2, <1>3, <1>4, <1>7, <1>8, <1>9, HandlerMove DEF SetsVideo, Fits

LEMMA RequoteSafe ==
  ASSUME NEW v \in Video, HandlerStep(v), RequoteVideo(v)
  PROVE  VideoInv(v)'
<1>1. /\ video[v].status \in {"approval_required", "awaiting_approval"} /\ jobs' = jobs
      /\ pending \in [Video -> SUBSET Kind]
  BY DEF RequoteVideo, HandlerStep, TypeOK
<1>2. SetsVideo(v, "quoting", video[v].final, None, video[v].files)
  BY VideoEffects DEF RequoteVideo, HandlerStep
<1>3. pending[v] = {} /\ \A j \in Job : jobs[j].video = v => ~Unsettled(j)
  BY <1>1, Waiting DEF HandlerStep
<1>4. pending'[v] = {"quote"}
  BY <1>1, <1>3 DEF RequoteVideo
<1>5. RowOK(v)' /\ RowBound(v)
  BY <1>2 DEF RowOK, RowBound, SetsVideo
<1>6. Stays(v)
  BY <1>1, UnboundStays DEF HandlerStep, Settled
<1> QED BY <1>1, <1>2, <1>3, <1>4, <1>5, <1>6, HandlerMove DEF SetsVideo, Fits

LEMMA CleanupSafe ==
  ASSUME NEW v \in Video, HandlerStep(v), CleanupExpired(v)
  PROVE  VideoInv(v)'
<1>1. video[v].status = "awaiting_approval" /\ jobs' = jobs /\ pending' = pending
  BY DEF CleanupExpired, IsExpired
<1>2. /\ video'[v].status = "expired" /\ video'[v].final = video[v].final
      /\ video'[v].approved = video[v].approved
  BY DEF CleanupExpired, Expire, HandlerStep, TypeOK, VideoRow
<1>3. pending[v] = {} /\ \A j \in Job : jobs[j].video = v => ~Unsettled(j)
  BY <1>1, Waiting DEF HandlerStep
<1>4. RowOK(v)' /\ RowBound(v)
  BY <1>1, <1>2 DEF RowOK, RowBound, HandlerStep
<1>5. Stays(v)
  BY <1>1, UnboundStays DEF HandlerStep, Settled
<1> QED BY <1>1, <1>2, <1>3, <1>4, <1>5, HandlerMove

\* A paused upload is resumed under the job its approval is bound to.
LEMMA ResumeSafe ==
  ASSUME NEW v \in Video, HandlerStep(v), ResumeVideo(v)
  PROVE  VideoInv(v)'
<1>1. /\ video[v].status = "payment_recovery_required" /\ ~HasActive("upload", v)
      /\ gw' = gw /\ pending' = pending
  BY DEF ResumeVideo
<1>2. SetsVideo(v, "uploading", video[v].final, video[v].approved, video[v].files)
  BY VideoEffects DEF ResumeVideo, HandlerStep
<1>3. PICK j \in Job : LastFailed(v, j) /\ jobs' = [jobs EXCEPT ![j] = Resumed(jobs[j])]
  BY DEF ResumeVideo
<1>4. jobs[j] \in JobRow /\ jobs[j].status = "failed" /\ jobs[j].kind = "upload" /\ jobs[j].video = v
  BY <1>3 DEF LastFailed, FailedUploads, HandlerStep, TypeOK
<1>5. /\ jobs'[j].status = "queued" /\ jobs'[j].kind = "upload" /\ jobs'[j].video = v
      /\ \A i \in Job : i # j => jobs'[i] = jobs[i]
  <2>1. jobs'[j] = Resumed(jobs[j]) /\ \A i \in Job : i # j => jobs'[i] = jobs[i]
    BY <1>3, JobReplaced DEF HandlerStep
  <2> QED BY <1>4, <2>1, JobEffects
<1>6. pending[v] = {} /\ \A i \in Job : jobs[i].video = v => ~Unsettled(i)
  BY <1>1, Waiting DEF HandlerStep
<1>7. video[v].files /\ video[v].approved # None /\ video[v].approved = video[v].final
  BY <1>1 DEF HandlerStep, RowOK
<1>8. JobsInv(v)'
  <2>1. \A i \in Job : i # j => JobKept(i)
    <3> SUFFICES ASSUME NEW i \in Job, i # j PROVE JobKept(i)
      OBVIOUS
    <3>1. ReportDue(i)' <=> ReportDue(i)
      BY <1>5, DueStill DEF HandlerStep
    <3> QED BY <1>5, <3>1, StillKept
  <2>2. \A i \in Job : i # j /\ jobs'[i].video = v => jobs[i].video = v /\ JobKept(i)
    BY <1>5, <2>1
  <2>3. Fits(jobs'[j].kind, video'[v])
    BY <1>2, <1>5 DEF Fits, SetsVideo
  <2> QED BY <1>1, <1>5, <1>6, <2>2, <2>3, JobStarts DEF HandlerStep
<1>9. QuotesInv(v)'
  <2>1. RowOK(v)'
    BY <1>2, <1>7 DEF RowOK, SetsVideo
  <2>2. Stays(v)
    BY <1>2, BoundStays DEF HandlerStep, Settled, SetsVideo
  <2> QED BY <1>2, <2>1, <2>2, QuotesMove DEF HandlerStep, SetsVideo
<1>10. ASSUME NEW i \in Job, Upload(i, v) PROVE i \in FailedUploads(v)
  <2>1. JobOK(i, v) /\ jobs[i] \in JobRow /\ ~Active(i)
    BY <1>1, <1>10 DEF HandlerStep, TypeOK, JobsInv, HasActive, Upload
  <2>2. jobs[i].status \notin {"succeeded", "deleted"}
    BY <1>1, <1>10, <2>1 DEF JobOK, Upload, Uploaded
  <2> QED BY <1>10, <2>1, <2>2 DEF FailedUploads, Upload, JobRow, JobStatus, Active
<1>11. Youngest(v)'
  <2> SUFFICES ASSUME NEW i \in Job, NEW h \in Job, Upload(i, v)', Upload(h, v)', Active(h)'
               PROVE  i <= h
    BY DEF Youngest
  <2>1. h = j
    BY <1>1, <1>5 DEF HasActive, Upload, Active
  <2>2. Upload(i, v)
    BY <1>4, <1>5 DEF Upload
  <2> QED BY <1>3, <1>10, <2>1, <2>2 DEF LastFailed
<1>12. Bound(v)'
  <2>1. ASSUME gw[video[v].approved].job # None PROVE gw[video[v].approved].job = j
    <3>1. LastFailed(v, gw[video[v].approved].job)
      BY <1>1, <1>7, <2>1 DEF HandlerStep, Bound
    <3> QED BY <1>3, <3>1 DEF LastFailed, FailedUploads, Job
  <2>2. Upload(j, v)' /\ Active(j)'
    BY <1>5 DEF Upload, Active
  <2> SUFFICES ASSUME gw'[video'[v].approved].job # None
               PROVE  Upload(gw[video[v].approved].job, v)' /\ Active(gw[video[v].approved].job)'
    BY <1>2 DEF Bound, SetsVideo
  <2>3. gw'[video'[v].approved].job = j
    BY <1>1, <1>2, <2>1 DEF SetsVideo
  <2> QED BY <2>2, <2>3 DEF Upload, Active
<1> QED BY <1>8, <1>9, <1>11, <1>12 DEF VideoInv

\* A deleted video takes its jobs along.
LEMMA DeleteSafe ==
  ASSUME NEW v \in Video, HandlerStep(v), DeleteVideo(v)
  PROVE  VideoInv(v)'
<1>1. SetsVideo(v, "deleted", video[v].final, video[v].approved, FALSE)
  BY VideoEffects DEF DeleteVideo, HandlerStep
<1>2. ASSUME NEW j \in Job, jobs'[j].video = v PROVE jobs'[j].status = "deleted"
  <2>1. jobs[j] \in JobRow
    BY DEF HandlerStep, TypeOK
  <2>2. CASE jobs[j].video = v
    BY <2>1, <2>2 DEF DeleteVideo, JobRow
  <2>3. CASE jobs[j].video # v
    BY <1>2, <2>3 DEF DeleteVideo
  <2> QED BY <2>2, <2>3
<1>3. JobsInv(v)'
  <2>1. ASSUME NEW j \in Job, jobs'[j].video = v PROVE JobOK(j, v)'
    BY <1>1, <1>2, <2>1 DEF JobOK, Unsettled, Uploaded, Active, SetsVideo
  <2>2. PendingOK(v)'
    BY <1>1 DEF PendingOK, SetsVideo
  <2> QED BY <2>1, <2>2 DEF JobsInv
<1>4. QuotesInv(v)'
  <2>1. RowOK(v)'
    BY <1>1 DEF HandlerStep, RowOK, SetsVideo
  <2>2. Stays(v)
    BY <1>1, BoundStays DEF HandlerStep, Settled, SetsVideo
  <2> QED BY <1>1, <2>1, <2>2, QuotesMove DEF HandlerStep, SetsVideo
<1>5. Youngest(v)' /\ Bound(v)'
  BY <1>1, <1>2 DEF Youngest, Bound, Upload, Active, SetsVideo
<1> QED BY <1>3, <1>4, <1>5 DEF VideoInv

\* A handler enqueues the one job its video waits for.
LEMMA EnqueueSafe ==
  ASSUME NEW v \in Video, NEW k \in Kind, HandlerStep(v), Enqueue(v, k)
  PROVE  VideoInv(v)'
<1>1. /\ k \in pending[v] /\ video[v].status # "deleted" /\ video' = video /\ gw' = gw
      /\ pending'[v] = pending[v] \ {k}
  BY DEF Enqueue, HandlerStep, TypeOK
<1>2. CASE jobs' = jobs
  BY <1>1, <1>2, HandlerStill
<1>3. ASSUME NEW j \in Job, ~HasActive(k, v), NextJob(j), jobs' = [jobs EXCEPT ![j] = NewJob(k, v)]
      PROVE  VideoInv(v)'
  <2>1. /\ jobs[j].status = "none" /\ jobs[j].video = None
        /\ jobs'[j].status = "queued" /\ jobs'[j].kind = k /\ jobs'[j].video = v
        /\ \A i \in Job : i # j => jobs'[i] = jobs[i]
    <3>1. jobs'[j] = NewJob(k, v) /\ \A i \in Job : i # j => jobs'[i] = jobs[i]
      BY <1>3, JobReplaced DEF HandlerStep
    <3>2. NewJob(k, v).status = "queued" /\ NewJob(k, v).kind = k /\ NewJob(k, v).video = v
      BY DEF NewJob, NoJob
    <3> QED BY <1>3, <3>1, <3>2 DEF NextJob, Unused, HandlerStep, NumbersInv, Unowned
  <2>2. /\ Fits(k, video[v]) /\ \A i \in Job : jobs[i].video = v => ~Unsettled(i)
        /\ \A h \in pending[v] : Fits(h, video[v])
    BY <1>1 DEF HandlerStep, JobsInv, PendingOK
  <2>3. pending'[v] = {} /\ video[v].status \notin {"ready", "deleted"}
    BY <1>1, <2>2 DEF Fits
  <2>4. JobsInv(v)'
    <3>1. \A i \in Job : i # j => JobKept(i)
      <4> SUFFICES ASSUME NEW i \in Job, i # j PROVE JobKept(i)
        OBVIOUS
      <4>1. ReportDue(i)' <=> ReportDue(i)
        BY <2>1, DueStill DEF HandlerStep
      <4> QED BY <2>1, <4>1, StillKept
    <3>2. \A i \in Job : i # j /\ jobs'[i].video = v => jobs[i].video = v /\ JobKept(i)
      BY <2>1, <3>1
    <3>3. Fits(jobs'[j].kind, video'[v])
      BY <1>1, <2>1, <2>2
    <3> QED BY <2>1, <2>2, <2>3, <3>2, <3>3, JobStarts DEF HandlerStep
  <2>5. QuotesInv(v)'
    BY <1>1, RowKept, QuotesMove DEF HandlerStep, RowStill
  <2>6. CASE k # "upload"
    <3>1. \A i \in Job : UploadKept(i, v)
      BY <2>1, <2>6 DEF UploadKept, Upload
    <3>2. RowBound(v)
      BY <1>1 DEF RowBound
    <3> QED BY <2>4, <2>5, <3>1, <3>2, BoundKept DEF HandlerStep, VideoInv
  <2>7. CASE k = "upload"
    <3>1. Youngest(v)'
      BY <1>3, <2>1, <2>7, NewYoungest DEF HandlerStep
    <3>2. video[v].status = "uploading"
      BY <2>2, <2>7 DEF Fits
    <3>3. ASSUME video[v].approved # None, gw[video[v].approved].job # None PROVE FALSE
      <4>1. /\ gw[video[v].approved].job \in Job
            /\ Upload(gw[video[v].approved].job, v) /\ Active(gw[video[v].approved].job)
        BY <3>2, <3>3, VideoEffects DEF HandlerStep, Bound, TypeOK, GatewayRow
      <4> QED BY <1>3, <2>7, <4>1 DEF HasActive, Upload
    <3>4. Bound(v)'
      BY <1>1, <3>3 DEF Bound
    <3> QED BY <2>4, <2>5, <3>1, <3>4 DEF VideoInv
  <2> QED BY <2>6, <2>7
<1> QED BY <1>2, <1>3 DEF Enqueue

\* A handler whose insert fails leaves the video as it was committed, or gives it up.
LEMMA EnqueueFailsSafe ==
  ASSUME NEW v \in Video, NEW k \in Kind, HandlerStep(v), EnqueueFails(v, k)
  PROVE  VideoInv(v)'
<1>1. k \in pending[v] /\ jobs' = jobs /\ pending'[v] = pending[v] \ {k}
  BY DEF EnqueueFails, HandlerStep, TypeOK
<1>2. CASE video' = video
  BY <1>1, <1>2, HandlerStill
<1>3. CASE k = "process" /\ video[v].status # "deleted"
  <2>1. /\ Fits("process", video[v]) /\ video[v].status = "pending"
        /\ \A i \in Job : jobs[i].video = v => ~Unsettled(i)
        /\ \A h \in pending[v] : Fits(h, video[v])
    BY <1>1, <1>3 DEF HandlerStep, JobsInv, PendingOK
  <2>2. pending'[v] = {}
    BY <1>1, <1>3, <2>1 DEF Fits
  <2>3. PICK st \in {video[v].status, "error"}, f \in {video[v].files, FALSE} :
          SetsVideo(v, st, video[v].final, video[v].approved, f)
    BY <1>3, VideoEffects DEF EnqueueFails, HandlerStep
  <2>4. RowOK(v)' /\ RowBound(v)
    BY <2>1, <2>3 DEF RowOK, RowBound, HandlerStep, SetsVideo
  <2>5. Stays(v)
    BY <2>1, UnboundStays DEF HandlerStep, Settled
  <2> QED BY <1>1, <2>1, <2>2, <2>3, <2>4, <2>5, HandlerMove DEF SetsVideo
<1> QED BY <1>2, <1>3 DEF EnqueueFails

\* A handler keeps the invariant of every video.
LEMMA HandlerSafe ==
  ASSUME BaseInv, NEW u \in Video, Handlers(u), NEW v \in Video, VideoInv(v)
  PROVE  VideoInv(v)'
<1>1. CASE v # u
  BY <1>1, HandlerElsewhere
<1>2. CASE v = u
  <2>1. HandlerStep(v)
    BY <1>2, HandlerFacts
  <2>2. ASSUME ApproveLost(v) PROVE VideoInv(v)'
    BY <2>1, <2>2, HandlerStill DEF ApproveLost
  <2> QED BY <1>2, <2>1, <2>2, AcceptSafe, ApproveSafe, RequoteSafe, CleanupSafe, ResumeSafe,
             DeleteSafe, EnqueueSafe, EnqueueFailsSafe DEF Handlers
<1> QED BY <1>1, <1>2

-----------------------------------------------------------------------------
(* Claims, time and restarts.                                              *)

\* A claim keeps the invariant of every video.
LEMMA AcquireSafe ==
  ASSUME BaseInv, NEW w \in Worker, NEW j \in Job, AcquireJob(w, j), NEW v \in Video, VideoInv(v)
  PROVE  VideoInv(v)'
<1>1. TypeInv /\ NamesInv
  BY DEF BaseInv
<1>2. /\ UNCHANGED <<video, pending>> /\ OwnGw(v) /\ OwnStores(v)
  BY <1>1, AcquireStill, OwnKept, OwnStoresKept
<1>3. Active(j) /\ Active(j)' /\ ~ReportDue(j)
  BY <1>1, AcquireEffects DEF Active, ReportDue, Due
<1>4. ~ReportDue(j)'
  <2>1. ASSUME NEW u \in Worker, worker'[u].job = j, worker'[u].pc = "done", Fenced(u)'
        PROVE  FALSE
    <3>1. jobs'[j].owner = u
      BY <2>1 DEF Fenced, JobOf
    <3> QED BY <1>1, <2>1, <3>1, AcquireEffects
  <2> QED BY <2>1 DEF ReportDue, Due
<1>5. JobKept(j) /\ UploadKept(j, v)
  BY <1>1, <1>3, <1>4, ActiveKept, AcquireEffects DEF UploadKept
<1>6. ASSUME NEW i \in Job, i # j PROVE jobs'[i] = jobs[i] /\ JobKept(i) /\ UploadKept(i, v)
  <2>1. jobs'[i] = jobs[i]
    BY <1>1, <1>6, AcquireEffects
  <2>2. ReportDue(i)' <=> ReportDue(i)
    BY <1>1, <2>1, AcquireEffects, DueStill
  <2> QED BY <2>1, <2>2, StillKept DEF UploadKept
<1>7. JobsStill(v)
  BY <1>1, <1>5, <1>6, AcquireEffects DEF JobsStill
<1> QED BY <1>1, <1>2, <1>5, <1>6, <1>7, VideoFrame DEF RowStill

\* Time and the gateway keep the invariant of a video of which no report is lost.
LEMMA EnvironmentSafe ==
  ASSUME BaseInv, NEW v \in Video, VideoInv(v), Reported(v)',
         \/ \E j \in Job : LeaseLapses(j) \/ RetryDue(j)
         \/ \E q \in Quote : QuoteExpires(q) \/ Gateway(q)
  PROVE  VideoInv(v)'
<1>1. TypeInv /\ NamesInv /\ jobs \in [Job -> JobRow]
  BY DEF BaseInv, TypeInv, TypeOK
<1>2. UNCHANGED <<video, worker, pending>> /\ OwnGw(v) /\ OwnStores(v)
  BY <1>1, EnvironmentEffects, OwnKept, OwnStoresKept
<1>3. ASSUME jobs' = jobs PROVE VideoInv(v)'
  BY <1>1, <1>2, <1>3, HandlerJobsStill, VideoFrame DEF RowStill
<1>4. ASSUME NEW j \in Job, LeaseLapses(j) \/ RetryDue(j) PROVE VideoInv(v)'
  <2>1. /\ jobs'[j].kind = jobs[j].kind /\ jobs'[j].video = jobs[j].video
        /\ jobs'[j].status = jobs[j].status /\ Active(j)
        /\ jobs[j].status = "queued" \/ (~jobs'[j].live /\ LeaseLapses(j))
        /\ \A i \in Job : i # j => jobs'[i] = jobs[i]
    <3>1. CASE LeaseLapses(j)
      BY <1>1, <3>1 DEF LeaseLapses, JobRow, Active
    <3>2. CASE RetryDue(j)
      BY <1>1, <3>2 DEF RetryDue, JobRow, Active
    <3> QED BY <1>4, <3>1, <3>2
  <2>2. jobs[j].video = v => ~ReportDue(j)
    <3>1. CASE jobs[j].status = "queued"
      BY <3>1 DEF ReportDue, Due, Fenced, JobOf
    <3>2. CASE LeaseLapses(j)
      <4> SUFFICES ASSUME jobs[j].video = v, NEW w \in Worker, worker[w].job = j, Due(w)
                   PROVE  FALSE
        BY DEF ReportDue
      <4>1. VideoOf(w) = v
        BY DEF VideoOf, JobOf
      <4> QED BY <3>2, <4>1 DEF LeaseLapses, LosesReports, Reported
    <3> QED BY <2>1, <3>1, <3>2
  <2>3. ~ReportDue(j)'
    BY <2>1 DEF ReportDue, Due, Fenced, JobOf
  <2>4. UploadKept(j, v) /\ (jobs[j].video = v => JobKept(j))
    BY <2>1, <2>2, <2>3, ActiveKept DEF UploadKept, Active
  <2>5. ASSUME NEW i \in Job, i # j PROVE jobs'[i] = jobs[i] /\ JobKept(i) /\ UploadKept(i, v)
    <3>1. jobs'[i] = jobs[i]
      BY <2>1, <2>5
    <3>2. ReportDue(i)' <=> ReportDue(i)
      BY <1>2, <3>1, DueStill
    <3> QED BY <3>1, <3>2, StillKept DEF UploadKept
  <2>6. JobsStill(v)
    BY <2>1, <2>4, <2>5 DEF JobsStill
  <2> QED BY <1>1, <1>2, <2>4, <2>5, <2>6, VideoFrame DEF RowStill
<1> QED BY <1>3, <1>4 DEF QuoteExpires, Gateway

\* What a restart does to a video of which no report is lost, and to its jobs.
LEMMA RestartFacts ==
  ASSUME BaseInv, BaseInv', Restart, NEW v \in Video, VideoInv(v), Reported(v)'
  PROVE  /\ \A j \in Job : jobs[j].video = v => ~ReportDue(j)
         /\ \A j \in Job : ~ReportDue(j)'
         /\ \A j \in Job : jobs[j].status # "none" =>
              /\ jobs'[j].kind = jobs[j].kind /\ jobs'[j].video = jobs[j].video
              /\ (Active(j)' <=> Active(j)) /\ jobs'[j].status # "none"
              /\ ~Active(j) => jobs'[j].status = jobs[j].status
         /\ \A j \in Job : jobs[j].status = "none" /\ jobs'[j].video = v =>
              /\ jobs'[j].status = "queued" /\ Fits(jobs'[j].kind, video[v])
              /\ ~HasActive(jobs'[j].kind, v)
         /\ \A k : Fits(k, video[v]) => video'[v] = video[v]
         /\ \/ video'[v] = video[v]
            \/ /\ video[v].status \in {"awaiting_approval", "pending", "processing"}
               /\ video'[v].status \in {"expired", "error"}
<1>1. TypeInv /\ NamesInv /\ NumbersInv /\ TypeInv'
  BY DEF BaseInv
<1>2. ASSUME NEW j \in Job, jobs[j].video = v PROVE ~ReportDue(j)
  <2> SUFFICES ASSUME NEW w \in Worker, worker[w].job = j, Due(w) PROVE FALSE
    BY DEF ReportDue
  <2>1. VideoOf(w) = v
    BY <1>2 DEF VideoOf, JobOf
  <2> QED BY <2>1 DEF Restart, LosesReports, Reported
<1>3. \A j \in Job : ~ReportDue(j)'
  BY <1>1, RestartStill DEF ReportDue, Due
<1>4. ASSUME NEW j \in Job, jobs[j].status # "none"
      PROVE  /\ jobs'[j].kind = jobs[j].kind /\ jobs'[j].video = jobs[j].video
             /\ (Active(j)' <=> Active(j)) /\ jobs'[j].status # "none"
             /\ ~Active(j) => jobs'[j].status = jobs[j].status
  <2>1. /\ jobs'[j].kind = jobs[j].kind /\ jobs'[j].video = jobs[j].video
        /\ (Active(j)' <=> Active(j))
        /\ ~Active(j) => jobs'[j].status = jobs[j].status
    BY <1>1, <1>4, RestartNumbers
  <2>2. Active(j)' => jobs'[j].status # "none"
    BY DEF Active
  <2> QED BY <1>4, <2>1, <2>2
<1>5. ASSUME NEW j \in Job, jobs[j].status = "none", jobs'[j].video = v
      PROVE  /\ jobs'[j].status = "queued" /\ Fits(jobs'[j].kind, video[v])
             /\ ~HasActive(jobs'[j].kind, v)
  <2>1. jobs'[j] # jobs[j]
    <3>1. jobs[j].video = None /\ None \notin Video
      BY <1>1, <1>5, LifecycleAssumption DEF NumbersInv, Unowned
    <3> QED BY <1>5, <3>1
  <2>2. PICK u \in Video : NeedsJob(u) /\ jobs'[j] = NewJob(RecoveryKind(video[u].status), u)
    BY <1>1, <1>5, <2>1, RestartNumbers
  <2>3. /\ NewJob(RecoveryKind(video[u].status), u).status = "queued"
        /\ NewJob(RecoveryKind(video[u].status), u).video = u
        /\ NewJob(RecoveryKind(video[u].status), u).kind = RecoveryKind(video[u].status)
    BY DEF NewJob, NoJob
  <2>4. /\ Fits(RecoveryKind(video[u].status), video[u])
        /\ ~HasActive(RecoveryKind(video[u].status), u)
    BY <2>2 DEF NeedsJob, Interrupted, Unrecoverable, RecoveryKind, Fits
  <2> QED BY <1>5, <2>2, <2>3, <2>4
<1>6. ASSUME NEW k, Fits(k, video[v]) PROVE video'[v] = video[v]
  <2>1. ~IsExpired(v) /\ ~Unrecoverable(v)
    BY <1>6 DEF Fits, IsExpired, Unrecoverable
  <2> QED BY <1>1, <2>1, RestartStill
<1>7. \/ video'[v] = video[v]
      \/ /\ video[v].status \in {"awaiting_approval", "pending", "processing"}
         /\ video'[v].status \in {"expired", "error"}
  BY <1>1, RestartStill DEF IsExpired, Unrecoverable
<1> QED BY <1>2, <1>3, <1>4, <1>5, <1>6, <1>7

\* A restart keeps the invariant of a video of which no report is lost.
LEMMA RestartSafe ==
  ASSUME BaseInv, BaseInv', Restart, NEW v \in Video, VideoInv(v), Reported(v)'
  PROVE  VideoInv(v)'
<1>1. /\ TypeInv /\ NamesInv /\ NumbersInv /\ NumbersInv' /\ Job \subseteq Int
      /\ video[v] \in VideoRow /\ gw \in [Quote -> GatewayRow]
  BY DEF BaseInv, TypeInv, TypeOK, Job
<1>2. /\ UNCHANGED <<issued, gw>> /\ OwnGw(v) /\ OwnStores(v) /\ pending'[v] = {}
      /\ video'[v].final = video[v].final /\ video'[v].approved = video[v].approved
  BY <1>1, RestartStill, OwnKept, OwnStoresKept
<1>3. /\ \A j \in Job : jobs[j].video = v => ~ReportDue(j)
      /\ \A j \in Job : ~ReportDue(j)'
  BY RestartFacts
<1>4. \A j \in Job : jobs[j].status # "none" =>
        /\ jobs'[j].kind = jobs[j].kind /\ jobs'[j].video = jobs[j].video
        /\ (Active(j)' <=> Active(j)) /\ jobs'[j].status # "none"
        /\ ~Active(j) => jobs'[j].status = jobs[j].status
  BY RestartFacts
<1>5. \A j \in Job : jobs[j].status = "none" /\ jobs'[j].video = v =>
        /\ jobs'[j].status = "queued" /\ Fits(jobs'[j].kind, video[v])
        /\ ~HasActive(jobs'[j].kind, v)
  BY RestartFacts
<1>6. /\ \A k : Fits(k, video[v]) => video'[v] = video[v]
      /\ \/ video'[v] = video[v]
         \/ /\ video[v].status \in {"awaiting_approval", "pending", "processing"}
            /\ video'[v].status \in {"expired", "error"}
  BY RestartFacts
<1>7. JobsInv(v)'
  <2>1. ASSUME NEW j \in Job, jobs'[j].video = v, jobs[j].status = "none" PROVE JobOK(j, v)'
    <3>1. jobs'[j].status = "queued" /\ Fits(jobs'[j].kind, video[v])
      BY <1>5, <2>1
    <3>2. video'[v] = video[v] /\ video[v].status \notin {"none", "deleted"}
      BY <1>6, <3>1 DEF Fits
    <3> QED BY <1>3, <3>1, <3>2 DEF JobOK, Uploaded
  <2>2. ASSUME NEW j \in Job, jobs'[j].video = v, jobs[j].status # "none" PROVE JobOK(j, v)'
    <3>1. /\ jobs'[j].kind = jobs[j].kind /\ jobs[j].video = v
          /\ (Active(j)' <=> Active(j)) /\ jobs'[j].status # "none"
          /\ ~Active(j) => jobs'[j].status = jobs[j].status
      BY <1>4, <2>2
    <3>2. JobOK(j, v) /\ ~ReportDue(j) /\ ~ReportDue(j)'
      BY <1>3, <3>1 DEF VideoInv, JobsInv
    <3>3. CASE Active(j)
      <4>1. Fits(jobs[j].kind, video[v])
        BY <3>2, <3>3 DEF JobOK, Unsettled
      <4>2. video'[v] = video[v] /\ video[v].status \notin {"none", "deleted"}
        BY <1>6, <4>1 DEF Fits
      <4> QED BY <3>1, <3>2, <3>3, <4>1, <4>2 DEF JobOK, Active, Uploaded
    <3>4. CASE ~Active(j)
      <4>1. jobs'[j].status = jobs[j].status /\ ~Active(j)'
        BY <3>1, <3>4
      <4>2. /\ video'[v].status \in {"none", "deleted"} => video[v].status \in {"none", "deleted"}
            /\ video[v].status \in {"ready", "deleted"} => video'[v] = video[v]
        BY <1>6
      <4> QED BY <2>2, <3>1, <3>2, <4>1, <4>2 DEF JobOK, Unsettled, Uploaded
    <3> QED BY <3>3, <3>4
  <2> QED BY <1>2, <2>1, <2>2 DEF JobsInv, PendingOK
<1>8. QuotesInv(v)'
  <2>1. CASE video'[v] = video[v]
    BY <1>1, <1>2, <2>1, RowKept, QuotesMove DEF VideoInv, RowStill
  <2>2. CASE /\ video[v].status \in {"awaiting_approval", "pending", "processing"}
             /\ video'[v].status \in {"expired", "error"}
    <3>1. RowOK(v)'
      BY <1>2, <2>2 DEF VideoInv, QuotesInv, RowOK
    <3>2. Stays(v)
      BY <1>2, <2>2, UnboundStays DEF VideoInv, Settled
    <3> QED BY <1>2, <3>1, <3>2, QuotesMove DEF VideoInv
  <2> QED BY <1>6, <2>1, <2>2
<1>9. ASSUME NEW j \in Job, jobs[j].status = "none", Upload(j, v)'
      PROVE  ~HasActive("upload", v) /\ jobs'[j].status = "queued"
  BY <1>5, <1>9 DEF Upload
<1>10. ASSUME NEW j \in Job, jobs[j].status # "none"
       PROVE  /\ (Upload(j, v)' <=> Upload(j, v)) /\ (Active(j)' <=> Active(j))
              /\ (jobs'[j].status = "failed" <=> jobs[j].status = "failed")
  <2>1. /\ jobs'[j].kind = jobs[j].kind /\ jobs'[j].video = jobs[j].video
        /\ (Active(j)' <=> Active(j)) /\ jobs'[j].status # "none"
        /\ ~Active(j) => jobs'[j].status = jobs[j].status
    BY <1>4, <1>10
  <2> QED BY <1>10, <2>1 DEF Upload, Active
<1>11. Youngest(v)'
  <2> SUFFICES ASSUME NEW i \in Job, NEW j \in Job, Upload(i, v)', Upload(j, v)', Active(j)'
               PROVE  i <= j
    BY DEF Youngest
  <2>1. CASE jobs[i].status = "none" /\ jobs[j].status = "none"
    <3>1. Active(i)'
      BY <1>9, <2>1 DEF Active
    <3>2. i = j
      BY <1>1, <3>1 DEF NumbersInv, OneActive, Upload
    <3> QED BY <1>1, <3>2
  <2>2. CASE jobs[i].status # "none" /\ jobs[j].status = "none"
    <3>1. ~(j < i)
      BY <1>1, <2>2 DEF NumbersInv, NoGaps
    <3> QED BY <1>1, <3>1
  <2>3. CASE jobs[j].status # "none"
    <3>1. Upload(j, v) /\ Active(j)
      BY <1>10, <2>3
    <3>2. jobs[i].status # "none"
      BY <1>9, <3>1 DEF HasActive, Upload
    <3>3. Upload(i, v)
      BY <1>10, <3>2
    <3> QED BY <3>1, <3>3 DEF VideoInv, Youngest
  <2> QED BY <2>1, <2>2, <2>3
<1>12. Bound(v)'
  <2>1. CASE /\ video'[v] = video[v] /\ video[v].approved # None
             /\ gw[video[v].approved].job # None
    <3>1. PICK i \in Job : i = gw[video[v].approved].job
      BY <1>1, <2>1 DEF VideoRow, GatewayRow
    <3>2. CASE video[v].status = "uploading"
      <4>1. Upload(i, v) /\ Active(i)
        BY <2>1, <3>1, <3>2 DEF VideoInv, Bound
      <4>2. Upload(i, v)' /\ Active(i)'
        BY <1>10, <4>1 DEF Upload
      <4> QED BY <1>2, <2>1, <3>1, <3>2, <4>2 DEF Bound
    <3>3. CASE video[v].status = "payment_recovery_required"
      <4>1. FailedUploads(v)' = FailedUploads(v)
        <5>1. ASSUME NEW j \in Job PROVE j \in FailedUploads(v)' <=> j \in FailedUploads(v)
          <6>1. CASE jobs[j].status = "none"
            BY <1>9, <6>1 DEF FailedUploads, Upload
          <6>2. CASE jobs[j].status # "none"
            BY <1>10, <6>2 DEF FailedUploads, Upload
          <6> QED BY <6>1, <6>2
        <5>2. FailedUploads(v) \subseteq Job /\ FailedUploads(v)' \subseteq Job
          BY DEF FailedUploads
        <5> QED BY <5>1, <5>2
      <4>2. LastFailed(v, i)
        BY <2>1, <3>1, <3>3 DEF VideoInv, Bound
      <4>3. LastFailed(v, i)'
        BY <4>1, <4>2 DEF LastFailed
      <4> QED BY <1>2, <2>1, <3>1, <3>3, <4>3 DEF Bound
    <3> QED BY <1>2, <2>1, <3>2, <3>3 DEF Bound
  <2> QED BY <1>2, <1>6, <2>1 DEF Bound
<1> QED BY <1>7, <1>8, <1>11, <1>12 DEF VideoInv

-----------------------------------------------------------------------------
(* The invariant.                                                          *)

\* The invariant holds at first.
LEMMA SafetyInit == Init => IInv
<1> SUFFICES ASSUME Init PROVE IInv
  OBVIOUS
<1>1. TypeInv
  BY InitTypes
<1>2. /\ \A v \in Video : video[v] = NoVideo /\ pending[v] = {}
      /\ \A j \in Job : jobs[j] = NoJob
      /\ \A q \in Quote : gw[q] = NoApproval /\ issued[q] = None
      /\ \A w \in Worker : worker[w] = IdleWorker
  BY DEF Init
<1>3. NumbersInv
  BY <1>2 DEF NumbersInv, NoGaps, Unowned, OneActive, Active, NoJob
<1>4. NamesInv
  BY <1>2 DEF NamesInv, Named, Prepared, Fresh, NoVideo, NoApproval, IdleWorker
<1>5. ASSUME NEW v \in Video PROVE VideoInv(v)
  <2>1. JobsInv(v)
    <3>1. \A j \in Job : jobs[j].video = None
      BY <1>2 DEF NoJob
    <3>2. \A j \in Job : jobs[j].video # v
      BY <3>1, LifecycleAssumption
    <3>3. PendingOK(v)
      BY <1>2 DEF PendingOK
    <3> QED BY <3>2, <3>3 DEF JobsInv
  <2>2. QuotesInv(v)
    <3>1. RowOK(v)
      BY <1>2 DEF RowOK, NoVideo
    <3>2. \A q \in Quote : BoundHere(q, v)
      BY <1>2 DEF BoundHere, NoApproval
    <3>3. \A w \in Worker : StoresFinal(w, v)
      BY <1>2 DEF StoresFinal, IdleWorker
    <3> QED BY <3>1, <3>2, <3>3 DEF QuotesInv
  <2>3. Youngest(v) /\ Bound(v)
    BY <1>2 DEF Youngest, Bound, Upload, NoJob, NoVideo
  <2> QED BY <2>1, <2>2, <2>3 DEF VideoInv
<1> QED BY <1>1, <1>3, <1>4, <1>5 DEF IInv, BaseInv

\* A lost report is never forgotten.
LEMMA ReportsLost ==
  ASSUME [Next]_vars
  PROVE  unreported \subseteq unreported'
<1>1. CASE UNCHANGED unreported
  BY <1>1
<1>2. ASSUME NEW ws, LosesReports(ws) PROVE unreported \subseteq unreported'
  BY <1>2 DEF LosesReports
<1>3. CASE \E v \in Video : Handlers(v)
  BY <1>1, <1>3 DEF Handlers, AcceptUpload, ApproveVideo, ApproveLost, RequoteVideo, ResumeVideo,
     DeleteVideo, CleanupExpired, Enqueue, EnqueueFails
<1>4. ASSUME NEW w \in Worker, Run(w) PROVE UNCHANGED unreported \/ LosesReports({w})
  BY <1>4 DEF Run, StartJob, ActivateLease, RenewLease, ReadStatus, StartProcessing, BuildQuote,
     SetAwaitingApproval, ReadPlan, StoreAdmitted, CommitReady, JobFails, MarkSucceeded,
     RetryLater, MarkLost, FailJob, LoseLease, Interrupt
<1>5. CASE \E w \in Worker, j \in Job : AcquireJob(w, j)
  BY <1>1, <1>5 DEF AcquireJob
<1>6. CASE Restart
  BY <1>2, <1>6 DEF Restart
<1>7. CASE \E j \in Job : LeaseLapses(j) \/ RetryDue(j)
  BY <1>1, <1>2, <1>7 DEF LeaseLapses, RetryDue
<1>8. CASE \E q \in Quote : QuoteExpires(q) \/ Gateway(q)
  BY <1>1, <1>8 DEF QuoteExpires, Gateway
<1> QED BY <1>1, <1>2, <1>3, <1>4, <1>5, <1>6, <1>7, <1>8 DEF Next, vars

\* A step that changes nothing keeps the invariant of every video.
LEMMA StutterSafe ==
  ASSUME BaseInv, UNCHANGED vars, NEW v \in Video, VideoInv(v)
  PROVE  VideoInv(v)'
<1>1. JobsStill(v) /\ \A j \in Job : UploadKept(j, v)
  BY HandlerJobsStill DEF vars
<1>2. OwnGw(v)
  BY GwStill, OwnKept DEF BaseInv, vars
<1>3. OwnStores(v)
  BY DEF OwnStores, vars, Fenced, VideoOf, JobOf
<1>4. RowStill(v) /\ pending'[v] \subseteq pending[v]
  BY DEF RowStill, vars
<1> QED BY <1>1, <1>2, <1>3, <1>4, VideoFrame DEF BaseInv

\* Every step keeps the invariant.
LEMMA SafetyStep == IInv /\ [Next]_vars => IInv'
<1> SUFFICES ASSUME IInv, [Next]_vars PROVE IInv'
  OBVIOUS
<1>1. BaseInv /\ BaseInv'
  BY BaseNext DEF IInv
<1>2. ASSUME NEW v \in Video, Reported(v)' PROVE VideoInv(v)'
  <2>1. VideoInv(v)
    BY <1>2, ReportsLost DEF IInv, Reported
  <2>2. ASSUME NEW u \in Video, Handlers(u) PROVE VideoInv(v)'
    BY <1>1, <2>1, <2>2, HandlerSafe
  <2>3. ASSUME NEW w \in Worker, Run(w) PROVE VideoInv(v)'
    BY <1>1, <1>2, <2>1, <2>3, RunSafe
  <2>4. ASSUME NEW w \in Worker, NEW j \in Job, AcquireJob(w, j) PROVE VideoInv(v)'
    BY <1>1, <2>1, <2>4, AcquireSafe
  <2>5. CASE Restart
    BY <1>1, <1>2, <2>1, <2>5, RestartSafe
  <2>6. CASE \/ \E j \in Job : LeaseLapses(j) \/ RetryDue(j)
             \/ \E q \in Quote : QuoteExpires(q) \/ Gateway(q)
    BY <1>1, <1>2, <2>1, <2>6, EnvironmentSafe
  <2>7. CASE UNCHANGED vars
    BY <1>1, <2>1, <2>7, StutterSafe
  <2> QED BY <2>2, <2>3, <2>4, <2>5, <2>6, <2>7 DEF Next
<1> QED BY <1>1, <1>2 DEF IInv

\* Spec keeps the invariant, in which what a video was paid for stays with it.
LEMMA SafetyInv == Spec => []IInv
BY SafetyInit, SafetyStep, PTL DEF Spec

-----------------------------------------------------------------------------
(* Safety.                                                                 *)

\* Where the approval of a video is, and what the row says of it.
LEMMA PaidSettled ==
  ASSUME IInv, NEW v \in Video, Reported(v), NEW q \in Quote, issued[q] = v, Paid(q)
  PROVE  video[v].approved = q /\ video[v].status \in Settled /\ RowOK(v)
<1>1. gw[q].job # None /\ gw[q].phase # "cancelled"
  BY DEF IInv, BaseInv, NamesInv, Prepared, Paid
<1>2. BoundHere(q, v) /\ RowOK(v)
  BY DEF IInv, VideoInv, QuotesInv
<1> QED BY <1>1, <1>2 DEF BoundHere

\* The video of a paid quote.
LEMMA PaidIssued ==
  ASSUME IInv, NEW q \in Quote, Paid(q)
  PROVE  issued[q] \in Video
<1>1. gw[q].job # None
  BY DEF IInv, BaseInv, NamesInv, Prepared, Paid
<1>2. issued[q] # None
  BY <1>1 DEF IInv, BaseInv, NamesInv, Prepared
<1> QED BY <1>2 DEF IInv, BaseInv, TypeInv, TypeOK

\* A row names a quote of its own.
LEMMA ApprovedIssued ==
  ASSUME IInv, NEW v \in Video, Paid(video[v].approved)
  PROVE  video[v].approved \in Quote /\ issued[video[v].approved] = v
<1>1. video[v].approved \in Quote \cup {None} /\ video[v].approved # None
  BY VideoEffects DEF IInv, BaseInv, TypeInv, Paid
<1>2. Named(v)
  BY DEF IInv, BaseInv, NamesInv
<1> QED BY <1>1, <1>2 DEF Named

\* A video whose jobs' reports were never lost is paid for under one approval
\* only: the gateway refuses to pay for a quote no job was bound to, a bound
\* approval that was not cancelled is the one the video names, and no cancelled
\* approval was paid.
THEOREM OnePayment == Spec => []OnePaidApproval
<1>1. ASSUME IInv PROVE OnePaidApproval
  <2> SUFFICES ASSUME NEW p \in Quote, NEW q \in Quote, issued[p] = issued[q],
                      Reported(issued[p]), Paid(p), Paid(q)
               PROVE  p = q
    BY DEF OnePaidApproval
  <2>1. PICK v \in Video : issued[p] = v
    BY <1>1, PaidIssued
  <2> QED BY <1>1, <2>1, PaidSettled
<1> QED BY <1>1, SafetyInv, PTL

\* A video asks for a new approval only after the gateway cancelled the old one
\* unpaid, also when the cancel request's answer was lost or came late, unless a
\* job of the video lost its report.
THEOREM AskedUnpaid == Spec => []ApprovalRequiredUnpaid
<1>1. IInv => ApprovalRequiredUnpaid
  BY DEF IInv, VideoInv, QuotesInv, RowOK, ApprovalRequiredUnpaid
<1> QED BY <1>1, SafetyInv, PTL

\* A ready video has every object of the plan it was approved for stored, unless
\* a job of the video lost its report.
THEOREM ReadyStored == Spec => []ReadyIsStored
<1>1. IInv => ReadyIsStored
  BY DEF IInv, VideoInv, QuotesInv, RowOK, ReadyIsStored
<1> QED BY <1>1, SafetyInv, PTL

\* The local files of a video that was paid for outlive expiry clean-up, failed
\* jobs and restarts until the video is ready or deleted, unless a job of the
\* video lost its report.
THEOREM FilesKept == Spec => []PaidFilesKept
<1>1. ASSUME IInv PROVE PaidFilesKept
  <2> SUFFICES ASSUME NEW v \in Video, Paid(video[v].approved), Reported(v),
                      video[v].status \notin {"ready", "deleted"}
               PROVE  video[v].files
    BY DEF PaidFilesKept
  <2>1. video[v].approved \in Quote /\ issued[video[v].approved] = v
    BY <1>1, ApprovedIssued
  <2>2. video[v].status \in Settled /\ RowOK(v)
    BY <1>1, <2>1, PaidSettled
  <2>3. video[v].status \in {"uploading", "payment_recovery_required"}
    BY <2>2 DEF Settled
  <2> QED BY <2>2, <2>3 DEF RowOK
<1> QED BY <1>1, SafetyInv, PTL

\* The job that Resume takes, the failed upload created last, is the one the
\* gateway has bound the video's approval to, unless a job of the video lost its
\* report.
THEOREM ResumeFinds == Spec => []ResumeFindsJob
<1>1. IInv => ResumeFindsJob
  BY DEF IInv, VideoInv, Bound, ResumeFindsJob
<1> QED BY <1>1, SafetyInv, PTL

\* A row that may have been paid for keeps its plan, and a ready one stays ready.
RowStep(v) ==
  /\ video[v].status \in Settled
       => video'[v].approved = video[v].approved /\ video'[v].final = video[v].final
  /\ video[v].status = "ready" => video'[v].status \in {"ready", "deleted"}

\* Every step of a handler keeps such rows.
LEMMA HandlerRows ==
  ASSUME BaseInv, NEW v \in Video, Handlers(v), NEW u \in Video, VideoInv(u)
  PROVE  RowStep(u)
<1>t. TypeOK /\ video[u] \in VideoRow
  BY DEF BaseInv, TypeInv, TypeOK
<1>1. CASE u # v
  BY <1>1, HandlerEffects DEF RowStep
<1>2. CASE AcceptUpload(u) \/ RequoteVideo(u) \/ ApproveVideo(u) \/ CleanupExpired(u)
  BY <1>2 DEF AcceptUpload, RequoteVideo, ApproveVideo, Approvable, CleanupExpired, IsExpired,
     Settled, RowStep
<1>3. CASE ResumeVideo(u)
  <2>1. SetsVideo(u, "uploading", video[u].final, video[u].approved, video[u].files)
         /\ video[u].status # "ready"
    BY <1>t, <1>3, VideoEffects DEF ResumeVideo
  <2> QED BY <2>1 DEF SetsVideo, RowStep
<1>4. CASE DeleteVideo(u)
  <2>1. SetsVideo(u, "deleted", video[u].final, video[u].approved, FALSE)
    BY <1>t, <1>4, VideoEffects DEF DeleteVideo
  <2> QED BY <2>1 DEF SetsVideo, RowStep
<1>5. CASE ApproveLost(u) \/ \E k \in Kind : Enqueue(u, k)
  BY <1>5 DEF ApproveLost, Enqueue, RowStep
<1>6. ASSUME NEW k \in Kind, EnqueueFails(u, k) PROVE RowStep(u)
  <2>1. CASE UNCHANGED video
    BY <2>1 DEF RowStep
  <2>2. CASE ~UNCHANGED video
    <3>1. k \in pending[u] /\ k = "process" /\ video[u].status # "deleted"
      BY <1>6, <2>2 DEF EnqueueFails
    <3>2. video[u].status = "pending"
      BY <3>1 DEF VideoInv, JobsInv, PendingOK
    <3> QED BY <3>2 DEF RowStep, Settled
  <2> QED BY <2>1, <2>2
<1> QED BY <1>1, <1>2, <1>3, <1>4, <1>5, <1>6 DEF Handlers

\* So does every step of a worker: what it may write, its lease still allows.
LEMMA RunRows ==
  ASSUME BaseInv, NEW w \in Worker, Run(w), NEW u \in Video, VideoInv(u)
  PROVE  RowStep(u)
<1>t. TypeInv /\ TypeOK
  BY DEF BaseInv, TypeInv
<1>1. CASE u # VideoOf(w)
  BY <1>t, <1>1, RunVideo DEF RowStep
<1>2. CASE \/ StartJob(w) \/ ActivateLease(w) \/ RenewLease(w) \/ ReadStatus(w) \/ BuildQuote(w)
           \/ ReadPlan(w) \/ StoreAdmitted(w) \/ (\E c \in Class : JobFails(w, c))
           \/ RetryLater(w) \/ MarkLost(w) \/ LoseLease(w) \/ Interrupt(w)
  BY <1>2 DEF StartJob, ActivateLease, RenewLease, ReadStatus, BuildQuote, ReadPlan, StoreAdmitted,
     JobFails, RetryLater, MarkLost, LoseLease, Interrupt, RowStep
<1>3. CASE MarkSucceeded(w)
  <2>1. /\ video'[u].status = video[u].status /\ video'[u].final = video[u].final
        /\ video'[u].approved = video[u].approved
    BY <1>3, <1>t DEF MarkSucceeded, TypeOK, VideoRow
  <2> QED BY <2>1 DEF RowStep
<1>4. ASSUME u = VideoOf(w),
             \/ StartProcessing(w) \/ SetAwaitingApproval(w) \/ CommitReady(w)
             \/ \E unpaid \in BOOLEAN : FailJob(w, unpaid)
      PROVE  RowStep(u)
  <2>1. Fenced(w) /\ worker[w].pc \in {"work", "publish", "store", "failed"}
    BY <1>4 DEF StartProcessing, SetAwaitingApproval, CommitReady, FailJob
  <2>2. FencedStep(w, worker[w].job, VideoOf(w))
    BY <1>4, <2>1, FencedFacts DEF VideoInv
  <2>3. JobOf(w) = jobs[worker[w].job] /\ Fits(JobOf(w).kind, video[u])
    BY <1>4, <2>2 DEF FencedStep
  <2>4. video[u].status # "ready"
    BY <2>3 DEF Fits
  <2>5. CASE SetAwaitingApproval(w)
    <3>1. JobOf(w).kind \in {"process", "quote"}
      BY <1>t, <2>5 DEF SetAwaitingApproval, TypeInv, PcInv
    <3>2. video[u].status \notin Settled
      BY <2>3, <3>1 DEF Fits, Settled
    <3> QED BY <3>2 DEF RowStep, Settled
  <2>6. CASE ~SetAwaitingApproval(w)
    <3>1. video'[u].approved = video[u].approved /\ video'[u].final = video[u].final
      BY <1>t, <1>4, <2>6, RunVideo DEF SetsVideo
    <3> QED BY <2>4, <3>1 DEF RowStep
  <2> QED BY <2>5, <2>6
<1> QED BY <1>1, <1>2, <1>3, <1>4 DEF Run

\* And every other step.
LEMMA RowSteps ==
  ASSUME IInv, [Next]_vars, NEW u \in Video, Reported(u)
  PROVE  RowStep(u)
<1>i. BaseInv /\ TypeInv /\ NamesInv /\ VideoInv(u)
  BY DEF IInv, BaseInv
<1>1. CASE Restart
  <2>1. video'[u] = video[u] \/ video[u].status \notin Settled
    BY <1>i, <1>1, RestartStill DEF IsExpired, Unrecoverable, Settled
  <2> QED BY <2>1 DEF RowStep, Settled
<1>2. CASE UNCHANGED video
  BY <1>2 DEF RowStep
<1>3. ASSUME NEW w \in Worker, NEW j \in Job, AcquireJob(w, j) PROVE UNCHANGED video
  BY <1>3 DEF AcquireJob
<1>4. CASE \/ \E j \in Job : LeaseLapses(j) \/ RetryDue(j)
           \/ \E q \in Quote : QuoteExpires(q) \/ Gateway(q)
  BY <1>2, <1>4 DEF LeaseLapses, RetryDue, QuoteExpires, Gateway
<1>5. ASSUME NEW v \in Video, Handlers(v) PROVE RowStep(u)
  BY <1>i, <1>5, HandlerRows
<1>6. ASSUME NEW w \in Worker, Run(w) PROVE RowStep(u)
  BY <1>i, <1>6, RunRows
<1> QED BY <1>1, <1>2, <1>3, <1>4, <1>5, <1>6 DEF Next, vars

\* As long as a video exists, a paid approval and the plan it paid for stay with
\* it: no requote, late publication, clean-up or restart replaces them, unless a
\* job of the video lost its report.
THEOREM PlanKept == Spec => PaidPlanStays
<1> DEFINE Kept == \A v \in Video : Reported(v) => PlanStays(v)
<1>1. ASSUME IInv, [Next]_vars PROVE Kept
  <2> SUFFICES ASSUME NEW v \in Video, Reported(v), Paid(video[v].approved)
               PROVE  video'[v].approved = video[v].approved /\ video'[v].final = video[v].final
    BY DEF PlanStays
  <2>1. video[v].approved \in Quote /\ issued[video[v].approved] = v
    BY <1>1, ApprovedIssued
  <2>2. video[v].status \in Settled
    BY <1>1, <2>1, PaidSettled
  <2> QED BY <1>1, <2>2, RowSteps DEF RowStep
<1> QED BY <1>1, SafetyInv, PTL DEF Spec, PaidPlanStays

\* A ready video stays ready until it is deleted, whatever late, reclaimed or
\* recovered job still runs for it, unless a job of the video lost its report.
THEOREM ReadyStays == Spec => ReadyIsFinal
<1> DEFINE Kept == \A v \in Video :
      video[v].status = "ready" /\ Reported(v) => video'[v].status \in {"ready", "deleted"}
<1>1. ASSUME IInv, [Next]_vars PROVE Kept
  BY <1>1, RowSteps DEF RowStep
<1> QED BY <1>1, SafetyInv, PTL DEF Spec, ReadyIsFinal

\* A running job of a video in progress, found by a restart, is the one that the
\* restart would enqueue.
LEMMA RunningContinues ==
  ASSUME IInv, BaseInv', Restart, NEW v \in Video, Reported(v), Reported(v)',
         NEW j \in Job, jobs[j].video = v, jobs[j].status = "running"
  PROVE  jobs[j].kind = RecoveryKind(video[v].status)
<1>1. BaseInv /\ VideoInv(v)
  BY DEF IInv
<1>2. Unsettled(j)
  BY <1>1, RestartFacts DEF Unsettled, Active
<1>3. Fits(jobs[j].kind, video[v])
  BY <1>1, <1>2 DEF VideoInv, JobsInv, JobOK
<1> QED BY <1>3 DEF Fits, RecoveryKind

\* After a restart every video in progress whose source is there has an active job
\* that continues it, the one that held it or a new one, unless a job of the video
\* lost its report, the restart itself included.
THEOREM RestartContinues == Spec => RestartRecovers
<1> DEFINE Recovers == \A v \in Video :
      /\ video'[v].status \in {"pending", "processing", "quoting", "uploading"}
      /\ ~Unrecoverable(v)
      /\ v \notin unreported'
      => \E j \in Job : /\ jobs'[j].video = v
                        /\ jobs'[j].kind = RecoveryKind(video'[v].status)
                        /\ jobs'[j].status \in {"queued", "running"}
<1>1. ASSUME IInv, BaseInv', Restart, unreported \subseteq unreported' PROVE Recovers
  <2> SUFFICES ASSUME NEW v \in Video,
                      video'[v].status \in {"pending", "processing", "quoting", "uploading"},
                      ~Unrecoverable(v), Reported(v)'
               PROVE  \E j \in Job : /\ jobs'[j].video = v
                                     /\ jobs'[j].kind = RecoveryKind(video'[v].status)
                                     /\ jobs'[j].status \in {"queued", "running"}
    BY DEF Reported
  <2>1. BaseInv /\ TypeInv /\ NumbersInv /\ NamesInv /\ Reported(v)
    BY <1>1 DEF IInv, BaseInv, Reported
  <2>2. video'[v] = video[v]
    BY <1>1, <2>1, RestartStill
  <2>3. CASE NeedsJob(v)
    <3>1. PICK j \in Job : jobs'[j] = NewJob(RecoveryKind(video[v].status), v)
      BY <1>1, <2>1, <2>3, RestartNumbers
    <3> QED BY <2>2, <3>1 DEF NewJob, NoJob
  <2>4. CASE ~NeedsJob(v)
    <3>1. PICK j \in Job : Active(j) /\ jobs[j].kind = RecoveryKind(video[v].status) /\ jobs[j].video = v
      <4>1. CASE HasActive(RecoveryKind(video[v].status), v)
        BY <4>1 DEF HasActive
      <4>2. CASE ~HasActive(RecoveryKind(video[v].status), v)
        <5>1. PICK j \in Job : jobs[j].video = v /\ jobs[j].status = "running"
          BY <2>2, <2>4, <4>2 DEF NeedsJob, Interrupted
        <5>2. jobs[j].kind = RecoveryKind(video[v].status)
          BY <1>1, <2>1, <5>1, RunningContinues
        <5> QED BY <5>1, <5>2 DEF Active
      <4> QED BY <4>1, <4>2
    <3>2. jobs'[j].kind = jobs[j].kind /\ jobs'[j].video = jobs[j].video /\ Active(j)'
      BY <1>1, <2>1, <3>1, RestartNumbers DEF Active
    <3> QED BY <2>2, <3>1, <3>2 DEF Active
  <2> QED BY <2>3, <2>4
<1>2. ASSUME IInv, [Next]_vars PROVE Restart => Recovers
  <2>1. BaseInv'
    BY <1>2, BaseNext DEF IInv
  <2> QED BY <1>1, <1>2, <2>1, ReportsLost
<1> QED BY <1>2, SafetyInv, PTL DEF Spec, RestartRecovers
=============================================================================
