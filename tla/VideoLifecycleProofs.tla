------------------------ MODULE VideoLifecycleProofs ------------------------
(***************************************************************************)
(* Proofs about VideoLifecycle for any number of videos, workers, jobs and *)
(* quotes: type correctness, and that the approvals the handlers and the   *)
(* workers see do what GatewayView lets them, which PaymentGatewayProofs   *)
(* shows of the gateway itself.                                            *)
(***************************************************************************)
EXTENDS VideoLifecycle, TLAPS

\* A worker that is not idle runs a job of the kind its step belongs to.
PcInv ==
  \A w \in Worker :
    /\ worker[w].pc \notin {"idle", "stopped"}
         => worker[w].job # None /\ JobOf(w).status # "none"
    /\ worker[w].pc = "work" => JobOf(w).kind = "process"
    /\ worker[w].pc = "read" => JobOf(w).kind \in {"process", "upload"}
    /\ worker[w].pc \in {"quote", "publish"} => JobOf(w).kind \in {"process", "quote"}
    /\ worker[w].pc \in {"plan", "store"} => JobOf(w).kind = "upload"
    /\ worker[w].pc = "failed" /\ worker[w].class \in {"recovery", "both"}
         => JobOf(w).kind = "upload"

\* A job row names its video.
UsedInv == \A j \in Job : jobs[j].status # "none" => jobs[j].video \in Video

\* The invariant of type correctness.
TypeInv == TypeOK /\ PcInv /\ UsedInv

\* The operations on a job row return job rows.
LEMMA JobTypes ==
  ASSUME NEW j \in JobRow
  PROVE  /\ \A w \in Worker : Claimed(j, w) \in JobRow
         /\ \A s \in {"succeeded", "failed", "queued"} : Released(j, s) \in JobRow
         /\ \A b \in BOOLEAN : [Released(j, "queued") EXCEPT !.due = b] \in JobRow
         /\ Resumed(j) \in JobRow
         /\ [j EXCEPT !.status = "deleted"] \in JobRow
         /\ [j EXCEPT !.status = "queued", !.owner = None, !.due = TRUE] \in JobRow
         /\ [j EXCEPT !.due = TRUE] \in JobRow
         /\ [j EXCEPT !.live = FALSE] \in JobRow
<1>1. ASSUME NEW w \in Worker PROVE Claimed(j, w) \in JobRow
  <2>1. j.attempts + 1 \in Nat /\ w \in Worker \cup {None}
    BY DEF JobRow
  <2> QED BY <2>1 DEF JobRow, JobStatus, Claimed
<1>2. ASSUME NEW s \in {"succeeded", "failed", "queued"} PROVE Released(j, s) \in JobRow
  BY DEF JobRow, JobStatus, Released
<1>3. ASSUME NEW b \in BOOLEAN PROVE [Released(j, "queued") EXCEPT !.due = b] \in JobRow
  BY DEF JobRow, JobStatus, Released
<1>4. Resumed(j) \in JobRow
  <2> DEFINE max == IF j.max > j.attempts THEN j.max ELSE j.attempts + 1
  <2>1. max \in Nat
    BY DEF JobRow
  <2> HIDE DEF max
  <2>2. [j EXCEPT !.status = "queued", !.due = TRUE, !.max = max] \in JobRow
    BY <2>1 DEF JobRow, JobStatus
  <2> QED BY <2>2 DEF Resumed, max
<1>5. /\ [j EXCEPT !.status = "deleted"] \in JobRow
      /\ [j EXCEPT !.status = "queued", !.owner = None, !.due = TRUE] \in JobRow
      /\ [j EXCEPT !.due = TRUE] \in JobRow
      /\ [j EXCEPT !.live = FALSE] \in JobRow
  BY DEF JobRow, JobStatus
<1> QED BY <1>1, <1>2, <1>3, <1>4, <1>5

\* What they leave alone.
LEMMA JobEffects ==
  ASSUME NEW j \in JobRow
  PROVE  /\ \A w \in Worker : /\ Claimed(j, w).status = "running" /\ Claimed(j, w).kind = j.kind
                              /\ Claimed(j, w).video = j.video /\ Claimed(j, w).owner = w
                              /\ Claimed(j, w).attempts = j.attempts + 1
         /\ \A s : /\ Released(j, s).status = s /\ Released(j, s).kind = j.kind
                   /\ Released(j, s).video = j.video
         /\ \A b : /\ [Released(j, "queued") EXCEPT !.due = b].status = "queued"
                   /\ [Released(j, "queued") EXCEPT !.due = b].kind = j.kind
                   /\ [Released(j, "queued") EXCEPT !.due = b].video = j.video
         /\ Resumed(j).status = "queued" /\ Resumed(j).kind = j.kind /\ Resumed(j).video = j.video
<1>1. /\ \A w \in Worker : /\ Claimed(j, w).status = "running" /\ Claimed(j, w).kind = j.kind
                           /\ Claimed(j, w).video = j.video /\ Claimed(j, w).owner = w
                           /\ Claimed(j, w).attempts = j.attempts + 1
  BY DEF JobRow, Claimed
<1>2. ASSUME NEW s
      PROVE  /\ Released(j, s).status = s /\ Released(j, s).kind = j.kind
             /\ Released(j, s).video = j.video
  BY DEF JobRow, Released
<1>3. ASSUME NEW b
      PROVE  /\ [Released(j, "queued") EXCEPT !.due = b].status = "queued"
             /\ [Released(j, "queued") EXCEPT !.due = b].kind = j.kind
             /\ [Released(j, "queued") EXCEPT !.due = b].video = j.video
  BY DEF JobRow, Released
<1>4. Resumed(j).status = "queued" /\ Resumed(j).kind = j.kind /\ Resumed(j).video = j.video
  BY DEF JobRow, Resumed
<1> QED BY <1>1, <1>2, <1>3, <1>4

\* A report or an interruption leaves a job of the same kind and video.
Keeps(r, j) == r \in JobRow /\ r.status # "none" /\ r.kind = j.kind /\ r.video = j.video

\* A released job, queued again or not, keeps its kind and its video.
LEMMA ReleasedKeeps ==
  ASSUME NEW j \in JobRow
  PROVE  /\ Keeps(Released(j, "succeeded"), j)
         /\ Keeps(Released(j, "failed"), j)
         /\ Keeps([Released(j, "queued") EXCEPT !.due = FALSE], j)
         /\ Keeps([Released(j, "queued") EXCEPT !.due = TRUE], j)
<1>1. Keeps(Released(j, "succeeded"), j)
  BY DEF Keeps, Released, JobRow, JobStatus
<1>2. Keeps(Released(j, "failed"), j)
  BY DEF Keeps, Released, JobRow, JobStatus
<1>3. Keeps([Released(j, "queued") EXCEPT !.due = FALSE], j)
  BY DEF Keeps, Released, JobRow, JobStatus
<1>4. Keeps([Released(j, "queued") EXCEPT !.due = TRUE], j)
  BY DEF Keeps, Released, JobRow, JobStatus
<1> QED BY <1>1, <1>2, <1>3, <1>4

\* The rows that tables and workers start from, and a job that is inserted.
LEMMA NewTypes ==
  /\ NoVideo \in VideoRow /\ NoJob \in JobRow /\ IdleWorker \in WorkerState
  /\ NoApproval \in GatewayRow
  /\ \A k \in Kind, v \in Video : /\ NewJob(k, v) \in JobRow
                                  /\ NewJob(k, v).status = "queued"
                                  /\ NewJob(k, v).kind = k /\ NewJob(k, v).video = v
<1>1. NoVideo \in VideoRow
  BY DEF NoVideo, VideoRow, VideoStatus
<1>2. NoJob \in JobRow
  BY DEF NoJob, JobRow, JobStatus, Kind
<1>3. IdleWorker \in WorkerState
  BY DEF IdleWorker, WorkerState, Pc, Class
<1>4. NoApproval \in GatewayRow
  BY DEF NoApproval, GatewayRow
<1>5. ASSUME NEW k \in Kind, NEW v \in Video
      PROVE  /\ NewJob(k, v) \in JobRow /\ NewJob(k, v).status = "queued"
             /\ NewJob(k, v).kind = k /\ NewJob(k, v).video = v
  BY LifecycleAssumption DEF NewJob, NoJob, JobRow, JobStatus
<1> QED BY <1>1, <1>2, <1>3, <1>4, <1>5

\* What a worker that runs a job has to do with.
LEMMA RunFacts ==
  ASSUME TypeInv, NEW w \in Worker, worker[w].pc \notin {"idle", "stopped"}
  PROVE  /\ worker[w] \in WorkerState
         /\ worker[w].job \in Job /\ JobOf(w) \in JobRow /\ JobOf(w).status # "none"
         /\ VideoOf(w) \in Video /\ video[VideoOf(w)] \in VideoRow
<1>1. worker[w] \in WorkerState
  BY DEF TypeInv, TypeOK
<1>2. worker[w].job \in Job
  BY <1>1 DEF TypeInv, PcInv, WorkerState
<1>3. JobOf(w) \in JobRow /\ JobOf(w).status # "none"
  BY <1>2 DEF TypeInv, TypeOK, PcInv, JobOf
<1>4. VideoOf(w) \in Video
  BY <1>2, <1>3 DEF TypeInv, UsedInv, JobOf, VideoOf
<1> QED BY <1>1, <1>2, <1>3, <1>4 DEF TypeInv, TypeOK

\* The videos whose reports are lost are videos.
LEMMA ReportTypes ==
  ASSUME TypeInv, NEW ws \in SUBSET Worker, LosesReports(ws)
  PROVE  unreported' \in SUBSET Video
<1>1. unreported \in SUBSET Video
  BY DEF TypeInv, TypeOK
<1>2. ASSUME NEW w \in ws, Due(w) PROVE VideoOf(w) \in Video
  <2>1. w \in Worker /\ worker[w].pc \notin {"idle", "stopped"}
    BY <1>2 DEF Due
  <2> QED BY <2>1, RunFacts
<1> QED BY <1>1, <1>2 DEF LosesReports

-----------------------------------------------------------------------------
(* Steps of a worker.                                                      *)

\* The run goes on to pc; the other workers are left alone.
Moves(w, pc) ==
  /\ worker'[w].job = worker[w].job /\ worker'[w].gen = worker[w].gen /\ worker'[w].pc = pc
  /\ \A u \in Worker : u # w => worker'[u] = worker[u]

\* The worker forgets its job; the other workers are left alone.
Rests(w) ==
  /\ worker'[w].pc \in {"idle", "stopped"}
  /\ \A u \in Worker : u # w => worker'[u] = worker[u]

\* What each way of moving a worker on does to it and to the others.
LEMMA WorkerEffects ==
  ASSUME TypeOK, NEW w \in Worker
  PROVE  /\ \A pc : Goto(w, pc) => Moves(w, pc) /\ worker'[w].quote = worker[w].quote
         /\ \A c : FailWith(w, c) => Moves(w, "failed") /\ worker'[w].class = c
         /\ \A pc, q : worker' = [worker EXCEPT ![w].pc = pc, ![w].quote = q]
                         => Moves(w, pc) /\ worker'[w].quote = q
         /\ \A pc, c, q : worker' = [worker EXCEPT ![w].pc = pc, ![w].class = c, ![w].quote = q]
                         => Moves(w, pc) /\ worker'[w].class = c
         /\ Forget(w) => Rests(w)
<1>1. worker \in [Worker -> WorkerState]
  BY DEF TypeOK
<1>2. ASSUME NEW pc, Goto(w, pc) PROVE Moves(w, pc) /\ worker'[w].quote = worker[w].quote
  BY <1>1, <1>2 DEF Goto, Moves, WorkerState
<1>3. ASSUME NEW c, FailWith(w, c) PROVE Moves(w, "failed") /\ worker'[w].class = c
  BY <1>1, <1>3 DEF FailWith, Moves, WorkerState
<1>4. ASSUME NEW pc, NEW q, worker' = [worker EXCEPT ![w].pc = pc, ![w].quote = q]
      PROVE  Moves(w, pc) /\ worker'[w].quote = q
  BY <1>1, <1>4 DEF Moves, WorkerState
<1>5. ASSUME NEW pc, NEW c, NEW q,
             worker' = [worker EXCEPT ![w].pc = pc, ![w].class = c, ![w].quote = q]
      PROVE  Moves(w, pc) /\ worker'[w].class = c
  BY <1>1, <1>5 DEF Moves, WorkerState
<1>6. Forget(w) => Rests(w)
  BY <1>1 DEF Forget, Rests, IdleWorker
<1> QED BY <1>2, <1>3, <1>4, <1>5, <1>6

\* Each of them keeps the shape of the workers.
LEMMA WorkerTypes ==
  ASSUME TypeOK, NEW w \in Worker
  PROVE  /\ \A pc \in Pc : Goto(w, pc) => worker' \in [Worker -> WorkerState]
         /\ \A c \in Class : FailWith(w, c) => worker' \in [Worker -> WorkerState]
         /\ \A pc \in Pc, q \in Quote \cup {None} :
              worker' = [worker EXCEPT ![w].pc = pc, ![w].quote = q]
                => worker' \in [Worker -> WorkerState]
         /\ \A pc \in Pc, c \in Class, q \in Quote \cup {None} :
              worker' = [worker EXCEPT ![w].pc = pc, ![w].class = c, ![w].quote = q]
                => worker' \in [Worker -> WorkerState]
         /\ Forget(w) => worker' \in [Worker -> WorkerState]
<1>1. worker \in [Worker -> WorkerState] /\ worker[w] \in WorkerState
  BY DEF TypeOK
<1>2. ASSUME NEW pc \in Pc, Goto(w, pc) PROVE worker' \in [Worker -> WorkerState]
  BY <1>1, <1>2 DEF Goto, WorkerState
<1>3. ASSUME NEW c \in Class, FailWith(w, c) PROVE worker' \in [Worker -> WorkerState]
  BY <1>1, <1>3 DEF FailWith, WorkerState, Pc
<1>4. ASSUME NEW pc \in Pc, NEW q \in Quote \cup {None},
             worker' = [worker EXCEPT ![w].pc = pc, ![w].quote = q]
      PROVE  worker' \in [Worker -> WorkerState]
  BY <1>1, <1>4 DEF WorkerState
<1>5. ASSUME NEW pc \in Pc, NEW c \in Class, NEW q \in Quote \cup {None},
             worker' = [worker EXCEPT ![w].pc = pc, ![w].class = c, ![w].quote = q]
      PROVE  worker' \in [Worker -> WorkerState]
  BY <1>1, <1>5 DEF WorkerState
<1>6. Forget(w) => worker' \in [Worker -> WorkerState]
  BY <1>1, NewTypes DEF Forget
<1> QED BY <1>2, <1>3, <1>4, <1>5, <1>6

\* Job rows keep their kind and their video; new ones have a video.
Grows ==
  \A j \in Job :
    /\ jobs[j].status # "none" => /\ jobs'[j].status # "none"
                                  /\ jobs'[j].kind = jobs[j].kind
                                  /\ jobs'[j].video = jobs[j].video
    /\ jobs[j].status = "none" /\ jobs'[j].status # "none" => jobs'[j].video \in Video

\* A run may go on to the steps of its job.
Allowed(w, pc) ==
  /\ pc = "work" => JobOf(w).kind = "process"
  /\ pc = "read" => JobOf(w).kind \in {"process", "upload"}
  /\ pc \in {"quote", "publish"} => JobOf(w).kind \in {"process", "quote"}
  /\ pc \in {"plan", "store"} => JobOf(w).kind = "upload"

\* A worker that goes on to an allowed step, or rests, keeps the invariant of
\* workers as long as job rows in use stay in use.
LEMMA PcKept ==
  ASSUME TypeInv, Grows, NEW w \in Worker, NEW pc,
         \/ Rests(w)
         \/ /\ Moves(w, pc) /\ Allowed(w, pc) /\ worker[w].pc \notin {"idle", "stopped"}
            /\ pc = "failed" /\ worker'[w].class \in {"recovery", "both"} => JobOf(w).kind = "upload"
         \/ worker' = worker
         \/ \A u \in Worker : worker'[u].pc = "idle"
  PROVE  PcInv' /\ UsedInv'
<1>1. UsedInv'
  BY DEF TypeInv, UsedInv, Grows
<1>2. ASSUME NEW u \in Worker, worker[u].pc \notin {"idle", "stopped"}, worker'[u].job = worker[u].job
      PROVE  /\ worker'[u].job # None /\ JobOf(u)'.status # "none"
             /\ JobOf(u)'.kind = JobOf(u).kind
  <2>1. worker[u].job \in Job /\ JobOf(u).status # "none"
    BY <1>2, RunFacts
  <2>2. JobOf(u)' = jobs'[worker[u].job] /\ JobOf(u) = jobs[worker[u].job]
    BY <1>2 DEF JobOf
  <2>3. worker[u].job # None
    BY <1>2 DEF TypeInv, PcInv
  <2> QED BY <1>2, <2>1, <2>2, <2>3 DEF Grows
<1>3. ASSUME NEW u \in Worker, worker'[u] = worker[u]
      PROVE  /\ worker'[u].pc \notin {"idle", "stopped"}
                  => worker'[u].job # None /\ JobOf(u)'.status # "none"
             /\ worker'[u].pc = "work" => JobOf(u)'.kind = "process"
             /\ worker'[u].pc = "read" => JobOf(u)'.kind \in {"process", "upload"}
             /\ worker'[u].pc \in {"quote", "publish"} => JobOf(u)'.kind \in {"process", "quote"}
             /\ worker'[u].pc \in {"plan", "store"} => JobOf(u)'.kind = "upload"
             /\ worker'[u].pc = "failed" /\ worker'[u].class \in {"recovery", "both"}
                  => JobOf(u)'.kind = "upload"
  <2>1. CASE worker[u].pc \in {"idle", "stopped"}
    BY <1>3, <2>1
  <2>2. CASE worker[u].pc \notin {"idle", "stopped"}
    BY <1>2, <1>3, <2>2 DEF TypeInv, PcInv
  <2> QED BY <2>1, <2>2
<1>4. CASE Rests(w)
  BY <1>1, <1>3, <1>4 DEF PcInv, Rests, JobOf
<1>5. CASE /\ Moves(w, pc) /\ Allowed(w, pc) /\ worker[w].pc \notin {"idle", "stopped"}
           /\ pc = "failed" /\ worker'[w].class \in {"recovery", "both"} => JobOf(w).kind = "upload"
  BY <1>1, <1>2, <1>3, <1>5 DEF PcInv, Moves, Allowed, JobOf
<1>6. CASE worker' = worker
  BY <1>1, <1>3, <1>6 DEF PcInv, JobOf
<1>7. CASE \A u \in Worker : worker'[u].pc = "idle"
  BY <1>1, <1>7 DEF PcInv, JobOf
<1> QED BY <1>1, <1>4, <1>5, <1>6, <1>7

\* The gateway's updates of one approval.
LEMMA GatewayTypes ==
  ASSUME TypeOK, NEW q
  PROVE  /\ \A j \in Job \cup {None}, n, m \in Nat :
              gw' = [gw EXCEPT ![q].job = j, ![q].gen = n, ![q].live = TRUE, ![q].late = m]
                => gw' \in [Quote -> GatewayRow]
         /\ \A n \in Nat : gw' = [gw EXCEPT ![q].admitted = n] => gw' \in [Quote -> GatewayRow]
         /\ \A n \in Nat : gw' = [gw EXCEPT ![q].late = n] => gw' \in [Quote -> GatewayRow]
         /\ \A s \in {"none", "open", "paused", "cancelled"} :
              /\ gw' = [gw EXCEPT ![q].phase = s] => gw' \in [Quote -> GatewayRow]
              /\ gw' = [gw EXCEPT ![q].phase = s, ![q].late = 0] => gw' \in [Quote -> GatewayRow]
         /\ gw' = [gw EXCEPT ![q].paid = TRUE] => gw' \in [Quote -> GatewayRow]
         /\ gw' = [gw EXCEPT ![q].stored = TRUE] => gw' \in [Quote -> GatewayRow]
         /\ gw' = [gw EXCEPT ![q].live = FALSE] => gw' \in [Quote -> GatewayRow]
<1>1. gw \in [Quote -> GatewayRow]
  BY DEF TypeOK
<1>2. CASE q \notin Quote
  BY <1>1, <1>2
<1>3. CASE q \in Quote
  <2>1. gw[q] \in GatewayRow
    BY <1>1, <1>3
  <2>2. ASSUME NEW j \in Job \cup {None}, NEW n \in Nat, NEW m \in Nat
        PROVE  [gw[q] EXCEPT !.job = j, !.gen = n, !.live = TRUE, !.late = m] \in GatewayRow
    BY <2>1 DEF GatewayRow
  <2>3. ASSUME NEW n \in Nat
        PROVE  /\ [gw[q] EXCEPT !.admitted = n] \in GatewayRow
               /\ [gw[q] EXCEPT !.late = n] \in GatewayRow
    BY <2>1 DEF GatewayRow
  <2>4. ASSUME NEW s \in {"none", "open", "paused", "cancelled"}
        PROVE  /\ [gw[q] EXCEPT !.phase = s] \in GatewayRow
               /\ [gw[q] EXCEPT !.phase = s, !.late = 0] \in GatewayRow
    BY <2>1 DEF GatewayRow
  <2>5. /\ [gw[q] EXCEPT !.paid = TRUE] \in GatewayRow
        /\ [gw[q] EXCEPT !.stored = TRUE] \in GatewayRow
        /\ [gw[q] EXCEPT !.live = FALSE] \in GatewayRow
    BY <2>1 DEF GatewayRow
  <2>6. \A r \in GatewayRow : [gw EXCEPT ![q] = r] \in [Quote -> GatewayRow]
    BY <1>1
  <2>7. ASSUME NEW j \in Job \cup {None}, NEW n \in Nat, NEW m \in Nat,
               gw' = [gw EXCEPT ![q].job = j, ![q].gen = n, ![q].live = TRUE, ![q].late = m]
        PROVE  gw' \in [Quote -> GatewayRow]
    <3>1. gw' = [gw EXCEPT ![q] = [gw[q] EXCEPT !.job = j, !.gen = n, !.live = TRUE, !.late = m]]
      BY <1>1, <1>3, <2>7
    <3> QED BY <2>2, <2>6, <3>1
  <2>8. ASSUME NEW s \in {"none", "open", "paused", "cancelled"},
               gw' = [gw EXCEPT ![q].phase = s, ![q].late = 0]
        PROVE  gw' \in [Quote -> GatewayRow]
    <3>1. gw' = [gw EXCEPT ![q] = [gw[q] EXCEPT !.phase = s, !.late = 0]]
      BY <1>1, <1>3, <2>8
    <3> QED BY <2>4, <2>6, <3>1
  <2>9. ASSUME NEW n \in Nat
        PROVE  /\ gw' = [gw EXCEPT ![q].admitted = n] => gw' \in [Quote -> GatewayRow]
               /\ gw' = [gw EXCEPT ![q].late = n] => gw' \in [Quote -> GatewayRow]
    BY <2>3, <2>6
  <2>10. ASSUME NEW s \in {"none", "open", "paused", "cancelled"}
         PROVE  gw' = [gw EXCEPT ![q].phase = s] => gw' \in [Quote -> GatewayRow]
    BY <2>4, <2>6
  <2>11. /\ gw' = [gw EXCEPT ![q].paid = TRUE] => gw' \in [Quote -> GatewayRow]
         /\ gw' = [gw EXCEPT ![q].stored = TRUE] => gw' \in [Quote -> GatewayRow]
         /\ gw' = [gw EXCEPT ![q].live = FALSE] => gw' \in [Quote -> GatewayRow]
    BY <2>5, <2>6
  <2> QED BY <2>7, <2>8, <2>9, <2>10, <2>11
<1> QED BY <1>2, <1>3

\* One row of videos is updated.
SetsVideo(v, status, final, approved, files) ==
  /\ video'[v].status = status /\ video'[v].final = final
  /\ video'[v].approved = approved /\ video'[v].files = files
  /\ \A u \in Video : u # v => video'[u] = video[u]
  /\ status \in VideoStatus /\ final \in Quote \cup {None} /\ approved \in Quote \cup {None}
       /\ files \in BOOLEAN => video' \in [Video -> VideoRow]

\* The updates of a row of videos.
LEMMA VideoEffects ==
  ASSUME TypeOK, NEW v \in Video
  PROVE  /\ \A s : video' = [video EXCEPT ![v].status = s]
                     => SetsVideo(v, s, video[v].final, video[v].approved, video[v].files)
         /\ \A s, f : video' = [video EXCEPT ![v].status = s, ![v].files = f]
                     => SetsVideo(v, s, video[v].final, video[v].approved, f)
         /\ \A f : video' = [video EXCEPT ![v].files = f]
                     => SetsVideo(v, video[v].status, video[v].final, video[v].approved, f)
         /\ \A s, a : video' = [video EXCEPT ![v].status = s, ![v].approved = a]
                     => SetsVideo(v, s, video[v].final, a, video[v].files)
         /\ \A s, q : video' = [video EXCEPT ![v].status = s, ![v].final = q]
                     => SetsVideo(v, s, q, video[v].approved, video[v].files)
         /\ video[v].status \in VideoStatus /\ video[v].final \in Quote \cup {None}
         /\ video[v].approved \in Quote \cup {None} /\ video[v].files \in BOOLEAN
<1>1. video \in [Video -> VideoRow] /\ video[v] \in VideoRow
  BY DEF TypeOK
<1>2. ASSUME NEW s, video' = [video EXCEPT ![v].status = s]
      PROVE  SetsVideo(v, s, video[v].final, video[v].approved, video[v].files)
  BY <1>1, <1>2 DEF SetsVideo, VideoRow
<1>3. ASSUME NEW s, NEW f, video' = [video EXCEPT ![v].status = s, ![v].files = f]
      PROVE  SetsVideo(v, s, video[v].final, video[v].approved, f)
  BY <1>1, <1>3 DEF SetsVideo, VideoRow
<1>4. ASSUME NEW f, video' = [video EXCEPT ![v].files = f]
      PROVE  SetsVideo(v, video[v].status, video[v].final, video[v].approved, f)
  BY <1>1, <1>4 DEF SetsVideo, VideoRow
<1>5. ASSUME NEW s, NEW a, video' = [video EXCEPT ![v].status = s, ![v].approved = a]
      PROVE  SetsVideo(v, s, video[v].final, a, video[v].files)
  BY <1>1, <1>5 DEF SetsVideo, VideoRow
<1>6. ASSUME NEW s, NEW q, video' = [video EXCEPT ![v].status = s, ![v].final = q]
      PROVE  SetsVideo(v, s, q, video[v].approved, video[v].files)
  BY <1>1, <1>6 DEF SetsVideo, VideoRow
<1>7. /\ video[v].status \in VideoStatus /\ video[v].final \in Quote \cup {None}
      /\ video[v].approved \in Quote \cup {None} /\ video[v].files \in BOOLEAN
  BY <1>1 DEF VideoRow
<1> QED BY <1>2, <1>3, <1>4, <1>5, <1>6, <1>7

\* One job row changes and keeps its kind and video, or comes into use.
LEMMA JobSet ==
  ASSUME TypeOK, NEW j \in Job, NEW r \in JobRow, jobs' = [jobs EXCEPT ![j] = r],
         \/ r.status # "none" /\ r.kind = jobs[j].kind /\ r.video = jobs[j].video
              /\ jobs[j].status # "none"
         \/ jobs[j].status = "none" /\ r.video \in Video
  PROVE  jobs' \in [Job -> JobRow] /\ Grows
BY DEF TypeOK, Grows

\* A step that leaves the workers alone.
LEMMA PcStill ==
  ASSUME TypeInv, Grows, worker' = worker
  PROVE  PcInv' /\ UsedInv'
<1>1. CASE Worker = {}
  BY <1>1 DEF PcInv, UsedInv, Grows, TypeInv
<1>2. ASSUME NEW w \in Worker PROVE PcInv' /\ UsedInv'
  BY PcKept
<1> QED BY <1>1, <1>2

\* A step that leaves jobs and workers alone.
LEMMA StillPc ==
  ASSUME TypeInv, UNCHANGED <<jobs, worker>>
  PROVE  PcInv' /\ UsedInv'
BY DEF TypeInv, PcInv, UsedInv, JobOf

\* The handlers keep the shape of every table.
LEMMA HandlerTypes ==
  ASSUME TypeInv, NEW v \in Video, Handlers(v)
  PROVE  TypeInv'
<1>t. /\ TypeOK /\ video \in [Video -> VideoRow] /\ jobs \in [Job -> JobRow]
      /\ pending \in [Video -> SUBSET Kind]
  BY DEF TypeInv, TypeOK
<1>k. "process" \in Kind /\ "quote" \in Kind /\ "upload" \in Kind
  BY DEF Kind
<1>s. \A s \in {"pending", "uploading", "quoting", "error", "deleted", "expired"} : s \in VideoStatus
  BY DEF VideoStatus
<1>1. CASE AcceptUpload(v)
  <2>1. [NoVideo EXCEPT !.status = "pending", !.files = TRUE] \in VideoRow
    BY DEF NoVideo, VideoRow, VideoStatus
  <2>2. video' \in [Video -> VideoRow] /\ pending' \in [Video -> SUBSET Kind]
    BY <1>1, <1>t, <1>k, <2>1 DEF AcceptUpload
  <2> QED BY <1>1, <1>t, <2>2, StillPc DEF AcceptUpload, TypeInv, TypeOK
<1>a. GatewayApproves(video[v].final) => gw' \in [Quote -> GatewayRow]
  <2>1. CASE video[v].final \in Quote
    <3>1. gw[video[v].final].phase \in {"none", "open", "paused", "cancelled"}
      BY <1>t, <2>1 DEF TypeOK, GatewayRow
    <3>2. (IF gw[video[v].final].phase = "none" THEN "open" ELSE gw[video[v].final].phase)
            \in {"none", "open", "paused", "cancelled"}
      BY <3>1
    <3> QED BY <1>t, <3>2, GatewayTypes DEF GatewayApproves
  <2>2. CASE video[v].final \notin Quote
    BY <1>t, <2>2 DEF TypeOK, GatewayApproves
  <2> QED BY <2>1, <2>2
<1>2. CASE ApproveVideo(v)
  <2>1. SetsVideo(v, "uploading", video[v].final, video[v].final, video[v].files)
    BY <1>2, <1>t, VideoEffects DEF ApproveVideo
  <2>2. video' \in [Video -> VideoRow]
    BY <1>t, <1>s, <2>1, VideoEffects DEF SetsVideo
  <2>3. pending' \in [Video -> SUBSET Kind]
    BY <1>2, <1>t, <1>k DEF ApproveVideo
  <2> QED BY <1>2, <1>t, <1>a, <2>2, <2>3, StillPc DEF ApproveVideo, TypeInv, TypeOK
<1>3. CASE ApproveLost(v)
  BY <1>3, <1>t, <1>a, StillPc DEF ApproveLost, TypeInv, TypeOK
<1>4. CASE RequoteVideo(v)
  <2>1. SetsVideo(v, "quoting", video[v].final, None, video[v].files)
    BY <1>4, <1>t, VideoEffects DEF RequoteVideo
  <2>2. video' \in [Video -> VideoRow]
    BY <1>t, <1>s, <2>1, VideoEffects DEF SetsVideo
  <2>3. pending' \in [Video -> SUBSET Kind]
    BY <1>4, <1>t, <1>k DEF RequoteVideo
  <2> QED BY <1>4, <1>t, <2>2, <2>3, StillPc DEF RequoteVideo, TypeInv, TypeOK
<1>5. CASE ResumeVideo(v)
  <2>1. SetsVideo(v, "uploading", video[v].final, video[v].approved, video[v].files)
    BY <1>5, <1>t, VideoEffects DEF ResumeVideo
  <2>2. video' \in [Video -> VideoRow]
    BY <1>t, <1>s, <2>1, VideoEffects DEF SetsVideo
  <2>3. PICK j \in Job : LastFailed(v, j) /\ jobs' = [jobs EXCEPT ![j] = Resumed(jobs[j])]
    BY <1>5 DEF ResumeVideo
  <2>4. jobs[j] \in JobRow /\ jobs[j].status = "failed"
    BY <1>t, <2>3 DEF LastFailed, FailedUploads
  <2>5. jobs' \in [Job -> JobRow] /\ Grows
    BY <1>t, <2>3, <2>4, JobTypes, JobEffects, JobSet
  <2>6. worker' = worker
    BY <1>5 DEF ResumeVideo
  <2>7. PcInv' /\ UsedInv'
    BY <2>5, <2>6, PcStill
  <2> QED BY <1>5, <1>t, <2>2, <2>5, <2>7 DEF ResumeVideo, TypeInv, TypeOK
<1>6. CASE DeleteVideo(v)
  <2>1. SetsVideo(v, "deleted", video[v].final, video[v].approved, FALSE)
    BY <1>6, <1>t, VideoEffects DEF DeleteVideo
  <2>2. video' \in [Video -> VideoRow]
    BY <1>t, <1>s, <2>1, VideoEffects DEF SetsVideo
  <2>3. \A j \in Job : [jobs[j] EXCEPT !.status = "deleted"] \in JobRow
    BY <1>t, JobTypes
  <2>4. jobs' \in [Job -> JobRow]
    BY <1>6, <1>t, <2>3 DEF DeleteVideo
  <2>5. Grows
    BY <1>6, <1>t DEF DeleteVideo, Grows, JobRow
  <2>6. worker' = worker
    BY <1>6 DEF DeleteVideo
  <2>7. PcInv' /\ UsedInv'
    BY <2>5, <2>6, PcStill
  <2> QED BY <1>6, <1>t, <2>2, <2>4, <2>7 DEF DeleteVideo, TypeInv, TypeOK
<1>7. CASE CleanupExpired(v)
  <2>1. Expire(video[v]) \in VideoRow
    BY <1>t DEF Expire, VideoRow, VideoStatus
  <2>2. video' \in [Video -> VideoRow]
    BY <1>7, <1>t, <2>1 DEF CleanupExpired
  <2> QED BY <1>7, <1>t, <2>2, StillPc DEF CleanupExpired, TypeInv, TypeOK
<1>8. ASSUME NEW k \in Kind, Enqueue(v, k) PROVE TypeInv'
  <2>1. pending' \in [Video -> SUBSET Kind]
    BY <1>8, <1>t DEF Enqueue
  <2>2. CASE UNCHANGED jobs
    BY <1>8, <1>t, <2>1, <2>2, StillPc DEF Enqueue, TypeInv, TypeOK
  <2>3. ASSUME NEW j \in Job, NextJob(j), jobs' = [jobs EXCEPT ![j] = NewJob(k, v)] PROVE TypeInv'
    <3>1. jobs' \in [Job -> JobRow] /\ Grows
      <4>1. jobs[j].status = "none" /\ NewJob(k, v) \in JobRow /\ NewJob(k, v).video \in Video
        BY <2>3, NewTypes DEF NextJob, Unused
      <4> QED BY <1>t, <2>3, <4>1, JobSet
    <3>2. worker' = worker
      BY <1>8 DEF Enqueue
    <3>3. PcInv' /\ UsedInv'
      BY <3>1, <3>2, PcStill
    <3> QED BY <1>8, <1>t, <2>1, <3>1, <3>3 DEF Enqueue, TypeInv, TypeOK
  <2> QED BY <1>8, <2>2, <2>3 DEF Enqueue
<1>9. ASSUME NEW k \in Kind, EnqueueFails(v, k) PROVE TypeInv'
  <2>1. pending' \in [Video -> SUBSET Kind]
    BY <1>9, <1>t DEF EnqueueFails
  <2>2. video' \in [Video -> VideoRow]
    <3>1. CASE UNCHANGED video
      BY <1>t, <3>1
    <3>2. ASSUME NEW st \in {video[v].status, "error"}, NEW f \in {video[v].files, FALSE},
                 video' = [video EXCEPT ![v].status = st, ![v].files = f]
          PROVE  video' \in [Video -> VideoRow]
      <4>1. SetsVideo(v, st, video[v].final, video[v].approved, f)
        BY <1>t, <3>2, VideoEffects
      <4>2. st \in VideoStatus /\ f \in BOOLEAN
        BY <1>t, <1>s, VideoEffects
      <4> QED BY <1>t, <4>1, <4>2, VideoEffects DEF SetsVideo
    <3> QED BY <1>9, <3>1, <3>2 DEF EnqueueFails
  <2> QED BY <1>9, <1>t, <2>1, <2>2, StillPc DEF EnqueueFails, TypeInv, TypeOK
<1> QED BY <1>1, <1>2, <1>3, <1>4, <1>5, <1>6, <1>7, <1>8, <1>9 DEF Handlers

\* A run keeps the types.
LEMMA RunTypes ==
  ASSUME TypeInv, NEW w \in Worker, Run(w)
  PROVE  TypeInv'
<1>t. /\ TypeOK /\ video \in [Video -> VideoRow] /\ jobs \in [Job -> JobRow]
      /\ issued \in [Quote -> Video \cup {None}] /\ worker \in [Worker -> WorkerState]
  BY DEF TypeInv, TypeOK
<1>n. None \notin Video /\ Job \subseteq Nat /\ Quote \subseteq Nat
  BY LifecycleAssumption DEF Job, Quote
<1>p. /\ \A pc \in {"quote", "read", "done", "plan", "work", "publish", "store", "failed"} : pc \in Pc
      /\ \A c \in {"recovery", "plain", "approval"} : c \in Class
      /\ \A s \in {"processing", "awaiting_approval", "ready", "payment_recovery_required",
                   "approval_required", "error"} : s \in VideoStatus
  BY DEF Pc, Working, Class, VideoStatus
<1>w. worker[w].pc \notin {"idle", "stopped"}
  BY DEF Run, StartJob, ActivateLease, RenewLease, ReadStatus, StartProcessing, BuildQuote,
     SetAwaitingApproval, ReadPlan, StoreAdmitted, CommitReady, JobFails, MarkSucceeded, RetryLater,
     MarkLost, FailJob, LoseLease, Interrupt, Working
<1>r. /\ worker[w] \in WorkerState
      /\ worker[w].job \in Job /\ JobOf(w) \in JobRow /\ JobOf(w).status # "none"
      /\ VideoOf(w) \in Video /\ video[VideoOf(w)] \in VideoRow
  BY <1>w, RunFacts
<1>f. /\ worker[w].gen \in Nat /\ worker[w].quote \in Quote \cup {None}
      /\ JobOf(w).kind \in Kind /\ JobOf(w) = jobs[worker[w].job]
  BY <1>r DEF WorkerState, JobRow, JobOf
<1>g. UNCHANGED jobs => Grows
  BY <1>t DEF Grows
<1>k. JobOf(w).kind \in {"process", "quote", "upload"}
  BY <1>f DEF Kind
<1>1. CASE StartJob(w)
  <2>1. PICK pc \in {"quote", "read"} : /\ Goto(w, pc)
                                        /\ pc = "quote" <=> JobOf(w).kind = "quote"
    BY <1>1 DEF StartJob
  <2>p. pc \in Pc
    BY <1>p
  <2>t. worker' \in [Worker -> WorkerState]
    BY <1>t, <2>1, <2>p, WorkerTypes
  <2>m. Moves(w, pc)
    BY <1>t, <2>1, WorkerEffects
  <2>2. worker' \in [Worker -> WorkerState] /\ Moves(w, pc)
    BY <2>t, <2>m
  <2>3. PcInv' /\ UsedInv'
    BY <1>1, <1>g, <1>k, <1>w, <2>1, <2>2, PcKept DEF StartJob, Allowed
  <2> QED BY <1>1, <1>t, <2>2, <2>3 DEF StartJob, TypeInv, TypeOK
<1>2. ASSUME NEW q, GatewayLeases(q, w) PROVE gw' \in [Quote -> GatewayRow]
  <2>1. CASE q \in Quote
    <3>1. gw[q].late \in Nat
      BY <1>t, <2>1 DEF TypeOK, GatewayRow
    <3> DEFINE m == IF gw[q].late = worker[w].gen THEN gw[q].late ELSE 0
    <3>2. m \in Nat
      BY <3>1
    <3>3. gw' = [gw EXCEPT ![q].job = worker[w].job, ![q].gen = worker[w].gen, ![q].live = TRUE,
                           ![q].late = m]
      BY <1>2 DEF GatewayLeases
    <3> HIDE DEF m
    <3> QED BY <1>t, <1>r, <1>f, <3>2, <3>3, GatewayTypes
  <2>2. CASE q \notin Quote
    BY <1>t, <1>2, <2>2 DEF TypeOK, GatewayLeases
  <2> QED BY <2>1, <2>2
<1>3. CASE ActivateLease(w)
  <2>1. gw' \in [Quote -> GatewayRow]
    BY <1>3, <1>2, <1>t DEF ActivateLease, TypeOK
  <2>2. worker' \in [Worker -> WorkerState]
    BY <1>3, <1>t, <1>p, WorkerTypes DEF ActivateLease
  <2>3. \/ Moves(w, "read")
        \/ Moves(w, "failed")
    BY <1>3, <1>t, WorkerEffects DEF ActivateLease
  <2>4. PcInv' /\ UsedInv'
    BY <1>3, <1>g, <1>w, <2>3, PcKept DEF ActivateLease, Allowed
  <2> QED BY <1>3, <1>t, <2>1, <2>2, <2>4 DEF ActivateLease, TypeInv, TypeOK
<1>4. CASE RenewLease(w) \/ StoreAdmitted(w)
  <2>1. gw' \in [Quote -> GatewayRow]
    <3>1. CASE RenewLease(w)
      BY <1>2, <3>1 DEF RenewLease
    <3>2. CASE StoreAdmitted(w)
      <4>1. gw' = [gw EXCEPT ![worker[w].quote].admitted = worker[w].gen]
        BY <3>2 DEF StoreAdmitted
      <4> QED BY <1>t, <1>f, <4>1, GatewayTypes
    <3> QED BY <1>4, <3>1, <3>2
  <2> QED BY <1>4, <1>t, <2>1, StillPc DEF RenewLease, StoreAdmitted, TypeInv, TypeOK
<1>5. CASE ReadStatus(w)
  <2>1. worker' \in [Worker -> WorkerState]
    BY <1>5, <1>t, <1>p, WorkerTypes DEF ReadStatus
  <2>2. \E pc \in {"done", "plan", "work", "failed"} :
          /\ Moves(w, pc)
          /\ pc = "plan" => JobOf(w).kind = "upload"
          /\ pc = "work" => JobOf(w).kind = "process"
          /\ pc = "failed" => worker'[w].class = "plain"
    BY <1>5, <1>t, WorkerEffects DEF ReadStatus
  <2>3. PcInv' /\ UsedInv'
    BY <1>5, <1>g, <1>w, <2>2, PcKept DEF ReadStatus, Allowed
  <2> QED BY <1>5, <1>t, <2>1, <2>3 DEF ReadStatus, TypeInv, TypeOK
<1>6. CASE StartProcessing(w) \/ SetAwaitingApproval(w) \/ CommitReady(w)
  <2>1. worker' \in [Worker -> WorkerState]
    BY <1>6, <1>t, <1>p, WorkerTypes DEF StartProcessing, SetAwaitingApproval, CommitReady
  <2>2. video' \in [Video -> VideoRow]
    <3>1. \E s \in {"processing", "awaiting_approval", "ready"}, q \in Quote \cup {None} :
            SetsVideo(VideoOf(w), s, q, video[VideoOf(w)].approved, video[VideoOf(w)].files)
      BY <1>6, <1>t, <1>r, <1>f, VideoEffects DEF StartProcessing, SetAwaitingApproval, CommitReady
    <3> QED BY <1>t, <1>p, <1>r, <3>1, VideoEffects DEF SetsVideo
  <2>3. \/ Moves(w, "quote") /\ JobOf(w).kind = "process"
        \/ Moves(w, "done")
    BY <1>6, <1>t, WorkerEffects DEF StartProcessing, SetAwaitingApproval, CommitReady, TypeInv, PcInv
  <2>4. PcInv' /\ UsedInv'
    BY <1>6, <1>g, <1>w, <2>3, PcKept
       DEF StartProcessing, SetAwaitingApproval, CommitReady, Allowed
  <2> QED BY <1>6, <1>t, <2>1, <2>2, <2>4
          DEF StartProcessing, SetAwaitingApproval, CommitReady, TypeInv, TypeOK
<1>7. CASE BuildQuote(w)
  <2>1. PICK q \in Quote : /\ issued' = [issued EXCEPT ![q] = VideoOf(w)]
                           /\ worker' = [worker EXCEPT ![w].pc = "publish", ![w].quote = q]
    BY <1>7 DEF BuildQuote
  <2>2. worker' \in [Worker -> WorkerState] /\ Moves(w, "publish")
    BY <1>t, <1>p, <2>1, WorkerTypes, WorkerEffects
  <2>3. issued' \in [Quote -> Video \cup {None}]
    BY <1>t, <1>r, <2>1
  <2>4. PcInv' /\ UsedInv'
    BY <1>7, <1>g, <1>w, <2>2, PcKept DEF BuildQuote, Allowed, TypeInv, PcInv
  <2> QED BY <1>7, <1>t, <2>2, <2>3, <2>4 DEF BuildQuote, TypeInv, TypeOK
<1>8. CASE ReadPlan(w)
  <2>1. video[VideoOf(w)].final \in Quote \cup {None}
    BY <1>r DEF VideoRow
  <2> DEFINE q == video[VideoOf(w)].final
  <2>a. \/ FailWith(w, "approval")
        \/ worker' = [worker EXCEPT ![w].pc = "failed", ![w].class = "plain", ![w].quote = q]
        \/ worker' = [worker EXCEPT ![w].pc = "store", ![w].quote = q]
    BY <1>8 DEF ReadPlan
  <2>b. "failed" \in Pc /\ "store" \in Pc /\ "plain" \in Class /\ "approval" \in Class
    BY <1>p
  <2> HIDE DEF q
  <2>c. q \in Quote \cup {None}
    BY <2>1 DEF q
  <2>2. worker' \in [Worker -> WorkerState]
    <3>1. CASE FailWith(w, "approval")
      BY <1>t, <2>b, <3>1, WorkerTypes
    <3>2. CASE worker' = [worker EXCEPT ![w].pc = "failed", ![w].class = "plain", ![w].quote = q]
      BY <1>t, <2>b, <2>c, <3>2 DEF WorkerState
    <3>3. CASE worker' = [worker EXCEPT ![w].pc = "store", ![w].quote = q]
      BY <1>t, <2>b, <2>c, <3>3 DEF WorkerState
    <3> QED BY <2>a, <3>1, <3>2, <3>3
  <2>3. \/ Moves(w, "store")
        \/ Moves(w, "failed") /\ worker'[w].class \in {"approval", "plain"}
    <3>1. CASE FailWith(w, "approval")
      BY <1>t, <3>1, WorkerEffects
    <3>2. CASE worker' = [worker EXCEPT ![w].pc = "failed", ![w].class = "plain", ![w].quote = q]
      BY <1>t, <3>2 DEF WorkerState, Moves
    <3>3. CASE worker' = [worker EXCEPT ![w].pc = "store", ![w].quote = q]
      BY <1>t, <3>3 DEF WorkerState, Moves
    <3> QED BY <2>a, <3>1, <3>2, <3>3
  <2>4. PcInv' /\ UsedInv'
    BY <1>8, <1>g, <1>w, <2>3, PcKept DEF ReadPlan, Allowed, TypeInv, PcInv
  <2> QED BY <1>8, <1>t, <2>2, <2>4 DEF ReadPlan, TypeInv, TypeOK
<1>9. ASSUME NEW c \in Class, JobFails(w, c) PROVE TypeInv'
  <2>1. worker' \in [Worker -> WorkerState] /\ Moves(w, "failed") /\ worker'[w].class = c
    BY <1>9, <1>t, WorkerTypes, WorkerEffects DEF JobFails
  <2>2. c \in {"recovery", "both"} => JobOf(w).kind = "upload"
    BY <1>9 DEF JobFails, TypeInv, PcInv
  <2>3. PcInv' /\ UsedInv'
    BY <1>9, <1>g, <1>w, <2>1, <2>2, PcKept DEF JobFails, Allowed
  <2> QED BY <1>9, <1>t, <2>1, <2>3 DEF JobFails, TypeInv, TypeOK
<1>10. ASSUME NEW r \in JobRow, jobs' = [jobs EXCEPT ![worker[w].job] = r],
              r.status # "none", r.kind = JobOf(w).kind, r.video = JobOf(w).video
       PROVE  jobs' \in [Job -> JobRow] /\ Grows
  BY <1>10, <1>t, <1>r, <1>f, JobSet
<1>11. CASE MarkSucceeded(w)
  <2>1. jobs' \in [Job -> JobRow] /\ Grows
    <3>1. jobs' = [jobs EXCEPT ![worker[w].job] = Released(JobOf(w), "succeeded")]
      BY <1>11, <1>t, <1>f DEF MarkSucceeded
    <3>2. Keeps(Released(JobOf(w), "succeeded"), JobOf(w))
      BY <1>r, ReleasedKeeps
    <3> QED BY <1>10, <3>1, <3>2 DEF Keeps
  <2>2. video' \in [Video -> VideoRow]
    <3>1. \/ UNCHANGED video
          \/ SetsVideo(VideoOf(w), video[VideoOf(w)].status, video[VideoOf(w)].final,
                       video[VideoOf(w)].approved, FALSE)
      BY <1>11, <1>t, <1>r, VideoEffects DEF MarkSucceeded
    <3> QED BY <1>t, <1>r, <3>1, VideoEffects DEF SetsVideo
  <2>3. worker' \in [Worker -> WorkerState] /\ Rests(w)
    BY <1>11, <1>t, WorkerTypes, WorkerEffects DEF MarkSucceeded
  <2>4. PcInv' /\ UsedInv'
    BY <2>1, <2>3, PcKept
  <2> QED BY <1>11, <1>t, <2>1, <2>2, <2>3, <2>4 DEF MarkSucceeded, TypeInv, TypeOK
<1>12. CASE RetryLater(w)
  <2>1. jobs' \in [Job -> JobRow] /\ Grows
    <3>1. jobs' = [jobs EXCEPT ![worker[w].job] =
                                 [Released(JobOf(w), "queued") EXCEPT !.due = FALSE]]
      BY <1>12, <1>t, <1>f DEF RetryLater
    <3>2. Keeps([Released(JobOf(w), "queued") EXCEPT !.due = FALSE], JobOf(w))
      BY <1>r, ReleasedKeeps
    <3> QED BY <1>10, <3>1, <3>2 DEF Keeps
  <2>2. worker' \in [Worker -> WorkerState] /\ Rests(w)
    BY <1>12, <1>t, WorkerTypes, WorkerEffects DEF RetryLater
  <2>3. PcInv' /\ UsedInv'
    BY <2>1, <2>2, PcKept
  <2> QED BY <1>12, <1>t, <2>1, <2>2, <2>3 DEF RetryLater, TypeInv, TypeOK
<1>13. CancelInFlight(w) => gw' \in [Quote -> GatewayRow]
  BY <1>t, <1>f, GatewayTypes DEF CancelInFlight, TypeOK
<1>14. CASE MarkLost(w) \/ LoseLease(w)
  <2>1. gw' \in [Quote -> GatewayRow]
    BY <1>14, <1>13, <1>t DEF MarkLost, LoseLease, TypeOK
  <2>2. worker' \in [Worker -> WorkerState] /\ Rests(w)
    BY <1>14, <1>t, WorkerTypes, WorkerEffects DEF MarkLost, LoseLease
  <2>3. PcInv' /\ UsedInv'
    BY <1>14, <1>g, <2>2, PcKept DEF MarkLost, LoseLease
  <2>4. unreported' \in SUBSET Video
    <3>1. CASE MarkLost(w)
      BY <3>1, ReportTypes DEF MarkLost
    <3>2. CASE LoseLease(w)
      BY <3>2, <1>t DEF LoseLease, TypeOK
    <3> QED BY <1>14, <3>1, <3>2
  <2> QED BY <1>14, <1>t, <2>1, <2>2, <2>3, <2>4 DEF MarkLost, LoseLease, TypeInv, TypeOK
<1>15. ASSUME NEW unpaid \in BOOLEAN, FailJob(w, unpaid) PROVE TypeInv'
  <2>1. jobs' \in [Job -> JobRow] /\ Grows
    <3>1. jobs' = [jobs EXCEPT ![worker[w].job] = Released(JobOf(w), "failed")]
      BY <1>15, <1>t, <1>f DEF FailJob
    <3>2. Keeps(Released(JobOf(w), "failed"), JobOf(w))
      BY <1>r, ReleasedKeeps
    <3> QED BY <1>10, <3>1, <3>2 DEF Keeps
  <2>2. worker' \in [Worker -> WorkerState] /\ Rests(w)
    BY <1>15, <1>t, WorkerTypes, WorkerEffects DEF FailJob
  <2>3. PcInv' /\ UsedInv'
    BY <2>1, <2>2, PcKept
  <2>4. gw' \in [Quote -> GatewayRow]
    BY <1>15, <1>13, <1>t, GatewayTypes DEF FailJob, TypeOK
  <2>5. FailedStatus(w, unpaid) \in VideoStatus
    BY <1>p DEF FailedStatus
  <2>6. video' \in [Video -> VideoRow]
    <3>1. SetsVideo(VideoOf(w), FailedStatus(w, unpaid), video[VideoOf(w)].final,
                    video[VideoOf(w)].approved, video[VideoOf(w)].files)
      BY <1>15, <1>t, <1>r, VideoEffects DEF FailJob
    <3> QED BY <1>t, <1>r, <2>5, <3>1, VideoEffects DEF SetsVideo
  <2> QED BY <1>15, <1>t, <2>1, <2>2, <2>3, <2>4, <2>6 DEF FailJob, TypeInv, TypeOK
<1>16. CASE Interrupt(w)
  <2>1. jobs' \in [Job -> JobRow] /\ Grows
    <3>1. \/ UNCHANGED jobs
          \/ jobs' = [jobs EXCEPT ![worker[w].job] =
                                    [Released(JobOf(w), "queued") EXCEPT !.due = TRUE]]
      BY <1>16, <1>t, <1>f DEF Interrupt
    <3>2. Keeps([Released(JobOf(w), "queued") EXCEPT !.due = TRUE], JobOf(w))
      BY <1>r, ReleasedKeeps
    <3> QED BY <1>t, <1>g, <1>10, <3>1, <3>2 DEF Keeps
  <2>2. [IdleWorker EXCEPT !.pc = "stopped"] \in WorkerState
    BY DEF IdleWorker, WorkerState, Pc, Class
  <2>3. worker' \in [Worker -> WorkerState] /\ Rests(w)
    BY <1>16, <1>t, <2>2 DEF Interrupt, Rests, IdleWorker
  <2>4. PcInv' /\ UsedInv'
    BY <2>1, <2>3, PcKept
  <2> QED BY <1>16, <1>t, <2>1, <2>3, <2>4 DEF Interrupt, TypeInv, TypeOK
<1> QED BY <1>1, <1>3, <1>4, <1>5, <1>6, <1>7, <1>8, <1>9, <1>11, <1>12, <1>14, <1>15, <1>16 DEF Run

\* A claim keeps the types.
LEMMA AcquireTypes ==
  ASSUME TypeInv, NEW w \in Worker, NEW j \in Job, AcquireJob(w, j)
  PROVE  TypeInv'
<1>t. /\ TypeOK /\ jobs \in [Job -> JobRow] /\ worker \in [Worker -> WorkerState]
      /\ jobs[j] \in JobRow /\ jobs[j].attempts \in Nat
  BY DEF TypeInv, TypeOK, JobRow
<1>1. /\ jobs[j].status # "none"
      /\ jobs' = [jobs EXCEPT ![j] = Claimed(jobs[j], w)]
      /\ worker' = [worker EXCEPT ![w] = [IdleWorker EXCEPT !.pc = "leased", !.job = j,
                                            !.gen = jobs[j].attempts + 1]]
  BY DEF AcquireJob
<1>2. /\ Claimed(jobs[j], w) \in JobRow /\ Claimed(jobs[j], w).status = "running"
      /\ Claimed(jobs[j], w).kind = jobs[j].kind /\ Claimed(jobs[j], w).video = jobs[j].video
  BY <1>t, JobTypes, JobEffects
<1>3. jobs' \in [Job -> JobRow] /\ Grows
  BY <1>t, <1>1, <1>2, JobSet
<1>4. jobs[j].attempts + 1 \in Nat
  BY <1>t
<1>5. [IdleWorker EXCEPT !.pc = "leased", !.job = j, !.gen = jobs[j].attempts + 1] \in WorkerState
  BY <1>4 DEF IdleWorker, WorkerState, Pc, Working, Class
<1>6. worker' \in [Worker -> WorkerState]
  BY <1>t, <1>1, <1>5
<1>7. UsedInv'
  BY <1>3 DEF TypeInv, UsedInv, Grows
<1>8. worker'[w].pc = "leased" /\ worker'[w].job = j
  BY <1>t, <1>1 DEF IdleWorker
<1>9. \A u \in Worker : u # w => worker'[u] = worker[u]
  BY <1>t, <1>1
<1>10. jobs'[j].status # "none"
  BY <1>t, <1>1, <1>2
<1>11. None # j
  BY LifecycleAssumption DEF Job
<1>12. PcInv'
  <2> SUFFICES ASSUME NEW u \in Worker
               PROVE  (/\ worker[u].pc \notin {"idle", "stopped"}
                            => worker[u].job # None /\ JobOf(u).status # "none"
                       /\ worker[u].pc = "work" => JobOf(u).kind = "process"
                       /\ worker[u].pc = "read" => JobOf(u).kind \in {"process", "upload"}
                       /\ worker[u].pc \in {"quote", "publish"}
                            => JobOf(u).kind \in {"process", "quote"}
                       /\ worker[u].pc \in {"plan", "store"} => JobOf(u).kind = "upload"
                       /\ worker[u].pc = "failed" /\ worker[u].class \in {"recovery", "both"}
                            => JobOf(u).kind = "upload")'
    BY DEF PcInv
  <2>1. CASE u = w
    BY <1>8, <1>10, <1>11, <2>1 DEF JobOf
  <2>2. CASE u # w /\ worker[u].pc \in {"idle", "stopped"}
    BY <1>9, <2>2
  <2>3. CASE u # w /\ worker[u].pc \notin {"idle", "stopped"}
    <3>1. worker'[u] = worker[u] /\ worker[u].job \in Job /\ JobOf(u).status # "none"
      BY <1>9, <2>3, RunFacts
    <3>2. JobOf(u)' = jobs'[worker[u].job] /\ JobOf(u) = jobs[worker[u].job]
      BY <3>1 DEF JobOf
    <3>3. JobOf(u)'.status # "none" /\ JobOf(u)'.kind = JobOf(u).kind
      BY <1>3, <3>1, <3>2 DEF Grows
    <3> QED BY <2>3, <3>1, <3>3 DEF TypeInv, PcInv
  <2> QED BY <2>1, <2>2, <2>3
<1> QED BY <1>t, <1>3, <1>6, <1>7, <1>12 DEF AcquireJob, TypeInv, TypeOK

\* A restart keeps the types.
LEMMA RestartTypes ==
  ASSUME TypeInv, Restart
  PROVE  TypeInv'
<1>t. /\ TypeOK /\ jobs \in [Job -> JobRow] /\ worker \in [Worker -> WorkerState]
      /\ video \in [Video -> VideoRow]
  BY DEF TypeInv, TypeOK
<1> DEFINE need == {v \in Video : NeedsJob(v)}
<1>1. PICK new \in [need -> Unused] :
        jobs' = [j \in Job |->
                   IF \E v \in need : new[v] = j
                   THEN LET v == CHOOSE v \in need : new[v] = j
                        IN NewJob(RecoveryKind(video[v].status), v)
                   ELSE Requeued(j)]
  BY DEF Restart
<1>2. \A v \in need : v \in Video /\ RecoveryKind(video[v].status) \in Kind
  BY DEF NeedsJob, Interrupted, RecoveryKind, Kind
<1>3. ASSUME NEW j \in Job, \E v \in need : new[v] = j
      PROVE  jobs'[j] \in JobRow /\ jobs'[j].video \in Video /\ jobs[j].status = "none"
  <2> DEFINE v == CHOOSE v \in need : new[v] = j
  <2>1. v \in need /\ new[v] = j
    BY <1>3
  <2>2. jobs'[j] = NewJob(RecoveryKind(video[v].status), v)
    BY <1>1, <1>3
  <2>3. j \in Unused
    BY <1>1, <2>1
  <2> HIDE DEF v
  <2> QED BY <1>2, <2>1, <2>2, <2>3, NewTypes DEF Unused
<1>4. ASSUME NEW j \in Job, ~\E v \in need : new[v] = j
      PROVE  /\ jobs'[j] \in JobRow /\ jobs'[j].kind = jobs[j].kind
             /\ jobs'[j].video = jobs[j].video
             /\ jobs'[j].status = "none" <=> jobs[j].status = "none"
  <2>1. jobs'[j] = Requeued(j)
    BY <1>1, <1>4
  <2>2. jobs[j] \in JobRow
    BY <1>t
  <2>3. Requeued(j) \in JobRow
    BY <2>2, JobTypes DEF Requeued
  <2>4. /\ Requeued(j).kind = jobs[j].kind /\ Requeued(j).video = jobs[j].video
        /\ Requeued(j).status = "none" <=> jobs[j].status = "none"
    BY <2>2 DEF Requeued, JobRow
  <2> QED BY <2>1, <2>3, <2>4
<1>5. jobs' \in [Job -> JobRow]
  <2>1. \A j \in Job : jobs'[j] \in JobRow
    BY <1>3, <1>4
  <2>2. jobs' = [j \in Job |-> jobs'[j]]
    BY <1>1
  <2> QED BY <2>1, <2>2
<1>6. UsedInv'
  <2> SUFFICES ASSUME NEW j \in Job, jobs'[j].status # "none" PROVE jobs'[j].video \in Video
    BY DEF UsedInv
  <2>1. CASE \E v \in need : new[v] = j
    BY <1>3, <2>1
  <2>2. CASE ~\E v \in need : new[v] = j
    <3>1. jobs[j].status # "none" /\ jobs'[j].video = jobs[j].video
      BY <1>4, <2>2
    <3> QED BY <3>1 DEF TypeInv, UsedInv
  <2> QED BY <2>1, <2>2
<1>7. video' \in [Video -> VideoRow]
  <2>1. ASSUME NEW r \in VideoRow
        PROVE  Expire(r) \in VideoRow /\ [r EXCEPT !.status = "error"] \in VideoRow
    BY DEF Expire, VideoRow, VideoStatus
  <2>2. PICK given \in SUBSET {v \in Video : Unrecoverable(v)} :
          video' = [v \in Video |-> IF IsExpired(v) THEN Expire(video[v])
                                    ELSE IF v \in given THEN [video[v] EXCEPT !.status = "error"]
                                         ELSE video[v]]
    BY DEF Restart
  <2> QED BY <1>t, <2>1, <2>2
<1>8. worker' \in [Worker -> WorkerState] /\ \A w \in Worker : worker'[w].pc = "idle"
  BY NewTypes DEF Restart, IdleWorker
<1>9. PcInv'
  BY <1>8 DEF PcInv, JobOf
<1>10. unreported' \in SUBSET Video
  BY ReportTypes DEF Restart
<1>11. TypeOK'
  <2>1. pending' \in [Video -> SUBSET Kind] /\ UNCHANGED <<issued, expired, gw>>
    BY DEF Restart
  <2> QED BY <1>t, <1>5, <1>7, <1>8, <1>10, <2>1 DEF TypeOK
<1> QED BY <1>6, <1>9, <1>11 DEF TypeInv

\* Time keeps the types.
LEMMA TimeTypes ==
  ASSUME TypeInv,
         \/ \E j \in Job : LeaseLapses(j) \/ RetryDue(j)
         \/ \E q \in Quote : QuoteExpires(q)
  PROVE  TypeInv'
<1>t. TypeOK /\ jobs \in [Job -> JobRow] /\ expired \in [Quote -> BOOLEAN]
  BY DEF TypeInv, TypeOK
<1>1. ASSUME NEW j \in Job, LeaseLapses(j) \/ RetryDue(j) PROVE TypeInv'
  <2>1. jobs[j] \in JobRow /\ jobs[j].status # "none"
    BY <1>t, <1>1 DEF LeaseLapses, RetryDue
  <2>2. PICK r \in JobRow : Keeps(r, jobs[j]) /\ jobs' = [jobs EXCEPT ![j] = r]
    <3>1. CASE LeaseLapses(j)
      <4>1. Keeps([jobs[j] EXCEPT !.live = FALSE], jobs[j])
        BY <2>1 DEF Keeps, JobRow
      <4> QED BY <3>1, <4>1 DEF LeaseLapses, Keeps
    <3>2. CASE RetryDue(j)
      <4>1. Keeps([jobs[j] EXCEPT !.due = TRUE], jobs[j])
        BY <2>1 DEF Keeps, JobRow
      <4> QED BY <3>2, <4>1 DEF RetryDue, Keeps
    <3> QED BY <1>1, <3>1, <3>2
  <2>3. jobs' \in [Job -> JobRow] /\ Grows
    BY <1>t, <2>1, <2>2, JobSet DEF Keeps
  <2>4. worker' = worker
    BY <1>1 DEF LeaseLapses, RetryDue
  <2>5. PcInv' /\ UsedInv'
    BY <2>3, <2>4, PcStill
  <2>6. unreported' \in SUBSET Video
    <3>1. CASE LeaseLapses(j)
      <4>1. {w \in Worker : worker[w].job = j} \in SUBSET Worker
        OBVIOUS
      <4> QED BY <3>1, <4>1, ReportTypes DEF LeaseLapses
    <3>2. CASE RetryDue(j)
      BY <3>2, <1>t DEF RetryDue, TypeOK
    <3> QED BY <1>1, <3>1, <3>2
  <2> QED BY <1>1, <1>t, <2>3, <2>5, <2>6 DEF LeaseLapses, RetryDue, TypeInv, TypeOK
<1>2. ASSUME NEW q \in Quote, QuoteExpires(q) PROVE TypeInv'
  <2>1. expired' \in [Quote -> BOOLEAN]
    BY <1>t, <1>2 DEF QuoteExpires
  <2> QED BY <1>2, <1>t, <2>1, StillPc DEF QuoteExpires, TypeInv, TypeOK
<1> QED BY <1>1, <1>2

\* The gateway's own steps keep the types.
LEMMA GatewayStepTypes ==
  ASSUME TypeInv, NEW q \in Quote, Gateway(q)
  PROVE  TypeInv'
<1>t. TypeOK
  BY DEF TypeInv
<1>1. gw' \in [Quote -> GatewayRow]
  BY <1>t, GatewayTypes
     DEF Gateway, GatewayPays, GatewayStores, GatewayPauses, GatewayLeaseLapses, LateCancel
<1> QED BY <1>t, <1>1, StillPc DEF Gateway, TypeInv, TypeOK

\* Whatever the handlers, the workers, a restart, time and the gateway do.
LEMMA NextTypes ==
  ASSUME TypeInv, [Next]_vars
  PROVE  TypeInv'
<1>1. CASE UNCHANGED vars
  BY <1>1, StillPc DEF vars, TypeInv, TypeOK
<1>2. CASE Next
  BY <1>2, HandlerTypes, RunTypes, AcquireTypes, RestartTypes, TimeTypes, GatewayStepTypes DEF Next
<1> QED BY <1>1, <1>2

\* Before the first request nothing is stored and no worker runs.
LEMMA InitTypes ==
  ASSUME Init
  PROVE  TypeInv
<1>1. TypeOK
  BY NewTypes DEF Init, TypeOK
<1>2. PcInv /\ UsedInv
  BY DEF Init, PcInv, UsedInv, IdleWorker, NoJob
<1> QED BY <1>1, <1>2 DEF TypeInv

\* Every row of videos and video_jobs, every worker and every approval has its
\* declared shape after any sequence of handlers, claims, reports and restarts;
\* in particular no step of a worker reads a job or a video that does not exist.
THEOREM LifecycleTypes == Spec => []TypeOK
<1>1. Spec => []TypeInv
  BY InitTypes, NextTypes, PTL DEF Spec
<1>2. TypeInv => TypeOK
  BY DEF TypeInv
<1> QED BY <1>1, <1>2, PTL

-----------------------------------------------------------------------------
(* The gateway's view.                                                     *)

\* Workers count their generations from one.
GenInv == \A w \in Worker : worker[w].pc \notin {"idle", "stopped"} => worker[w].gen > 0

\* Nothing is admitted above the current generation, generations start with the
\* first lease, and only a known approval is leased.
LeaseInv ==
  \A q \in Quote : /\ gw[q].admitted <= gw[q].gen
                   /\ gw[q].job = None => gw[q].gen = 0
                   /\ gw[q].live => gw[q].phase # "none"

\* A claim starts a generation; every other step of a worker stays in it or ends it.
LEMMA GenNext ==
  ASSUME TypeInv, GenInv, [Next]_vars
  PROVE  GenInv'
<1>t. TypeOK /\ worker \in [Worker -> WorkerState] /\ jobs \in [Job -> JobRow]
  BY DEF TypeInv, TypeOK
<1>1. ASSUME NEW w \in Worker, NEW pc, Moves(w, pc), worker[w].pc \notin {"idle", "stopped"}
      PROVE  GenInv'
  BY <1>1 DEF GenInv, Moves
<1>2. ASSUME NEW w \in Worker, Rests(w)
      PROVE  GenInv'
  BY <1>2 DEF GenInv, Rests
<1>3. ASSUME NEW w \in Worker, Run(w)
      PROVE  GenInv'
  <2>w. worker[w].pc \notin {"idle", "stopped"}
    BY <1>3 DEF Run, StartJob, ActivateLease, RenewLease, ReadStatus, StartProcessing, BuildQuote,
       SetAwaitingApproval, ReadPlan, StoreAdmitted, CommitReady, JobFails, MarkSucceeded,
       RetryLater, MarkLost, FailJob, LoseLease, Interrupt, Working
  <2>1. CASE StartJob(w) \/ ActivateLease(w) \/ ReadStatus(w) \/ StartProcessing(w)
             \/ SetAwaitingApproval(w) \/ CommitReady(w) \/ (\E c \in Class : JobFails(w, c))
    <3>1. (\E pc : Goto(w, pc)) \/ (\E c : FailWith(w, c))
      BY <2>1 DEF StartJob, ActivateLease, ReadStatus, StartProcessing, SetAwaitingApproval,
         CommitReady, JobFails
    <3> QED BY <1>t, <1>1, <2>w, <3>1, WorkerEffects
  <2>2. CASE BuildQuote(w) \/ ReadPlan(w)
    <3> DEFINE final == video[VideoOf(w)].final
    <3>1. \/ \E q \in Quote : worker' = [worker EXCEPT ![w].pc = "publish", ![w].quote = q]
          \/ worker' = [worker EXCEPT ![w].pc = "store", ![w].quote = final]
          \/ worker' = [worker EXCEPT ![w].pc = "failed", ![w].class = "plain", ![w].quote = final]
          \/ FailWith(w, "approval")
      BY <2>2 DEF BuildQuote, ReadPlan
    <3> HIDE DEF final
    <3>2. Moves(w, "publish") \/ Moves(w, "store") \/ Moves(w, "failed")
      <4>1. ASSUME NEW pc, NEW q, worker' = [worker EXCEPT ![w].pc = pc, ![w].quote = q]
            PROVE  Moves(w, pc)
        BY <1>t, <4>1, WorkerEffects
      <4>2. ASSUME NEW pc, NEW c, NEW q,
                   worker' = [worker EXCEPT ![w].pc = pc, ![w].class = c, ![w].quote = q]
            PROVE  Moves(w, pc)
        BY <1>t, <4>2, WorkerEffects
      <4>3. FailWith(w, "approval") => Moves(w, "failed")
        BY <1>t, WorkerEffects
      <4> QED BY <3>1, <4>1, <4>2, <4>3
    <3> QED BY <1>1, <2>w, <3>2
  <2>3. CASE MarkSucceeded(w) \/ RetryLater(w) \/ MarkLost(w) \/ LoseLease(w)
             \/ (\E unpaid \in BOOLEAN : FailJob(w, unpaid))
    <3>1. Forget(w)
      BY <2>3 DEF MarkSucceeded, RetryLater, MarkLost, LoseLease, FailJob
    <3> QED BY <1>t, <1>2, <3>1, WorkerEffects
  <2>4. CASE Interrupt(w)
    <3>1. Rests(w)
      BY <1>t, <2>4 DEF Interrupt, Rests, IdleWorker
    <3> QED BY <1>2, <3>1
  <2>5. CASE RenewLease(w) \/ StoreAdmitted(w)
    BY <2>5 DEF RenewLease, StoreAdmitted, GenInv
  <2> QED BY <1>3, <2>1, <2>2, <2>3, <2>4, <2>5 DEF Run
<1>4. ASSUME NEW w \in Worker, NEW j \in Job, AcquireJob(w, j)
      PROVE  GenInv'
  <2>1. jobs[j].attempts + 1 > 0
    BY <1>t DEF JobRow
  <2>2. worker'[w].gen = jobs[j].attempts + 1 /\ \A u \in Worker : u # w => worker'[u] = worker[u]
    BY <1>t, <1>4 DEF AcquireJob, IdleWorker
  <2> QED BY <2>1, <2>2 DEF GenInv
<1>5. CASE UNCHANGED worker
  BY <1>5 DEF GenInv
<1>6. CASE Restart
  BY <1>6 DEF Restart, GenInv, IdleWorker
<1>7. ASSUME NEW v \in Video, Handlers(v)
      PROVE  UNCHANGED worker
  BY <1>7 DEF Handlers, AcceptUpload, ApproveVideo, ApproveLost, RequoteVideo, ResumeVideo,
     DeleteVideo, CleanupExpired, Enqueue, EnqueueFails
<1> QED BY <1>3, <1>4, <1>5, <1>6, <1>7 DEF Next, vars, LeaseLapses, RetryDue, QuoteExpires, Gateway

\* What a step does to the approval q, as the model's actions put it.
RowMoves(q) ==
  LET g == gw[q]
      h == gw'[q]
  IN
  \/ g.phase = "none" /\ ~expired[q] /\ h = [g EXCEPT !.phase = "open"]
  \/ \E w \in Worker : /\ worker[w].gen > 0 /\ worker[w].job # None
                       /\ LeaseAccepted(q, w)
                       /\ h = [g EXCEPT !.job = worker[w].job, !.gen = worker[w].gen,
                                        !.live = TRUE, !.late = h.late]
  \/ /\ g.phase = "open" /\ ~expired[q] /\ g.live /\ g.gen > 0
     /\ h = [g EXCEPT !.admitted = g.gen]
  \/ g.live /\ ~g.paid /\ h = [g EXCEPT !.phase = "cancelled", !.late = h.late]
  \/ /\ g.phase = "open" /\ ~expired[q] /\ g.live /\ g.admitted > 0 /\ g.admitted = g.gen
     /\ h = [g EXCEPT !.paid = TRUE]
  \/ g.phase = "open" /\ g.paid /\ h = [g EXCEPT !.phase = "paused"]
  \/ g.live /\ h = [g EXCEPT !.live = FALSE]
  \/ h = [g EXCEPT !.late = h.late]
  \/ h = [g EXCEPT !.stored = TRUE]

\* An update of the approval of no quote.
LEMMA NoRow ==
  ASSUME TypeOK, NEW q, q \notin Quote
  PROVE  /\ GatewayApproves(q) => UNCHANGED gw
         /\ \A w \in Worker : GatewayLeases(q, w) => UNCHANGED gw
         /\ \A f : /\ gw' = [gw EXCEPT ![q].admitted = f] => UNCHANGED gw
                   /\ gw' = [gw EXCEPT ![q].late = f] => UNCHANGED gw
                   /\ gw' = [gw EXCEPT ![q].phase = f] => UNCHANGED gw
<1>1. gw \in [Quote -> GatewayRow]
  BY DEF TypeOK
<1>2. GatewayApproves(q) => UNCHANGED gw
  BY <1>1 DEF GatewayApproves
<1>3. ASSUME NEW w \in Worker, GatewayLeases(q, w) PROVE UNCHANGED gw
  BY <1>1, <1>3 DEF GatewayLeases
<1>4. ASSUME NEW f
      PROVE  /\ gw' = [gw EXCEPT ![q].admitted = f] => UNCHANGED gw
             /\ gw' = [gw EXCEPT ![q].late = f] => UNCHANGED gw
             /\ gw' = [gw EXCEPT ![q].phase = f] => UNCHANGED gw
  BY <1>1
<1> QED BY <1>2, <1>3, <1>4

\* Only the approval q changes.
OnlyRow(q) == \A p \in Quote : p # q => gw'[p] = gw[p]

\* What a worker does to the approval it names.
LEMMA RunRow ==
  ASSUME TypeInv, GenInv, LeaseInv, NEW w \in Worker, Run(w)
  PROVE  UNCHANGED gw \/ \E q \in Quote : OnlyRow(q) /\ RowMoves(q)
<1>t. TypeOK /\ gw \in [Quote -> GatewayRow]
  BY DEF TypeInv, TypeOK
<1>w. worker[w].pc \notin {"idle", "stopped"} => worker[w].gen > 0
  BY DEF GenInv
<1>1. ASSUME NEW q \in Quote, LeaseAccepted(q, w), GatewayLeases(q, w), worker[w].gen > 0,
             worker[w].job # None
      PROVE  OnlyRow(q) /\ RowMoves(q)
  <2>1. OnlyRow(q)
    BY <1>t, <1>1 DEF GatewayLeases, OnlyRow
  <2>2. gw'[q] = [gw[q] EXCEPT !.job = worker[w].job, !.gen = worker[w].gen, !.live = TRUE,
                               !.late = gw'[q].late]
    BY <1>t, <1>1 DEF GatewayLeases, GatewayRow
  <2> QED BY <1>1, <2>1, <2>2 DEF RowMoves
<1>2. CASE ActivateLease(w) \/ RenewLease(w)
  <2>1. worker[w].gen > 0 /\ worker[w].job # None
    BY <1>w, <1>2 DEF TypeInv, PcInv, ActivateLease, RenewLease, Working
  <2>2. PICK q : UNCHANGED gw \/ (LeaseAccepted(q, w) /\ GatewayLeases(q, w))
    BY <1>2 DEF ActivateLease, RenewLease
  <2> QED BY <1>t, <1>1, <2>1, <2>2, NoRow
<1>3. CASE StoreAdmitted(w)
  <2> DEFINE q == worker[w].quote
  <2>1. CASE q \in Quote
    <3>1. /\ gw[q].phase = "open" /\ ~expired[q] /\ gw[q].live /\ gw[q].gen = worker[w].gen
          /\ gw'[q] = [gw[q] EXCEPT !.admitted = worker[w].gen] /\ OnlyRow(q)
      BY <1>t, <1>3, <2>1 DEF StoreAdmitted, OnlyRow
    <3>2. worker[w].gen > 0
      BY <1>w, <1>3 DEF StoreAdmitted
    <3> QED BY <2>1, <3>1, <3>2 DEF RowMoves
  <2>2. CASE q \notin Quote
    BY <1>t, <1>3, <2>2, NoRow DEF StoreAdmitted
  <2> QED BY <2>1, <2>2
<1>4. ASSUME CancelInFlight(w)
      PROVE  UNCHANGED gw \/ \E q \in Quote : OnlyRow(q) /\ RowMoves(q)
  <2> DEFINE q == video[VideoOf(w)].approved
  <2>1. UNCHANGED gw \/ gw' = [gw EXCEPT ![q].late = worker[w].gen]
    BY <1>4 DEF CancelInFlight
  <2>2. CASE q \in Quote /\ gw' = [gw EXCEPT ![q].late = worker[w].gen]
    <3>1. gw'[q] = [gw[q] EXCEPT !.late = gw'[q].late] /\ OnlyRow(q)
      BY <1>t, <2>2 DEF OnlyRow, GatewayRow
    <3> QED BY <2>2, <3>1 DEF RowMoves
  <2> QED BY <1>t, <2>1, <2>2, NoRow
<1>5. ASSUME NEW unpaid \in BOOLEAN, FailJob(w, unpaid)
      PROVE  UNCHANGED gw \/ \E q \in Quote : OnlyRow(q) /\ RowMoves(q)
  <2> DEFINE q == video[VideoOf(w)].approved
  <2>1. CASE Cancellable(q, worker[w].job, worker[w].gen)
             /\ gw' = [gw EXCEPT ![q].phase = "cancelled"]
    <3>1. CASE q \in Quote
      <4>1. gw[q].live /\ ~gw[q].paid /\ OnlyRow(q)
            /\ gw'[q] = [gw[q] EXCEPT !.phase = "cancelled"]
        BY <1>t, <2>1, <3>1 DEF Cancellable, OnlyRow
      <4>2. gw'[q] = [gw[q] EXCEPT !.phase = "cancelled", !.late = gw'[q].late]
        BY <1>t, <3>1, <4>1 DEF GatewayRow
      <4> QED BY <3>1, <4>1, <4>2 DEF RowMoves
    <3> QED BY <1>t, <2>1, <3>1, NoRow
  <2> QED BY <1>4, <1>5, <2>1 DEF FailJob
<1>6. CASE MarkLost(w)
  BY <1>4, <1>6 DEF MarkLost
<1> QED
  BY <1>2, <1>3, <1>5, <1>6 DEF Run, StartJob, ReadStatus, StartProcessing, BuildQuote,
     SetAwaitingApproval, ReadPlan, CommitReady, JobFails, MarkSucceeded, RetryLater, LoseLease,
     Interrupt

\* What the gateway does to an approval by itself.
LEMMA GatewayRowMoves ==
  ASSUME TypeInv, NEW q \in Quote, Gateway(q)
  PROVE  OnlyRow(q) /\ RowMoves(q)
<1>t. gw \in [Quote -> GatewayRow]
  BY DEF TypeInv, TypeOK
<1>1. CASE LateCancel(q)
  <2>1. gw[q].live /\ ~gw[q].paid /\ OnlyRow(q)
        /\ gw'[q] = [gw[q] EXCEPT !.phase = "cancelled", !.late = 0]
    BY <1>t, <1>1 DEF LateCancel, Cancellable, OnlyRow
  <2>2. gw'[q] = [gw[q] EXCEPT !.phase = "cancelled", !.late = gw'[q].late]
    BY <1>t, <2>1 DEF GatewayRow
  <2> QED BY <2>1, <2>2 DEF RowMoves
<1>2. CASE GatewayPays(q)
  BY <1>t, <1>2 DEF GatewayPays, OnlyRow, RowMoves
<1>3. CASE GatewayStores(q)
  BY <1>t, <1>3 DEF GatewayStores, OnlyRow, RowMoves
<1>4. CASE GatewayPauses(q)
  BY <1>t, <1>4 DEF GatewayPauses, OnlyRow, RowMoves
<1>5. CASE GatewayLeaseLapses(q)
  BY <1>t, <1>5 DEF GatewayLeaseLapses, OnlyRow, RowMoves
<1> QED BY <1>1, <1>2, <1>3, <1>4, <1>5 DEF Gateway

\* What any step does to the approvals, and to their ages.
LEMMA NextRow ==
  ASSUME TypeInv, GenInv, LeaseInv, [Next]_vars
  PROVE  \/ UNCHANGED <<gw, expired>>
         \/ UNCHANGED expired /\ \E q \in Quote : OnlyRow(q) /\ RowMoves(q)
         \/ UNCHANGED gw /\ \E q \in Quote : expired' = [expired EXCEPT ![q] = TRUE]
<1>t. TypeOK /\ gw \in [Quote -> GatewayRow]
  BY DEF TypeInv, TypeOK
<1>1. ASSUME NEW v \in Video, ApproveVideo(v) \/ ApproveLost(v)
      PROVE  UNCHANGED gw \/ \E q \in Quote : OnlyRow(q) /\ RowMoves(q)
  <2> DEFINE q == video[v].final
  <2>1. GatewayApproves(q) /\ ~expired[q]
    BY <1>1 DEF ApproveVideo, ApproveLost, Approvable
  <2>2. CASE q \in Quote
    <3>1. CASE gw[q].phase = "none"
      <4>1. gw'[q] = [gw[q] EXCEPT !.phase = "open"] /\ OnlyRow(q)
        BY <1>t, <2>1, <2>2, <3>1 DEF GatewayApproves, OnlyRow
      <4> QED BY <2>1, <2>2, <3>1, <4>1 DEF RowMoves
    <3>2. CASE gw[q].phase # "none"
      BY <1>t, <2>1, <2>2, <3>2 DEF GatewayApproves, GatewayRow
    <3> QED BY <3>1, <3>2
  <2> QED BY <1>t, <2>1, <2>2, NoRow
<1>2. ASSUME NEW v \in Video, Handlers(v)
      PROVE  UNCHANGED expired /\ (UNCHANGED gw \/ \E q \in Quote : OnlyRow(q) /\ RowMoves(q))
  BY <1>1, <1>2 DEF Handlers, AcceptUpload, ApproveVideo, ApproveLost, RequoteVideo, ResumeVideo,
     DeleteVideo, CleanupExpired, Enqueue, EnqueueFails
<1>3. ASSUME NEW w \in Worker, Run(w)
      PROVE  UNCHANGED expired
  BY <1>3 DEF Run, StartJob, ActivateLease, RenewLease, ReadStatus, StartProcessing, BuildQuote,
     SetAwaitingApproval, ReadPlan, StoreAdmitted, CommitReady, JobFails, MarkSucceeded, RetryLater,
     MarkLost, FailJob, LoseLease, Interrupt
<1>4. ASSUME NEW q \in Quote, Gateway(q)
      PROVE  UNCHANGED expired
  BY <1>4 DEF Gateway
<1>5. ASSUME NEW q \in Quote, QuoteExpires(q)
      PROVE  UNCHANGED gw /\ expired' = [expired EXCEPT ![q] = TRUE]
  BY <1>5 DEF QuoteExpires
<1>6. CASE Restart \/ UNCHANGED vars \/ (\E j \in Job : LeaseLapses(j) \/ RetryDue(j))
           \/ (\E w \in Worker, j \in Job : AcquireJob(w, j))
  BY <1>6 DEF Restart, vars, LeaseLapses, RetryDue, AcquireJob
<1> QED BY <1>2, <1>3, <1>4, <1>5, <1>6, RunRow, GatewayRowMoves DEF Next

\* So generations and leases stay in order.
LEMMA LeaseNext ==
  ASSUME TypeInv, GenInv, LeaseInv, [Next]_vars
  PROVE  LeaseInv'
<1>t. gw \in [Quote -> GatewayRow]
  BY DEF TypeInv, TypeOK
<1>1. CASE UNCHANGED gw
  BY <1>1 DEF LeaseInv
<1>2. ASSUME NEW q \in Quote, OnlyRow(q), RowMoves(q)
      PROVE  LeaseInv'
  <2>g. gw[q] \in GatewayRow /\ gw[q].gen \in Nat /\ gw[q].admitted \in Nat
    BY <1>t DEF GatewayRow
  <2>i. /\ gw[q].admitted <= gw[q].gen
        /\ gw[q].job = None => gw[q].gen = 0
        /\ gw[q].live => gw[q].phase # "none"
    BY DEF LeaseInv
  <2>1. ASSUME NEW w \in Worker, worker[w].gen > 0, worker[w].job # None, LeaseAccepted(q, w),
               gw'[q] = [gw[q] EXCEPT !.job = worker[w].job, !.gen = worker[w].gen,
                                      !.live = TRUE, !.late = gw'[q].late]
        PROVE  LeaseInv'
    <3>1. /\ gw'[q].phase = gw[q].phase /\ gw'[q].admitted = gw[q].admitted
          /\ gw'[q].gen = worker[w].gen /\ gw'[q].job = worker[w].job
      BY <2>g, <2>1 DEF GatewayRow
    <3>2. worker[w].gen \in Nat /\ gw[q].phase # "none"
          /\ (gw[q].job = None \/ gw[q].gen = worker[w].gen \/ gw[q].gen < worker[w].gen)
      BY <2>1 DEF TypeInv, TypeOK, WorkerState, LeaseAccepted
    <3>3. gw'[q].admitted <= gw'[q].gen
      <4>1. gw[q].gen <= worker[w].gen
        BY <2>g, <2>i, <3>2
      <4>2. gw[q].admitted <= gw[q].gen
        BY <2>i
      <4>3. gw[q].admitted <= worker[w].gen
        BY <2>g, <3>2, <4>1, <4>2
      <4> QED BY <3>1, <4>3
    <3> QED BY <1>2, <2>1, <3>1, <3>2, <3>3 DEF LeaseInv, OnlyRow
  <2>2. ASSUME gw'[q].gen = gw[q].gen, gw'[q].job = gw[q].job,
               gw'[q].admitted = gw[q].admitted \/ gw'[q].admitted = gw[q].gen,
               gw'[q].live => gw[q].live,
               gw'[q].phase = "none" => gw[q].phase = "none"
        PROVE  LeaseInv'
    BY <1>2, <2>g, <2>i, <2>2 DEF LeaseInv, OnlyRow
  <2>3. ASSUME NEW f, gw'[q] = [gw[q] EXCEPT !.phase = "cancelled", !.late = f]
        PROVE  LeaseInv'
    BY <2>g, <2>2, <2>3 DEF GatewayRow
  <2>4. ASSUME NEW f, f # "none", gw'[q] = [gw[q] EXCEPT !.phase = f]
        PROVE  LeaseInv'
    BY <2>g, <2>2, <2>4 DEF GatewayRow
  <2>5. CASE gw'[q] = [gw[q] EXCEPT !.admitted = gw[q].gen]
    BY <2>g, <2>2, <2>5 DEF GatewayRow
  <2>6. CASE \/ gw'[q] = [gw[q] EXCEPT !.paid = TRUE] \/ gw'[q] = [gw[q] EXCEPT !.live = FALSE]
             \/ gw'[q] = [gw[q] EXCEPT !.late = gw'[q].late]
             \/ gw'[q] = [gw[q] EXCEPT !.stored = TRUE]
    BY <2>g, <2>2, <2>6 DEF GatewayRow
  <2> QED BY <1>2, <2>1, <2>3, <2>4, <2>5, <2>6 DEF RowMoves
<1> QED BY <1>1, <1>2, NextRow

\* A quote that is seen alike.
LEMMA SeenAlike ==
  ASSUME NEW q, expired'[q] = expired[q], gw'[q] = gw[q]
  PROVE  Seen(q)' = Seen(q)
<1>1. AdmittedNow(q)' = AdmittedNow(q)
  BY DEF AdmittedNow
<1> QED BY <1>1 DEF Seen

\* One quote does a step of the view, the others are seen alike.
LEMMA GatewaysStep ==
  ASSUME NEW q \in Quote,
         Gateways!Asked(Seen(q), Seen(q)') \/ Gateways!Unasked(Seen(q), Seen(q)'),
         \A p \in Quote \ {q} : Seen(p)' = Seen(p)
  PROVE  Gateways!Next
<1>1. Gateways!Step(q)
  BY DEF Gateways!Step
<1> QED BY <1>1 DEF Gateways!Next

seen == [q \in Quote |-> Seen(q)]

\* A row of the view with its fields.
IsRow(r) ==
  r = [phase |-> r.phase, job |-> r.job, gen |-> r.gen, live |-> r.live,
       admitted |-> r.admitted, paid |-> r.paid, expired |-> r.expired]

\* What is seen of an approval is such a row, before and after a step.
LEMMA SeenFields ==
  ASSUME NEW q
  PROVE  /\ IsRow(Seen(q)) /\ IsRow(Seen(q)')
         /\ Seen(q).phase = gw[q].phase /\ Seen(q).job = gw[q].job /\ Seen(q).gen = gw[q].gen
         /\ Seen(q).live = gw[q].live /\ Seen(q).admitted = AdmittedNow(q)
         /\ Seen(q).paid = gw[q].paid /\ Seen(q).expired = expired[q]
         /\ Seen(q)'.phase = gw'[q].phase /\ Seen(q)'.job = gw'[q].job
         /\ Seen(q)'.gen = gw'[q].gen /\ Seen(q)'.live = gw'[q].live
         /\ Seen(q)'.admitted = AdmittedNow(q)' /\ Seen(q)'.paid = gw'[q].paid
         /\ Seen(q)'.expired = expired'[q]
BY DEF Seen, IsRow

\* The fields that two rows may have in common.
SameLease(r, s) == s.job = r.job /\ s.gen = r.gen /\ s.live = r.live
SamePaid(r, s) == s.paid = r.paid /\ s.expired = r.expired

\* Two rows that differ in some fields.
LEMMA RowsDiffer ==
  ASSUME NEW r, NEW s, IsRow(r), IsRow(s)
  PROVE  /\ SameLease(r, s) /\ SamePaid(r, s) /\ s.admitted = r.admitted
            => s = [r EXCEPT !.phase = s.phase]
         /\ s.phase = r.phase /\ SameLease(r, s) /\ SamePaid(r, s)
            => s = [r EXCEPT !.admitted = s.admitted]
         /\ s.phase = r.phase /\ SameLease(r, s) /\ s.admitted = r.admitted
            => /\ s.expired = r.expired => s = [r EXCEPT !.paid = s.paid]
               /\ s.paid = r.paid => s = [r EXCEPT !.expired = s.expired]
         /\ s.phase = r.phase /\ SamePaid(r, s)
            => /\ s = [r EXCEPT !.job = s.job, !.gen = s.gen, !.live = s.live,
                                !.admitted = s.admitted]
               /\ s.job = r.job /\ s.gen = r.gen /\ s.admitted = r.admitted
                  => s = [r EXCEPT !.live = s.live]
BY DEF IsRow, SameLease, SamePaid

\* If generation and admission stay, so does what was admitted under it.
LEMMA AdmittedStill ==
  ASSUME NEW q, gw'[q].admitted = gw[q].admitted, gw'[q].gen = gw[q].gen
  PROVE  AdmittedNow(q)' = AdmittedNow(q)
BY DEF AdmittedNow

\* What happens to a row is what the view allows, or is not seen.
LEMMA RowSeen ==
  ASSUME TypeInv, LeaseInv, NEW q \in Quote, UNCHANGED expired, RowMoves(q)
  PROVE  \/ Gateways!Asked(Seen(q), Seen(q)') \/ Gateways!Unasked(Seen(q), Seen(q)')
         \/ Seen(q)' = Seen(q)
<1>g. gw[q] \in GatewayRow /\ gw[q].gen \in Nat /\ gw[q].admitted \in Nat
  BY DEF TypeInv, TypeOK, GatewayRow
<1>i. /\ gw[q].admitted <= gw[q].gen
      /\ gw[q].job = None => gw[q].gen = 0
      /\ gw[q].live => gw[q].phase # "none"
  BY DEF LeaseInv
<1>p. ASSUME NEW p, NEW f, \/ gw'[q] = [gw[q] EXCEPT !.phase = p]
                          \/ gw'[q] = [gw[q] EXCEPT !.phase = p, !.late = f]
      PROVE  Seen(q)' = [Seen(q) EXCEPT !.phase = p]
  <2>1. /\ gw'[q].phase = p /\ gw'[q].job = gw[q].job /\ gw'[q].gen = gw[q].gen
        /\ gw'[q].live = gw[q].live /\ gw'[q].admitted = gw[q].admitted
        /\ gw'[q].paid = gw[q].paid
    BY <1>g, <1>p DEF GatewayRow
  <2>2. /\ SameLease(Seen(q), Seen(q)') /\ SamePaid(Seen(q), Seen(q)')
        /\ Seen(q)'.admitted = Seen(q).admitted /\ Seen(q)'.phase = p
    BY <2>1, AdmittedStill, SeenFields DEF SameLease, SamePaid
  <2>3. Seen(q)' = [Seen(q) EXCEPT !.phase = Seen(q)'.phase]
    BY <2>2, SeenFields, RowsDiffer
  <2> QED BY <2>2, <2>3
<1>1. CASE gw[q].phase = "none" /\ ~expired[q] /\ gw'[q] = [gw[q] EXCEPT !.phase = "open"]
  <2>1. Gateways!Granted(Seen(q), Seen(q)')
    BY <1>p, <1>1, SeenFields DEF Gateways!Granted
  <2> QED BY <2>1 DEF Gateways!Asked
<1>2. ASSUME NEW w \in Worker, worker[w].gen > 0, worker[w].job # None, LeaseAccepted(q, w),
             gw'[q] = [gw[q] EXCEPT !.job = worker[w].job, !.gen = worker[w].gen,
                                    !.live = TRUE, !.late = gw'[q].late]
      PROVE  Gateways!Leased(Seen(q), Seen(q)')
  <2>1. worker[w].gen \in Nat
    BY DEF TypeInv, TypeOK, WorkerState
  <2>2. /\ gw'[q].phase = gw[q].phase /\ gw'[q].job = worker[w].job
        /\ gw'[q].gen = worker[w].gen /\ gw'[q].live = TRUE
        /\ gw'[q].admitted = gw[q].admitted /\ gw'[q].paid = gw[q].paid
    BY <1>g, <1>2 DEF GatewayRow
  <2>3. \/ gw[q].job = None /\ gw[q].gen = 0
        \/ gw[q].job = worker[w].job /\ gw[q].gen = worker[w].gen /\ gw[q].live
        \/ gw[q].job = worker[w].job /\ gw[q].gen < worker[w].gen
    BY <1>2, <1>i DEF LeaseAccepted
  <2>4. AdmittedNow(q)' = (AdmittedNow(q) /\ gw[q].gen = worker[w].gen)
    <3>1. CASE gw[q].gen = worker[w].gen
      BY <2>2, <3>1 DEF AdmittedNow
    <3>2. CASE gw[q].gen < worker[w].gen
      <4>1. ~AdmittedNow(q)'
        <5>1. gw[q].admitted <= gw[q].gen
          BY <1>i
        <5>2. gw[q].admitted # worker[w].gen
          BY <1>g, <2>1, <3>2, <5>1
        <5> QED BY <2>2, <5>2 DEF AdmittedNow
      <4>2. gw[q].gen # worker[w].gen
        BY <1>g, <2>1, <3>2
      <4> QED BY <4>1, <4>2 DEF AdmittedNow
    <3> QED BY <1>2, <2>1, <2>3, <3>1, <3>2
  <2>5. /\ Seen(q)'.phase = Seen(q).phase /\ SamePaid(Seen(q), Seen(q)')
        /\ Seen(q)'.job = worker[w].job /\ Seen(q)'.gen = worker[w].gen /\ Seen(q)'.live = TRUE
        /\ Seen(q)'.admitted = (Seen(q).admitted /\ Seen(q).gen = worker[w].gen)
    BY <2>2, <2>4, SeenFields DEF SamePaid
  <2>6. Seen(q)' = [Seen(q) EXCEPT !.job = Seen(q)'.job, !.gen = Seen(q)'.gen,
                                   !.live = Seen(q)'.live, !.admitted = Seen(q)'.admitted]
    BY <2>5, SeenFields, RowsDiffer
  <2>7. /\ Seen(q).phase # "none"
        /\ \/ Seen(q).job = None
           \/ Seen(q).job = worker[w].job /\ Seen(q).gen < worker[w].gen
           \/ Seen(q).job = worker[w].job /\ Seen(q).gen = worker[w].gen /\ Seen(q).live
    BY <1>2, <2>3, SeenFields DEF LeaseAccepted
  <2> QED BY <2>5, <2>6, <2>7 DEF Gateways!Leased
<1>3. CASE /\ gw[q].phase = "open" /\ ~expired[q] /\ gw[q].live /\ gw[q].gen > 0
           /\ gw'[q] = [gw[q] EXCEPT !.admitted = gw[q].gen]
  <2>1. /\ gw'[q].phase = gw[q].phase /\ gw'[q].job = gw[q].job /\ gw'[q].gen = gw[q].gen
        /\ gw'[q].live = gw[q].live /\ gw'[q].admitted = gw[q].gen
        /\ gw'[q].paid = gw[q].paid
    BY <1>g, <1>3 DEF GatewayRow
  <2>2. AdmittedNow(q)' = TRUE
    BY <1>3, <2>1 DEF AdmittedNow
  <2>3. /\ Seen(q)'.phase = Seen(q).phase /\ SameLease(Seen(q), Seen(q)')
        /\ SamePaid(Seen(q), Seen(q)') /\ Seen(q)'.admitted = TRUE
    BY <2>1, <2>2, SeenFields DEF SameLease, SamePaid
  <2>4. Seen(q)' = [Seen(q) EXCEPT !.admitted = Seen(q)'.admitted]
    BY <2>3, SeenFields, RowsDiffer
  <2>5. Gateways!Admitted(Seen(q), Seen(q)')
    BY <1>3, <2>3, <2>4, SeenFields DEF Gateways!Admitted, Gateways!Working
  <2> QED BY <2>5 DEF Gateways!Asked
<1>4. CASE /\ gw[q].live /\ ~gw[q].paid
           /\ gw'[q] = [gw[q] EXCEPT !.phase = "cancelled", !.late = gw'[q].late]
  <2>1. Gateways!Cancelled(Seen(q), Seen(q)')
    BY <1>i, <1>p, <1>4, SeenFields DEF Gateways!Cancelled
  <2> QED BY <2>1 DEF Gateways!Asked
<1>5. CASE /\ gw[q].phase = "open" /\ ~expired[q] /\ gw[q].live /\ gw[q].admitted > 0
           /\ gw[q].admitted = gw[q].gen
           /\ gw'[q] = [gw[q] EXCEPT !.paid = TRUE]
  <2>1. /\ gw'[q].phase = gw[q].phase /\ gw'[q].job = gw[q].job /\ gw'[q].gen = gw[q].gen
        /\ gw'[q].live = gw[q].live /\ gw'[q].admitted = gw[q].admitted /\ gw'[q].paid = TRUE
    BY <1>g, <1>5 DEF GatewayRow
  <2>2. AdmittedNow(q) = TRUE
    BY <1>5 DEF AdmittedNow
  <2>3. /\ Seen(q)'.phase = Seen(q).phase /\ SameLease(Seen(q), Seen(q)')
        /\ Seen(q)'.admitted = Seen(q).admitted /\ Seen(q)'.expired = Seen(q).expired
        /\ Seen(q)'.paid = TRUE
    BY <2>1, AdmittedStill, SeenFields DEF SameLease
  <2>4. Seen(q)' = [Seen(q) EXCEPT !.paid = Seen(q)'.paid]
    BY <2>3, SeenFields, RowsDiffer
  <2>5. Gateways!Paid(Seen(q), Seen(q)')
    BY <1>5, <2>2, <2>3, <2>4, SeenFields DEF Gateways!Paid, Gateways!Working
  <2> QED BY <2>5 DEF Gateways!Unasked
<1>6. CASE gw[q].phase = "open" /\ gw[q].paid /\ gw'[q] = [gw[q] EXCEPT !.phase = "paused"]
  <2>1. Gateways!Paused(Seen(q), Seen(q)')
    BY <1>p, <1>6, SeenFields DEF Gateways!Paused
  <2> QED BY <2>1 DEF Gateways!Unasked
<1>7. CASE gw[q].live /\ gw'[q] = [gw[q] EXCEPT !.live = FALSE]
  <2>1. /\ gw'[q].phase = gw[q].phase /\ gw'[q].job = gw[q].job /\ gw'[q].gen = gw[q].gen
        /\ gw'[q].live = FALSE /\ gw'[q].admitted = gw[q].admitted /\ gw'[q].paid = gw[q].paid
    BY <1>g, <1>7 DEF GatewayRow
  <2>2. /\ Seen(q)'.phase = Seen(q).phase /\ SamePaid(Seen(q), Seen(q)')
        /\ Seen(q)'.job = Seen(q).job /\ Seen(q)'.gen = Seen(q).gen
        /\ Seen(q)'.admitted = Seen(q).admitted /\ Seen(q)'.live = FALSE
    BY <2>1, AdmittedStill, SeenFields DEF SamePaid
  <2>3. Seen(q)' = [Seen(q) EXCEPT !.live = Seen(q)'.live]
    BY <2>2, SeenFields, RowsDiffer
  <2>4. Gateways!Lapsed(Seen(q), Seen(q)')
    BY <1>7, <2>2, <2>3, SeenFields DEF Gateways!Lapsed
  <2> QED BY <2>4 DEF Gateways!Unasked
<1>8. CASE gw'[q] = [gw[q] EXCEPT !.late = gw'[q].late] \/ gw'[q] = [gw[q] EXCEPT !.stored = TRUE]
  <2>1. /\ gw'[q].phase = gw[q].phase /\ gw'[q].job = gw[q].job /\ gw'[q].gen = gw[q].gen
        /\ gw'[q].live = gw[q].live /\ gw'[q].admitted = gw[q].admitted
        /\ gw'[q].paid = gw[q].paid
    BY <1>g, <1>8 DEF GatewayRow
  <2> QED BY <2>1, AdmittedStill DEF Seen
<1> QED BY <1>1, <1>2, <1>3, <1>4, <1>5, <1>6, <1>7, <1>8 DEF RowMoves, Gateways!Asked

\* Whatever handlers, workers, time and restarts do, the approvals they see do what
\* GatewayView, and so the gateway, lets them.
THEOREM AssumesOnlyView == Spec => RespectsView
<1>1. Init => TypeInv /\ GenInv /\ LeaseInv
  <2>1. Init => GenInv /\ LeaseInv
    BY DEF Init, GenInv, LeaseInv, IdleWorker, NoApproval
  <2> QED BY <2>1, InitTypes
<1>2. Spec => [](TypeInv /\ GenInv /\ LeaseInv)
  BY <1>1, NextTypes, GenNext, LeaseNext, PTL DEF Spec
<1>3. Init => Gateways!Init
  <2> SUFFICES ASSUME Init, NEW q \in Quote
               PROVE  Seen(q) = Gateways!Unknown
    BY DEF Gateways!Init
  <2>1. /\ Seen(q).phase = "none" /\ Seen(q).job = None /\ Seen(q).gen = 0
        /\ Seen(q).live = FALSE /\ Seen(q).admitted = FALSE
        /\ Seen(q).paid = FALSE /\ Seen(q).expired = FALSE
    <3>1. gw[q] = NoApproval /\ expired[q] = FALSE
      BY DEF Init
    <3>2. AdmittedNow(q) = FALSE
      BY <3>1 DEF NoApproval, AdmittedNow
    <3> QED BY <3>1, <3>2, SeenFields DEF NoApproval
  <2> QED BY <2>1, SeenFields DEF IsRow, Gateways!Unknown
<1>4. ASSUME TypeInv, GenInv, LeaseInv, [Next]_vars
      PROVE  [Gateways!Next]_seen
  <2>1. CASE UNCHANGED <<gw, expired>>
    BY <2>1, SeenAlike DEF seen
  <2>2. ASSUME UNCHANGED expired, NEW q \in Quote, OnlyRow(q), RowMoves(q)
        PROVE  Gateways!Next \/ seen' = seen
    <3>1. \A p \in Quote \ {q} : Seen(p)' = Seen(p)
      BY <2>2, SeenAlike DEF OnlyRow
    <3>2. CASE Seen(q)' = Seen(q)
      BY <3>1, <3>2 DEF seen
    <3> QED BY <1>4, <2>2, <3>1, <3>2, RowSeen, GatewaysStep
  <2>3. ASSUME UNCHANGED gw, NEW q \in Quote, expired' = [expired EXCEPT ![q] = TRUE]
        PROVE  Gateways!Next
    <3>1. expired'[q] = TRUE /\ \A p \in Quote \ {q} : expired'[p] = expired[p]
      BY <1>4, <2>3 DEF TypeInv, TypeOK
    <3>2. \A p \in Quote \ {q} : Seen(p)' = Seen(p)
      BY <2>3, <3>1, SeenAlike
    <3>3. Gateways!Expired(Seen(q), Seen(q)')
      <4>1. /\ Seen(q)'.phase = Seen(q).phase /\ SameLease(Seen(q), Seen(q)')
            /\ Seen(q)'.admitted = Seen(q).admitted /\ Seen(q)'.paid = Seen(q).paid
            /\ Seen(q)'.expired = TRUE
        <5>1. gw'[q] = gw[q] /\ AdmittedNow(q)' = AdmittedNow(q)
          BY <2>3, AdmittedStill
        <5> QED BY <3>1, <5>1, SeenFields DEF SameLease
      <4>2. Seen(q)' = [Seen(q) EXCEPT !.expired = Seen(q)'.expired]
        BY <4>1, SeenFields, RowsDiffer
      <4> QED BY <4>1, <4>2 DEF Gateways!Expired
    <3> QED BY <3>2, <3>3, GatewaysStep DEF Gateways!Unasked
  <2> QED BY <1>4, <2>1, <2>2, <2>3, NextRow
<1> QED BY <1>2, <1>3, <1>4, PTL DEF Spec, RespectsView, Gateways!Spec, seen

\* Nothing the gateway may do to an approval by itself is left out: where only the
\* row of q moves, and as the view has it, this model has the step, too.
THEOREM GatewayUnrestricted ==
  ASSUME TypeInv, NEW q \in Quote, NEW h \in GatewayRow, gw' = [gw EXCEPT ![q] = h],
         h.admitted = gw[q].admitted, h.stored = gw[q].stored, h.late = gw[q].late,
         UNCHANGED <<video, jobs, issued, expired, worker, pending, unreported>>,
         Gateways!Unasked(Seen(q), Seen(q)')
  PROVE  Gateway(q) \/ UNCHANGED vars
<1>t. gw \in [Quote -> GatewayRow] /\ gw[q] \in GatewayRow
  BY DEF TypeInv, TypeOK
<1>1. gw'[q] = h
  BY <1>t
<1>h. h = [phase |-> h.phase, job |-> h.job, gen |-> h.gen, live |-> h.live,
           admitted |-> h.admitted, paid |-> h.paid, stored |-> h.stored, late |-> h.late]
  BY DEF GatewayRow
<1>2. CASE Gateways!Paid(Seen(q), Seen(q)')
  <2>1. Seen(q)' = [Seen(q) EXCEPT !.paid = TRUE] /\ Gateways!Working(Seen(q))
        /\ Seen(q).admitted
    BY <1>2 DEF Gateways!Paid
  <2>2. /\ Seen(q)'.phase = Seen(q).phase /\ SameLease(Seen(q), Seen(q)') /\ Seen(q)'.paid = TRUE
    BY <2>1, SeenFields DEF SameLease, IsRow
  <2>3. h = [gw[q] EXCEPT !.paid = TRUE]
    BY <1>t, <1>1, <1>h, <2>2, SeenFields DEF SameLease, GatewayRow
  <2>4. /\ gw[q].phase = "open" /\ ~expired[q] /\ gw[q].live
        /\ gw[q].admitted > 0 /\ gw[q].admitted = gw[q].gen
    BY <2>1, SeenFields DEF Gateways!Working, AdmittedNow
  <2>5. gw' = [gw EXCEPT ![q].paid = TRUE]
    BY <1>t, <2>3
  <2>6. CASE gw[q].paid
    <3>1. h = gw[q]
      BY <1>t, <2>3, <2>6 DEF GatewayRow
    <3> QED BY <1>t, <3>1 DEF vars
  <2> QED BY <2>4, <2>5, <2>6 DEF Gateway, GatewayPays
<1>3. CASE Gateways!Paused(Seen(q), Seen(q)')
  <2>1. Seen(q)' = [Seen(q) EXCEPT !.phase = "paused"] /\ Seen(q).paid
        /\ Seen(q).phase \in {"open", "paused"}
    BY <1>3 DEF Gateways!Paused
  <2>2. /\ Seen(q)'.phase = "paused" /\ SameLease(Seen(q), Seen(q)')
        /\ Seen(q)'.paid = Seen(q).paid
    BY <2>1, SeenFields DEF SameLease, IsRow
  <2>3. h = [gw[q] EXCEPT !.phase = "paused"]
    BY <1>t, <1>1, <1>h, <2>2, SeenFields DEF SameLease, GatewayRow
  <2>4. CASE gw[q].phase = "paused"
    <3>1. h = gw[q]
      BY <1>t, <2>3, <2>4 DEF GatewayRow
    <3> QED BY <1>t, <3>1 DEF vars
  <2>5. CASE gw[q].phase = "open"
    <3>1. gw' = [gw EXCEPT ![q].phase = "paused"] /\ gw[q].paid
      BY <1>t, <2>1, <2>3, SeenFields
    <3> QED BY <2>5, <3>1 DEF Gateway, GatewayPauses
  <2> QED BY <2>1, <2>4, <2>5, SeenFields
<1>4. CASE Gateways!Lapsed(Seen(q), Seen(q)')
  <2>1. Seen(q)' = [Seen(q) EXCEPT !.live = FALSE] /\ Seen(q).live
    BY <1>4 DEF Gateways!Lapsed
  <2>2. /\ Seen(q)'.phase = Seen(q).phase /\ Seen(q)'.job = Seen(q).job
        /\ Seen(q)'.gen = Seen(q).gen /\ Seen(q)'.live = FALSE /\ Seen(q)'.paid = Seen(q).paid
    BY <2>1, SeenFields DEF IsRow
  <2>3. h = [gw[q] EXCEPT !.live = FALSE]
    BY <1>t, <1>1, <1>h, <2>2, SeenFields DEF GatewayRow
  <2>4. gw' = [gw EXCEPT ![q].live = FALSE] /\ gw[q].live
    BY <1>t, <2>1, <2>3, SeenFields
  <2> QED BY <2>4 DEF Gateway, GatewayLeaseLapses
<1>5. CASE Gateways!Expired(Seen(q), Seen(q)')
  <2>1. Seen(q)' = [Seen(q) EXCEPT !.expired = TRUE]
    BY <1>5 DEF Gateways!Expired
  <2>2. /\ Seen(q)'.phase = Seen(q).phase /\ SameLease(Seen(q), Seen(q)')
        /\ Seen(q)'.paid = Seen(q).paid
    BY <2>1, SeenFields DEF SameLease, IsRow
  <2>3. h = gw[q]
    BY <1>t, <1>1, <1>h, <2>2, SeenFields DEF SameLease, GatewayRow
  <2> QED BY <1>t, <2>3 DEF vars
<1> QED BY <1>2, <1>3, <1>4, <1>5 DEF Gateways!Unasked

=============================================================================
