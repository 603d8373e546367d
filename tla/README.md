# Verification of Autonomi Video Management

TLA+ models of the parts of this repository that spend money, keep state across
failures or share state between tasks: the payment gateway (`crates/antd_service`),
the admin service (`crates/rust_admin`) with the web client's sessions, the streaming
service (`crates/rust_stream`), the gateway client both services use (`crates/common`)
and the launchers. Small instances are checked with TLC; the safety properties of every
part are proved with TLAPS for every value of the constants, and so is that the two models
which meet at the gateway's interface fit together. What is left to TLC is named in
section 4.

## 1. The system

| Part | Where | State it keeps | Operations |
|---|---|---|---|
| Payment journal | `antd_service/src/payments/journal.rs`, SQLite | approvals, execution leases, uploads, transactions, signing guard | approve, activate, cancel_unpaid, admit, reserve, record_signed, settle, finish, initialize |
| Upload and resume tasks | `antd_service/src/payments/mod.rs` | running tasks, 4 permits, 4 retained SDK sessions | upload, resume, keep_resume, the spawned bodies and their deadlines |
| Controlled signer | `antd_service/src/payments/signer.rs` | one lock; the account's nonces | pay, transact |
| Video rows and handlers | `rust_admin/src/upload.rs`, `routes/` | `videos` (SQLite), files on disk | accept_upload, approve, requote, resume, delete, visibility and publication flags |
| Jobs, workers, recovery | `rust_admin/src/jobs/` | `video_jobs` with lease, attempts, run_after | enqueue, acquire, renew, succeed, fail, interrupt, recover, clean up |
| Pipeline | `rust_admin/src/pipeline/` | variants, segments, the final quote | process, quote, publish |
| Catalog publication | `rust_admin/src/catalog/` | drafts, generation, snapshot, state file | prepare, approve, finalize, resume, restore |
| Auth sessions | `rust_admin/src/auth/` | refresh sessions (SQLite) | login, refresh with rotation, logout, admin and CSRF checks |
| Web API client | `apps/web/src/api/client.ts`, `hooks/useAuth.ts` | the browser's cookies, one shared refresh per tab | request, retry, refresh, restore |
| Streaming | `rust_stream/src/` | snapshot of the catalog file; catalog, manifest and segment caches; fetch permits; shared fetches | playlist, segment, health, fetch, insert, prune |
| Gateway client | `common/src/antd/`, `common/src/resilience.rs`, `antd_client.rs` of each service | circuit breaker: two atomics | check, request, retry, fall back, record_result |
| Launchers | `launcher_core`, `standalone_launcher`, `apps/desktop` | lock file, pid files, child processes, ports | launch_stack, stop_children, cleanup_stale_children, setup, quit |
| Views, scripts | `apps/web`, `scripts` | backups | restore |

How they interact. A viewer's upload becomes a `videos` row and a `process` job.
A worker transcodes it, asks the gateway for quotes and stores a *final quote*
(`awaiting_approval`). The operator approves; the admin service has the gateway
store the approval (a budget with storage and gas caps and the permitted contents)
while the row is locked, then enqueues an `upload` job. The worker that runs it
activates an *execution lease* at the gateway for (job, owner, generation) and
uploads the objects; for each one the gateway journals every transaction before it
signs, sends and settles it. When everything is stored the row becomes `ready` with
its catalog snapshot. Failures are sorted into *retry*, *approval required* (nothing
was paid, proved by `cancel_unpaid`) and *payment recovery required* (Resume goes on
under the same approval).

What is hard about it:

- **Two databases, no common transaction.** The admin's rows and the gateway's
  journal are written one after the other, and every answer in between can be lost.
- **Leases.** A worker that lost its lease goes on until it notices; its generation
  fences its writes in the database and its payments in the journal.
- **Uncertain sends.** A transaction may be mined although sending it reported an
  error, its receipt timed out or the process died.
- **Merkle batches** may cost more than estimated; the vault draws on an allowance.
- **Deadlines that cut a task between a commit and what follows it.**
- **Restarts at any point**, with SDK sessions lost and files expiring.
- **Shared fetches and permits.** A request may be dropped at any await, and the task
  it started may die; what they hold has to come back.
- **A breaker without a lock.** Its two atomics are written one after the other, by
  calls that were sent before it opened as well.
- **Rotation.** A refresh token works once, and several tabs, lost answers and retries
  use it at the same time.
- **Pids and ports outlive their owners.** A launcher that crashed leaves sidecars,
  files and ports behind, and pids are used again.

`PROJECT.json` lists under `hazards` where each of these bites, and which property
watches it.

## 2. The modules

| Module | Models | Composes |
|---|---|---|
| `PaymentAuthority` | what the operator is promised about an approval: a budget granted once, charged only within it, closed or cancelled | |
| `GatewayView` | the gateway as another service may know it: of each approval its phase, lease, admission, payment and age | |
| `PaymentGateway` | journal, tasks, signer and chain, and the properties and invariant parts | `INSTANCE PaymentAuthority`, `INSTANCE GatewayView` (refinements) |
| `MCPaymentGateway` | instances | extends `PaymentGateway` |
| `PaymentGatewayProofs` | proofs: state invariants, action properties, the lease property, the two refinements | extends `PaymentGateway`, TLAPS |
| `VideoLifecycle` | video rows, jobs, workers, handlers, recovery; the gateway as the admin sees it | `INSTANCE GatewayView` (refinement) |
| `MCVideoLifecycle` | instances | extends `VideoLifecycle` |
| `VideoLifecycleProofs` | proofs: types, what every operation leaves alone, and the approvals against `GatewayView` | extends `VideoLifecycle`, TLAPS |
| `VideoLifecycleSafety` | proofs: the safety properties | extends `VideoLifecycleProofs` |
| `CatalogPublication` | what the catalog shows: rows, generation, snapshot, state file, the two catalog jobs and their payment | `INSTANCE GatewayView` (refinement) |
| `MCCatalogPublication` | instances | extends `CatalogPublication` |
| `CatalogPublicationProofs` | proofs: the payment of a catalog, its plans, and its approvals against `GatewayView` | extends `CatalogPublication`, TLAPS |
| `AuthSessions` | refresh sessions, cookies, and the API client in the tabs of one browser | |
| `MCAuthSessions` | instance | extends `AuthSessions` |
| `AuthSessionsProofs` | proofs: sessions, writes, and tabs that do not sign themselves out | extends `AuthSessions`, TLAPS |
| `StreamService` | requests, caches, permits and shared fetches of the streaming service; a download is a call that ends | |
| `MCStreamService` | instance | extends `StreamService` |
| `StreamServiceProofs` | proofs: shared fetches, permits, the segment cache, hidden videos | extends `StreamService`, TLAPS |
| `GatewayCalls` | retries, fall-back and circuit breaker of the gateway client | |
| `MCGatewayCalls` | instance | extends `GatewayCalls` |
| `GatewayCallsProofs` | proofs: types, and that every step brings a call closer to its end | extends `GatewayCalls`, TLAPS |
| `Launcher` | the launchers of one data directory, their sidecars, pid files and ports | |
| `MCLauncher` | instance | extends `Launcher` |
| `LauncherProofs` | proofs: orphans, cleanup, health | extends `Launcher`, TLAPS |

Definitions whose comment starts with *Fault:* are wrong variants of the definition
that follows them. Nothing uses them; they are the mutants with which the properties
are shown to be able to fail.

### PaymentGateway

One journal call is one SQL transaction (`BEGIN IMMEDIATE`) and one action. A task's
code between two awaits is one action; `task[u].pc` says where it is. `signer` is the
holder of `ControlledSigner.lock`, `resumes` the retained sessions, `req` the HTTP
calls between their journal reads and the `running` lock (the window in which what
they read can become stale). A call may be dropped by its timeout or a lost
connection while `admit` commits; then the row exists and no task does.

- Nonces stand for transactions: `UNIQUE(network, nonce)` makes that exact.
- Amounts and gas are naturals. The code's `u128` checked additions refuse what
  overflows; that is the refusal of a reservation above its cap, which every cap in
  `u128` implies.
- Time is the comparisons made with it: leases lapse, approvals expire, sessions
  age and deadlines pass at any moment, and never come back by themselves.
- The chain is external: a signed transaction that was sent may be mined or reverted
  at any later time; a wave takes exactly its transfers, a merkle batch takes any
  amount up to the allowance, gas at most its worst case.
- `Restore` stands for `restore-production.sh` on a drained backup. A backup that
  misses later transactions is not modelled: what to do then is the operator's
  reconciliation, not the program's.

### GatewayView

What the model of the gateway and the model of its client have in common: a row per
approval, and what may become of it because the admin service asks (a grant, a lease, an
admission, a cancellation) or by itself (a payment, the end of an attempt that leaves paid
work to recovery, a lease that lapses, an approval that grows too old, a restart, a
restore). `PaymentGateway` implements it with its journal (`Seen`, `ImplementsView`), and
what happens to `gw` in `VideoLifecycle` and in `CatalogPublication` is a behaviour of it as
well (`RespectsView` of either). The generation under which something was admitted is not in
the view, only whether that is the current one: an admission is forgotten when a later
generation takes the lease. A catalog approval has one finalize job, which the view sees under the name of its quote, and
its lease never lapses there, so that only the one direction is claimed for it.

### VideoLifecycle

One SQL transaction is one action. Handlers that commit a status and then enqueue a
job in a second statement are two actions (`pending` is the gap). A worker's `pc`
follows `run_leased_job`: status read, files, quote, plan, objects, commit. Each
write of a job is guarded by `Fenced`: owner, generation and live lease. `gw` is the
gateway as the admin observes it, with the same lease rule as `PaymentGateway`, and
`late` for a cancel request whose 2 s deadline passed but which may still be carried
out. An admission is the step of the worker that asks for it. A request that is still on
its way when its worker is dropped may be admitted later; within a generation an approval
only loses what an admission needs (it is open, fresh, and its lease is live), so that it
could have been admitted at once. A restored backup is in `GatewayView` and not here.

- Error texts are abstracted to the four classes that `mark_job_failed` tells apart.
- Renditions, segments and amounts are left out; the catalog job kinds belong to
  `CatalogPublication`. Whether the catalog changed since the plan is an error
  that may happen at any time.
- **Lost reports.** A worker whose work is committed reports it in a separate statement
  (`mark_job_succeeded`). If that fails, the process ends first or the lease lapses first,
  the finished job stays `running`, is claimed again and runs a second time over a video
  that has moved on. All of this is in the model; the history variable `unreported` holds
  the videos for which a report of finished work was lost (`Due`, `LosesReports`). A report
  of a *failure* may be lost without harm and is not counted.
- Eight properties are false of the code for such a video and say so: they speak of videos
  with `Reported(v)`. One of them, `PaidPlanStays`, is also stated without the exception, as
  `ReplacedOnlyUnpaid`, and the run `replacement` shows how it is violated; disagreements 6
  and 9 are about the others. `RespectsView` needs no exception. What the theorems say is
  therefore: against lost leases, lost answers, interruptions, failed reports of failures
  and restarts the life of a video is safe, and a lost report of success is the one thing
  that breaks it, for the video of that job and for no other.
- The scan of `recover_interrupted_jobs` runs before workers and routes and is one step
  here; that it cannot give up a video without a source is ignored by the code, so each of
  those may be left as it was.

### CatalogPublication

One SQL transaction is one action; a handler that commits a row, refreshes the local
snapshot, repairs the file and schedules the publish job is four (`task`). `generation`
is kept by `Bump`, which is the triggers of migration 0003. A catalog is the set of
listed videos with their public flag and the flag that shows the manifest address; the
published document is its public part. `stale` says that the state file lags behind the
committed snapshot. A worker's `pc` follows `prepare` for the publish job and `finalize`
for the finalize job; only the second one needs a payment lease.

- How a video becomes ready is `VideoLifecycle`'s subject; here it has a plan, and its
  last transaction commits if the plan's revision is current. `Listed` videos are ready
  and published when the run starts, and `generation` counts from there.
- The gateway is what the admin observes of it: approval, lease generation, admission,
  payment, storage, cancellation. Leases and approvals do not expire in this view:
  expiry only makes calls fail there, and every call may fail anyway. A cancellation
  carried out after its deadline is one whose answer is lost (`FinalizeFails` and
  `RunLost` with `GatewayCancels`): between the two moments nothing can happen that
  depends on it, except a payment, which refuses it.
- Error texts are the four classes that `mark_job_failed` tells apart; `paid_phase`
  marks everything after the first upload call.
- `done` is history: approvals whose publication was committed.

### AuthSessions

One SQL transaction is one action. `session` is `admin_refresh_sessions`: a rotation
(`ServeRefresh`) marks the old row and issues the next one in one transaction; `login`
is the login a session descends from. `jar` is what the browser keeps of the answers'
`Set-Cookie` headers, shared by its tabs; `promise` is `refreshPromise` of each tab,
`refresh` the refresh requests under way, `api` the requests of `apiRequest` with their
two kinds of retry.

- A message is sent and served in one step, its answer is taken or lost in another. The
  cookies change with an answer only, so anything that happens while a message is on its
  way could have come before it.
- Tokens are the numbers of their sessions. Hashing, JWTs and encodings are left out. A
  CSRF header is compared with the cookie it was copied from, so its presence decides.
- `executed` counts what a write has done on the server, the answer lost or not.
- Lifetimes end at any moment. The throttle of failed logins keeps no session state.

### StreamService

What a request does between two awaits, or under one lock, is one action; `req[r].pc`
says where it waits: catalog and address (on the lock of `local_catalog`, or on its
read), load, fetch, segment, join, and waiting on `channel`, the watch channel of a shared fetch. `fetches` is the table under the
`segment_fetches` lock. `DropRequest` is the request timeout or a closed connection, at
any await; it returns the permit the request holds and the lock of `local_catalog`. `AbortFetch` is a fetch task that
dies before it publishes a result (`FindStopped` is what its waiters do then).

- Segments are counted by their bytes, documents have no size: `InsertDocument` may keep any of
  the other entries below the limit, since which ones the byte limit evicts is left open.
- A time to live ends at any moment (`Expire...`). Documents on the network are content
  addressed and never change; the catalog file does, and may be unreadable.
- `local_catalog` keeps its lock from the look at the snapshot to the end of the read. The
  file is opened in one step (`OpenFile`) and read in another (`EndRead`, where the life of
  the snapshot begins, or the read fails); `reading` is what was opened. The admin service
  replaces the file by a rename, so that a read that is under way goes on with the old one.
  `visible` is history: what the file listed since it was opened for the read under way or
  for the snapshot that is still fresh.
- A gateway call is begun, and `EndCall` ends it well or badly. That it ends is
  `CallsEnd` of `GatewayCalls`.
- Playlist text, headers and range handling are left out.

### GatewayCalls

`call[k]` follows one call: check the breaker, send, record the result, retry or fall
back. `record_result` stores the count and then, at the threshold, the end of the open
period; between them other callers check and record (`Answer` and `Record`). Kinds of
call differ in their number of attempts and in what may be retried. The backoff and the
30 s of an open circuit are the moment they end. The gateway (`healthy`) is external: while
it is down any outcome is possible, while it is up answers are good.

### Launcher

`at[l]` follows `launch_stack`: lock, stale children, ports, then spawn, pid file and
health of each sidecar in order, and `stop_children` backwards. The desktop shell's mutex
`running`, its `closing` and `shutdown_complete` flags and the first-run setup are in
`closing`, `configured` and the steps `StartStack`, `Close`, `TakeStack`. A launcher may
crash between any two steps (`Crash`), among them spawn and the write of the pid file
(`lost`). Processes are external: they listen some time after their start, exit when
their port is taken, drain after SIGTERM, and give their pid to another process. That
process never has the name of a sidecar: if a sidecar of another installation got the pid
of a dead one, `stale_child_running` would take it for stale, and `cleanup_stale_children`
would signal it.

- The grace period ends at any moment; then the launcher kills.
- Ports fixed by the environment and the local devnet script are not modelled. The script
  runs as `bash`, so that `process_name_matches` never takes it for a stale sidecar.

## 3. The runs

| Run | Question | Result | Size |
|---|---|---|---|
| `budget` | caps, order of signing, no second payment, leases of two jobs, final results, refinement of `PaymentAuthority` and `GatewayView`, and that every task ends, through every failure of one upload | holds | 0.2 M states |
| `payment` | requotes, cancellation, resume and recovery over two quotes and four jobs, while reports arrive | holds | 0.5 M |
| `workers` | two workers reclaim each other's jobs, with expiry, deletion, shutdown, restart; the gateway they see is `GatewayView`'s | holds | 0.5 M |
| `replacement` | a paid plan is never replaced, also after a lost report | **violated** | |
| `catalog_change` | the catalog changes around one publication and its retries | holds | 2.0 M |
| `catalog_payment` | two quotes of one catalog: one at most is active or uncertain | holds | 2.3 M |
| `catalog_fence` | two videos around each other's plans, then two runs of one finalize job; the gateway they see is `GatewayView`'s | holds | 0.4 M |
| `catalog_complete` | a complete publication stays complete | **violated** | |
| `stream` | caches, permits and shared fetches under timeouts and dead tasks; how long a hidden video is served | holds | 2.0 M |
| `calls` | every call ends; a healthy gateway is used again | holds | 0.02 M |
| `auth` | one active session per login, no tab signs itself out, a write is done once | holds | 1.4 M |
| `launcher` | no forgotten sidecar, no wrong process signalled, no foreign health answer | holds | 0.4 M |

Bounds, and why they suffice for the question asked.

- *budget*: two nonces are an allowance and a payment call, with amounts 0..2 under caps
  of 1, so that a batch can fit exactly, exceed the rest and cost more than its estimate;
  the leases of two jobs make a rival. The instance is small because its safety properties
  are theorems for every instance; it is what shows that the mutants are caught, and it
  carries the one property that is not proved, `TasksEnd`.
- *payment* has one worker, because its question is the order of admin and gateway steps,
  and enough jobs for process, upload, requote and second upload; quotes do not expire and
  deleted videos are not followed there (`Unexpired`, `Kept`). *workers* has neither
  constraint, two workers and one quote. In both a history ends where a report of finished
  work is lost (`Reporting`): there is one video, of which their properties say nothing more
  from there on. (`RespectsView` does, and is a theorem for what follows too; *replacement*
  goes on.) `AttemptBound` caps the claims of a job (in the
  code a reclaimed job has no cap), `MaxJobs` the rows, `MaxQuotes` the quote IDs.
  Everything is about one video: rows of different videos share no state before the catalog.
- The catalog runs split the module by question, because rows, handlers, jobs and the
  gateway are nearly independent. *catalog_change* has one listed video and one change,
  which can fall between any two steps of either job, with two attempts each.
  *catalog_payment* has no video: with an empty catalog everything about quotes and payment
  still happens, and two quotes make a draft beside an approval. *catalog_fence* has two
  videos, so that one plan becomes stale by the other, and two workers, which begin when
  both videos are listed (`WorkWhenListed`). Two claims make a reclaimed job
  (`FinalizeBound`, `PublishBound`).
- *stream*: a request by ID and one by address meet on one segment and go apart on the
  other; a cache of two bytes holds either segment and not both; one permit makes every
  second download wait or fail; three channels are a fetch that died, its successor and
  one of the other segment. The second content of the catalog file hides a video that the
  catalog at the file's address still lists. `MaxDocuments`, `MaxPrune` and `MaxFetches` are 1 for 128, 64
  and 16.
- *calls*: two callers are the one that trips the breaker and the late one; a threshold of
  two lets it be reached by one caller's retries or by both.
- *auth*: three sessions are a login and two rotations, or two logins and a rotation; two
  tabs compete for a token, and a write and a read in one tab share its refresh. One
  transient retry stands for two.
- *launcher*: three starts are a crash, the launch that cleans up after it, and a
  concurrent or a later one; two sidecars are the one whose health the next waits for;
  four pids let one be reused; one free port lies beside each default one. It may
  stop when the last launcher has ended (`CHECK_DEADLOCK FALSE`).

Symmetry is used for workers, videos, handlers, catalog quotes, channels, pids and free ports, which
are only compared for equality, and never in a run that checks liveness.

Fairness, in `budget` and `calls`. In `budget`: weak fairness of the steps of each spawned
task, justified by tokio running a ready task, by the 120 s limit on a receipt and the
3600 s limit on the body, which make `Fail` enabled wherever a step may not come. In
`calls`: weak fairness of the steps of each call, because HTTP requests and delays are
bounded by timeouts, and of the end of the open period, because the clock goes on.
Nothing is assumed of the chain, the gateway, the clients or the operator; `Recovers` says
what follows *if* the gateway stays healthy.

### Disagreements found

Two have a run of their own; `PROJECT.json` quotes the sentence each contradicts.

1. `replacement` – a quote job whose report was lost runs again after its quote was
   approved and paid, and writes a new final quote over the paid plan.
2. `catalog_complete` – a finalize job that is claimed again after its commit and cannot
   activate its payment lease sets the complete approval to `payment_recovery_required`,
   which blocks every fresh catalog quote. If the catalog has changed since, Resume fails
   the same approval again.

The others can be seen by checking the property named, alone, with the constants given.

3. `ExpiredAsksApproval` (constants of `workers`) – an approved plan that expires before
   anything was admitted fails without the `approval_required:` marker and ends in payment
   recovery, from which Resume leads back to the same failure. docs/PAYMENT_RECOVERY.md:27
   lists `approval_required` for "Content, prices, or expiry invalidated an unpaid plan".
4. `CompletedReplayed` (`budget`) – a resumed upload journals its completion inside the
   body that the deadline cuts off; if that happens during the commit, `finish` overwrites
   the complete row with `payment_recovery_required` and pauses the approval, although
   "The gateway replays completed objects" (docs/PAYMENT_RECOVERY.md:32).
5. `RetryReplaysResult` (`budget`) – `Payments::upload` reads the stored result before it
   takes the running lock; a retry that reads too early is refused although the upload
   completed meanwhile, and "identical retries return the original result" (line 12). Its
   next call is answered correctly.
6. `RestartRecovers` without its exception (`workers`, without the constraint) – restart
   recovery skips a video that has *any* running job with a live lease, also one that has
   done its work, lost its report and will not continue the video, while README.md:460 has it
   scan all interrupted rows.
7. `HiddenStaysHidden` (`catalog_fence` with `Show = {TRUE, FALSE}`) – the visibility of
   a video that is not ready yet can change without advancing the catalog generation; the
   upload then commits the entry as it was quoted, and shows the manifest address the
   operator has hidden (README.md:499). "Catalog changes invalidate the quoted snapshot"
   (docs/PAYMENT_RECOVERY.md:18) does not hold for this change.
8. `HidingHides` (`catalog_fence` with `Listed = {v1}` and three generations) – hiding a
   video commits the row first; when the refresh of the catalog fails, the repeated request
   sees nothing to do and answers with success, and the public catalog goes on listing it
   (README.md:498).
9. After a lost report, the other properties of `VideoLifecycle` that except it fail too
   (drop `Reported(v)` and the constraint `Reporting`). With the constants of `workers`: a
   reclaimed upload job takes a `ready` video back (`ReadyIsFinal`, lease_worker.rs:514); a
   reclaimed quote job puts a paid video back to `awaiting_approval`, where the expiry sweep
   deletes its files (`PaidFilesKept`) or its upload job makes it `ready` with a plan that
   was never stored (`ReadyIsStored`); a video asks for a new approval although the old one
   was not cancelled (`ApprovalRequiredUnpaid`). With those of `payment`: the second plan is
   approved, and the upload job, reclaimed under its next generation, pays that one as well
   (`OnePaidApproval`, in 38 steps); a resume looks for a job that the gateway did not bind
   the approval to (`ResumeFindsJob`, in 30). The sentences contradicted are that of
   disagreement 1 and "`approval_required` ... unpaid plan" of disagreement 3.

### Observations

What else the models show of the code, none of it a property of a run:

- *Logout and refresh.* A refresh that is under way when the operator signs out installs
  fresh cookies with its answer: the logout revoked the session whose token it carried,
  and the rotation had issued the next one. Two tabs that refresh at the same moment, each
  with its own shared promise, sign one of them out; so does a rotation whose answer is
  lost. Reuse of a rotated token is refused and revokes nothing else.
- *Orphans.* A launcher that dies between `spawn` and the write of the pid file leaves a
  sidecar no file names. `OrphansAccounted` and `HealthIsOwn` except exactly this one: it
  keeps its port, and may answer the health check of another launch.
- *Cleanup* signals stale sidecars and does not wait for them; that a new launch does not
  mistake one for its own child rests on the free ports it then chooses.
- *Start against quit.* A start of the desktop shell that waits for the mutex while the
  shutdown holds it launches after `shutdown_complete`, and its sidecars survive the exit,
  recorded in pid files. docs/MODERNIZATION_STATUS.md:29 has quitting shut them down.
- *Hidden videos* are served until the snapshot of the catalog file expires. Its life begins
  when the read ends: a video that is hidden while the file is being read is found for a
  whole `catalog_ttl` after that. There are two more cases in which one is found.
  The file can no longer be read, and the bootstrap catalog lists the video. And a request
  that finds the file unreadable reads it a second time for the address of the catalog: if
  the file has become readable meanwhile and lists no such video, but names a catalog
  published before the video was hidden, the request finds the video there. This came to
  light when `HiddenWithinTtl` was to be proved; the property excepts exactly these.

## 4. The proofs

Each model has a proof module beside it. All of these have the same shape: an
inductive invariant `IInv`, checked with TLC on the instances of the runs before it was
proved; a lemma per action, or per group of actions that change the same part of the
state; lemmas about the operators that build rows, jobs and calls; and theorems that
follow from `IInv` or from a step under it. They rest on the named assumption of the
model's module and on no bound of a run: sets of videos, workers, requests, tabs, pids
and callers may be of any size, infinite too, unless it is said otherwise.

| Property | Theorem | Module |
|---|---|---|
| `IInv`, `BudgetRespected`, `OrderedSigning`, `CancelledNeverPaid`, `PausedOnlyAfterPayment` | `BooksAgree`, `BudgetSafe`, `SigningOrdered`, `CancellationSafe`, `PauseJustified` | `PaymentGatewayProofs` |
| `PaysOnce`, `CompleteIsFinal`, `OneJobPerApproval` | `NoSecondPayment`, `CompletionFinal`, `OneJob` | `PaymentGatewayProofs` |
| `ImplementsAuthority`, `ImplementsView` | `GatewayImplementsAuthority`, `GatewayImplementsView` | `PaymentGatewayProofs` |
| `RespectsView`; the converse for the environment; not in a run: `TypeOK` | `AssumesOnlyView`; `GatewayUnrestricted`; `LifecycleTypes` | `VideoLifecycleProofs` |
| `OnePaidApproval`, `ApprovalRequiredUnpaid`, `ReadyIsStored`, `PaidFilesKept`, `ResumeFindsJob` | `OnePayment`, `AskedUnpaid`, `ReadyStored`, `FilesKept`, `ResumeFinds` | `VideoLifecycleSafety` |
| `PaidPlanStays`, `ReadyIsFinal`, `RestartRecovers` | `PlanKept`, `ReadyStays`, `RestartContinues` | `VideoLifecycleSafety` |
| `OneCatalogPayment`, `PaidIsKept`; not in a run: `TypeOK` | `OnePayment`, `PaidKept`; `CatalogTypes` | `CatalogPublicationProofs` |
| `RestartPrepares`, `RefusedIsFinal`, `PublishedExact`, `RespectsView` | `RestartQueues`, `RefusalFinal`, `PublicationExact`, `CatalogAssumesOnlyView` | `CatalogPublicationProofs` |
| `OneActivePerLogin`, `WritesOnce`, `NoSelfLogout` | `LoginHasOneActiveSession`, `WritesAreDoneOnce`, `NoTabEndsItsSession` | `AuthSessionsProofs` |
| `OneFetchPerSegment`, `SlotsReturned`, `HiddenWithinTtl`, `CacheBounded` | `OneFetch`, `PermitsReturn`, `HiddenStays`, `CacheWithinLimit` | `StreamServiceProofs` |
| not in a run: `NewestStays`, `DownloadsBounded` | `FetchedIsCached`, `NeverMoreDownloads` | `StreamServiceProofs` |
| not in a run: `TypeOK`; `Closer`, behind `CallsEnd` | `CallTypes`, `CallsGetCloser` | `GatewayCallsProofs` |
| `OrphansAccounted`, `OnlyStaleSignalled`, `HealthIsOwn` | `NoneForgotten`, `OnlyOursSignalled`, `OwnHealth` | `LauncherProofs` |

### PaymentGatewayProofs

From `ConstantsAssumption`: uploads belong to approvals, definitions have natural caps,
generations are positive, `None` is none of the values. `IInv == TypeOK /\ Inv`.
`BudgetRespected` is not inductive: a merkle batch is charged by the chain before
anything in the journal says how much. The argument is about who may draw on the
allowance:

- `LockInv`: a task is inside the signer iff it holds the lock.
- `DefinitionInv`: rows with a budget are rows that exist, and reservations fit caps.
- `TxInv`: every transaction belongs to an approved upload; only journalled bytes are
  on the chain; settled ones are mined; calls of no value draw nothing.
- `SingleInv`: at most one transaction is unresolved.
- `CarryInv`: the transaction a task carries is its own, in the state its pc says, and
  a task about to start the next batch has none unresolved before it.
- `LedgerInv`: what is reserved under an approval is what was charged, but for the one
  unresolved transaction, where the difference is its worst case less its charge.
- `AllowanceInv`: wherever a call could draw on the allowance, charges so far plus the
  whole allowance fit the cap.
- `HistoryInv`: which uploads and approvals have transactions.

`PaysOnce` and `CompleteIsFinal` follow from a step under this invariant;
`OneJobPerApproval` needs one of its own, about the leases that tasks carry. The
refinement of `PaymentAuthority`: initial states map to initial states, charges map to
charges within the budget, everything else to a grant, a closing, a cancellation or a
stutter.

`GatewayImplementsView` refines `GatewayView`. The steps of the view carry guards that the
code does not test where it takes them: an attempt that fails pauses its approval only if
something was paid under it, and a payment is reserved only for what was admitted under
the generation of the lease that is current. So `ClientInv` is needed: `IInv`, that one job
at most holds the leases of an approval (`OneJobPerApproval`), and that a lease which is
live is one that was taken (`LiveIsLeased`). Then each action changes the row of at most one approval, and
`Restart` and `Restore` those of many at once.

### VideoLifecycleProofs and VideoLifecycleSafety

`TypeOK` needs to know which kind of job a worker's step belongs to (`PcInv`) and that a
used job row names a video (`UsedInv`); the three are `TypeInv`.

`AssumesOnlyView` and `GatewayUnrestricted` tie the model to the gateway's, from both
sides. The first says that every step, with its effect on an approval, is a step of
`GatewayView` or not seen by it: no theorem about videos rests on a behaviour of `gw` that
the gateway could not show. It needs `LeaseInv` (nothing is admitted above the current
generation, no generation before the first lease) and `GenInv` (a worker counts from one).
The second says that what the view lets happen to an approval by itself is among the
model's steps: no theorem rests on a gateway that does less than it may. `PaymentGateway`
implements the same view.

`VideoLifecycleSafety` assumes nothing beyond `LifecycleAssumption`: reports get lost, leases
lapse and the process ends at any step. A video one of whose jobs lost the report of work it
had done (`~Reported(v)`) keeps little of the invariant, and nothing brings it back, so that
the invariant is `IInv == BaseInv /\ \A v \in Video : Reported(v) => VideoInv(v)`.

`BaseInv` always holds: `NumbersInv` (jobs are numbered without gaps, one job of a kind is
active per video) and `NamesInv` (a row names quotes of its own video only, an approval is
bound and paid only once it is prepared, a quote about to be published is new). That is what
keeps a video with a lost report from disturbing another: a step of a handler or a worker
concerns one video, and the rows, jobs, quotes and approvals of the others stay
(`RunElsewhere`, `HandlerElsewhere`). `VideoInv(v)` is

- `JobsInv`: a job that is active and whose work is not done is the one its video waits
  for, and a handler between its two statements enqueues the job that fits, with no other
  in its way. This is where lost leases matter: whoever lost the job finds it reclaimed, and
  `Fenced` is unique (`FencedUnique`). It is also where a lost report breaks the argument:
  a job that is active though its work is done fits no status.
- `QuotesInv`: an approval that a job was bound to and that was not cancelled is the one its
  row names; a worker that stores under a live lease stores the plan of its video.
- `Youngest` and `Bound`: the job an approval is bound to is the video's youngest upload job,
  still active while the video is `uploading` and the last to fail when a resume looks for
  it. That `resume_video` takes the most recently created failed job is right because of
  this.

`OnePaidApproval` alone is about quotes, but a second payment is only kept away by the
binding of jobs to approvals, so that the parts are proved together.

### CatalogPublicationProofs

From `CatalogAssumption` (bounds are naturals, `None` is no video, quote, worker or
number). `PaymentInv` relates an approval to its job, the runs of it and the gateway: a
worker past its first read that still holds the job finds the approval as it read it,
nothing is paid before the approval or after the cancellation, and a complete approval
is in the history. `OneCatalogPayment` is inductive with these. `PlanInv` says
that every plan that is kept anywhere (row, approval, run) with a generation that is
still current describes what the catalog is now, for a row with its own video as it will
be; `PublishedExact` is a step under it.
`RestartPrepares` and `RefusedIsFinal` are steps under the types and `PaymentInv`.
`CatalogAssumesOnlyView` needs `ViewInv`: a run's job has a generation, what was leased was
approved, and nothing is admitted without a lease.

### AuthSessionsProofs

From `AuthAssumption` and `WorkAssumption`. `OneActivePerLogin` and `WritesOnce` are not
inductive alone. `Numbered` adds that sessions beyond `issued` do not exist and that a
session descends from an issued one: the next login starts a family of its own. `ApiOK`
says of each request how often it was executed: a write that waits for a refresh, is
about to be sent again or was answered 401 has done nothing yet. That is why the response
interceptor may repeat a write after a refresh, while `canRetryTransient` must not after
a 5xx or a lost answer.

`NoSelfLogout` needs more (`SelfInv`): the refresh a tab waits for is its own or that of a
waiting request of its own (`OwnPromise`); every answer on its way brings a token that
was not seen before, each a different one (`OnTheWay`); and if the token in the cookies
was rotated for a tab, then the answer with its successor, of the same login, is still on
its way to that tab (`JarOK`). While it is, the shared promise keeps the tab from starting
another refresh with the old token; an answer that was lost is the exception that the
property names.

### StreamServiceProofs

From `StreamAssumption`; requests and channels are finite sets, as permits are counted.
`CacheWithinLimit` is about sums: `Bytes` is a function over the prefixes of a cache's
entries, and how it changes when an entry is appended, removed or the oldest ones are
evicted is shown by induction over a set of lengths of prefixes (`NatSet`, from the least
number outside the set, as the induction theorems cannot be instantiated). An insert replaces, appends
and then evicts from the front while the counter is above the limit; that it stops before
the new entry is `FetchedIsCached`. `NeverMoreDownloads` counts the downloads under way
against the permits of the requests and the tasks that hold one.
`SlotInv` is `SlotsReturned`, and each action changes at most one of its three counts and
`slots` with it. `FetchInv` is `OneFetchPerSegment`: only a channel whose
task published or died may be replaced in the table. `HiddenWithinTtl` follows a request
from the choice of a catalog to the manifest: what `local_catalog` may return, now or when a
read under way ends, is listed by the file, by a fresh snapshot or by what that read found
in the file (`VisibleInv`). `visible` shrinks only when there is neither a fresh
snapshot nor a read under way (`ForgetsKeeps`). A request that waits for its catalog has
seen every video that was listed since it began, and a catalog chosen on the network
lists nothing else, but for the cases that the property names (`SeenOK`, `HiddenOK`).

### GatewayCallsProofs

From `CallAssumption`. `Left` bounds the steps that a call has left: three for each
attempt, and all attempts once more after the raw endpoint. `CallsGetCloser` says that
every step of a call under way lowers it, whatever other calls write to the circuit in
between. With the weak fairness of a call's steps this is why `CallsEnd` holds; that last
step is about fairness and stays with TLC.

### LauncherProofs

From `LauncherAssumption`: the two kinds of launcher are disjoint, there are at least two
sidecars and their names differ, `None`, `"default"` and `"other"` are none of the values.
A launcher at work holds the lock (`LockInv`), so the others have no children and own no
process (`Alone`); `StepOK`, `HeldOK` and `OwnedInv` say which children it has at each
step; the pid files of earlier launches are gone before the first sidecar is spawned, and
each one removed was that of a process told to stop (`CleanOK`, `RemoveOK`), which gives
`OrphansAccounted`. `PortOK`: after the ports are chosen no orphan listens on one of them
except one that no file ever named. An orphan that begins to listen only then was not
signalled before, and the pid files are gone, so that it can only be such a one. From
`PortOK` follows `HealthIsOwn`.

### Only model-checked

- `TasksEnd`, `CallsEnd` and `Recovers`: liveness under fairness is out of the prover's
  reach.
- The properties of the two runs that find a violation, and what section 3 lists as
  disagreements, are false of the code and have no theorem.

## 5. Not modelled, and the plan

Not modelled, with the reasons in `components` of `PROJECT.json`:

- the gateway's data routes: HTTP decoding and streaming of bytes through the SDK;
- ffmpeg and ffprobe, whose results are inputs of the pipeline;
- preliminary quotes: arithmetic on sizes and bitrates that nothing executable uses;
- the proxy of the launchers, which keeps no state, and ports fixed by the environment;
- the throttle of failed logins; token encodings; the views and hooks of the web
  application beyond its API client; log texts; vendored code.

What could follow:

1. An abstract view that `CatalogPublication` implements: one catalog payment at a time,
   kept until it is complete or proved unpaid.
2. Liveness of jobs: every queued job is eventually run or failed.
