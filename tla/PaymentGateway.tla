--------------------------- MODULE PaymentGateway ---------------------------
(***************************************************************************)
(* The payment gateway of crates/antd_service: the SQLite payment journal  *)
(* (payments/journal.rs), the upload and resume tasks with their in-memory *)
(* tables (payments/mod.rs), the serialised signer (payments/signer.rs),   *)
(* and the EVM chain the signer talks to (external).                       *)
(*                                                                         *)
(* One journal call is one SQL transaction (BEGIN IMMEDIATE) and one       *)
(* action; everything between two awaits of a task is one action.  Time is *)
(* abstracted to the comparisons the code makes with it: a lease that is   *)
(* live may lapse at any moment, an approval may expire at any moment, and *)
(* neither ever comes back by itself.                                      *)
(***************************************************************************)
EXTENDS Integers, FiniteSets

CONSTANTS
  Approval,     \* quote IDs; each names at most one approval
  Upload,       \* upload IDs, the hash of (approval, content, mode)
  ApprovalOf,   \* the approval an upload ID was hashed from
  Definition,   \* approvals that may be asked for: caps and permitted contents
  Key,          \* execution lease keys: job, owner and generation
  Request,      \* concurrent HTTP calls to the upload and resume endpoints
  Nonce,        \* account nonces; UNIQUE(network, nonce) makes them transaction names
  Amount,       \* storage amounts of a prepared upload and of one payment call
  Gas,          \* worst-case gas costs (gas limit times fee ceiling)
  MaxSlots,     \* permits of the upload semaphore (4 in the code)
  MaxResumes,   \* retained resume sessions (4 in the code)
  None          \* no upload

ASSUME ConstantsAssumption ==
  /\ ApprovalOf \in [Upload -> Approval]
  /\ Definition \subseteq [storage: Nat, gas: Nat, contents: SUBSET Upload]
  /\ \A k \in Key : k.generation \in Nat \ {0}
  /\ Amount \subseteq Nat
  /\ Gas \subseteq Nat
  /\ MaxSlots \in Nat
  /\ MaxResumes \in Nat
  /\ None \notin Upload
  /\ None \notin Key
  /\ None \notin Definition

VARIABLES
  \* The journal database.
  approval,     \* payment_approvals.state, "none" when there is no row
  definition,   \* payment_approvals.definition
  reserved,     \* payment_approvals.reserved_storage and reserved_gas
  lease,        \* payment_leases: the key and whether expires_at > now
  uploads,      \* payment_uploads: state and lease_key
  txs,          \* payment_transactions
  guard,        \* payment_controls: restore_reconciliation_required
  \* The gateway process.
  task,         \* Payments.running: the spawned task of each upload ID
  signer,       \* the holder of ControlledSigner.lock
  resumes,      \* Payments.resumes: uploads whose SDK handle is retained
  req,          \* HTTP calls between their journal reads and the running lock
  \* The environment.
  expired,      \* whether an approval's expires_at has passed
  chain,        \* what became of each signed transaction
  allowance,    \* token allowance of the payer to the payment vault
  spent         \* storage and gas the chain charged under each approval

journalVars == <<approval, definition, reserved, lease, uploads, txs, guard>>
processVars == <<task, signer, resumes, req>>
chainVars == <<chain, allowance, spent>>
vars == <<journalVars, processVars, expired, chainVars>>

-----------------------------------------------------------------------------

ApprovalState == {"none", "open", "paused", "cancelled_unpaid"}
UploadState == {"none", "preparing", "paying", "partial", "complete", "retryable",
                "approval_required", "payment_recovery_required"}
TxState == {"none", "reserved", "signed", "settled"}
Call == {"approve", "wave", "merkle"}
Outcome == {"complete", "partial", "approval_required", "payment_recovery_required"}

\* Where a spawned task is.  "pay" waits for the signer's lock; "allow" and
\* "batch" are about to call transact for the token allowance and for the next
\* payment call; "sign", "send" and "receipt" are inside transact.
Pc == {"idle", "prepare", "pay", "allow", "batch", "sign", "send", "receipt",
       "finalize", "resuming", "resumed", "finish", "announce"}
InSigner == {"allow", "batch", "sign", "send", "receipt"}
Cost == [storage: Nat, gas: Nat]
LeaseRow == [key: Key \cup {None}, live: BOOLEAN]
UploadRow == [state: UploadState, key: Key \cup {None}]
TxRow == [state: TxState, upload: Upload \cup {None}, call: Call, allow: Nat,
          storage: Nat, gas: Nat]
Task == [pc: Pc, left: Nat, nonce: Nonce \cup {None}, outcome: Outcome]
IdleReq == [pc |-> "idle", upload |-> None, key |-> None]
Req == {IdleReq} \cup
         [pc: {"checked", "resume", "refused"}, upload: Upload, key: Key \cup {None}]
ChainEntry == [status: {"absent", "pool", "ok", "reverted"}, storage: Nat, gas: Nat]
NoCost == [storage |-> 0, gas |-> 0]
NoTx == [state |-> "none", upload |-> None, call |-> "approve", allow |-> 0,
         storage |-> 0, gas |-> 0]
IdleTask == [pc |-> "idle", left |-> 0, nonce |-> None, outcome |-> "complete"]

\* Every variable ranges over its tables' columns and the tasks' local state.
TypeOK ==
  /\ approval \in [Approval -> ApprovalState]
  /\ definition \in [Approval -> Definition \cup {None}]
  /\ reserved \in [Approval -> Cost]
  /\ lease \in [Approval -> LeaseRow]
  /\ uploads \in [Upload -> UploadRow]
  /\ txs \in [Nonce -> TxRow]
  /\ guard \in {"clear", "set", "lifted"}
  /\ task \in [Upload -> Task]
  /\ signer \in Upload \cup {None}
  /\ resumes \in SUBSET Upload
  /\ req \in [Request -> Req]
  /\ expired \in [Approval -> BOOLEAN]
  /\ chain \in [Nonce -> ChainEntry]
  /\ allowance \in Nat
  /\ spent \in [Approval -> Cost]

Init ==
  /\ approval = [a \in Approval |-> "none"]
  /\ definition = [a \in Approval |-> None]
  /\ reserved = [a \in Approval |-> NoCost]
  /\ lease = [a \in Approval |-> [key |-> None, live |-> FALSE]]
  /\ uploads = [u \in Upload |-> [state |-> "none", key |-> None]]
  /\ txs = [n \in Nonce |-> NoTx]
  /\ guard = "clear"
  /\ task = [u \in Upload |-> IdleTask]
  /\ signer = None
  /\ resumes = {}
  /\ req = [r \in Request |-> IdleReq]
  /\ expired = [a \in Approval |-> FALSE]
  /\ chain = [n \in Nonce |-> [status |-> "absent", storage |-> 0, gas |-> 0]]
  /\ allowance = 0
  /\ spent = [a \in Approval |-> NoCost]

-----------------------------------------------------------------------------
(* What the journal's queries ask.                                         *)

Unresolved(n) == txs[n].state \in {"reserved", "signed"}

HasTx(u) == \E n \in Nonce : txs[n].state # "none" /\ txs[n].upload = u

HasApprovalTx(a) ==
  \E n \in Nonce : txs[n].state # "none" /\ ApprovalOf[txs[n].upload] = a

HasStorageIntent(u) ==
  \E n \in Nonce : txs[n].state # "none" /\ txs[n].upload = u /\ txs[n].storage # 0

HoldsLease(a, k) == lease[a].live /\ lease[a].key = k

\* The lease the upload was admitted under is still the current one.
ValidateExecution(u) == HoldsLease(ApprovalOf[u], uploads[u].key)

\* An approval that has not expired; the other parts of its validation are about
\* the definition itself and are fixed when it is stored.
Validate(a) == ~expired[a]

\* Fault: the additional amount is left out of the comparison.
CheckedBefore(used, additional, cap) == used <= cap

CheckedReservation(used, additional, cap) == used + additional <= cap

\* Fault: only a paused approval is refused, a cancelled one is not.
RequireNotPaused(a) == approval[a] \in {"open", "cancelled_unpaid"}

RequireOpenApproval(a) == approval[a] = "open"

\* An uncertain nonce of the account blocks every further signing.
NoUncertainNonce == \A m \in Nonce : ~Unresolved(m)

-----------------------------------------------------------------------------
(* Journal calls made by the admin service over HTTP.                      *)

\* approve: a new quote ID opens an approval.  An ID that is already bound is
\* either confirmed unchanged or refused, and the row stays as it is.
Approve(a, d) ==
  /\ Validate(a)
  /\ approval[a] = "none"
  /\ approval' = [approval EXCEPT ![a] = "open"]
  /\ definition' = [definition EXCEPT ![a] = d]
  /\ UNCHANGED <<reserved, lease, uploads, txs, guard, processVars, expired, chainVars>>

\* Fault: a generation whose lease has lapsed is renewed.
LeaseAcceptedLapsed(a, k) ==
  \/ lease[a].key = None
  \/ /\ lease[a].key # None
     /\ lease[a].key.job = k.job
     /\ lease[a].key.generation <= k.generation

\* Fault: the upsert does not compare the job.
LeaseAcceptedAnyJob(a, k) ==
  \/ lease[a].key = None
  \/ HoldsLease(a, k)
  \/ lease[a].key # None /\ lease[a].key.generation < k.generation

\* The upsert's condition: the first lease of an approval, a renewal by the
\* current live holder, or a later generation of the same job.
LeaseAccepted(a, k) ==
  \/ lease[a].key = None
  \/ /\ lease[a].key # None
     /\ lease[a].key.job = k.job
     /\ \/ HoldsLease(a, k)
        \/ lease[a].key.generation < k.generation

\* activate: install or renew the execution lease of an approval.
Activate(a, k) ==
  /\ approval[a] # "none"
  /\ LeaseAccepted(a, k)
  /\ lease' = [lease EXCEPT ![a] = [key |-> k, live |-> TRUE]]
  /\ UNCHANGED <<approval, definition, reserved, uploads, txs, guard, processVars,
                 expired, chainVars>>

\* Fault: only settled transactions count as payments.
CancelUnsettled(a, k) ==
  /\ HoldsLease(a, k)
  /\ guard # "set"
  /\ approval[a] # "none"
  /\ ~\E n \in Nonce : txs[n].state = "settled" /\ ApprovalOf[txs[n].upload] = a
  /\ approval' = [approval EXCEPT ![a] = "cancelled_unpaid"]
  /\ UNCHANGED <<definition, reserved, lease, uploads, txs, guard, processVars, expired,
                 chainVars>>

\* cancel_unpaid: revoke an approval under which no transaction was reserved.
\* A caller without the live lease, a paid approval and a restored journal
\* that is not reconciled are refused without any change.
CancelUnpaid(a, k) ==
  /\ HoldsLease(a, k)
  /\ guard # "set"
  /\ approval[a] # "none"
  /\ ~HasApprovalTx(a)
  /\ approval' = [approval EXCEPT ![a] = "cancelled_unpaid"]
  /\ UNCHANGED <<definition, reserved, lease, uploads, txs, guard, processVars, expired,
                 chainVars>>

-----------------------------------------------------------------------------
(* Upload and resume requests.                                             *)

\* Payments::upload up to the running lock: replay a complete upload, go on
\* to resume a partial one, otherwise go on to admission.
Begin(r, u, k) ==
  /\ req[r].pc \in {"idle", "refused"}
  /\ uploads[u].state # "complete"
  /\ req' = [req EXCEPT ![r] =
               [pc |-> IF uploads[u].state = "partial" THEN "resume" ELSE "checked",
                upload |-> u, key |-> k]]
  /\ UNCHANGED <<journalVars, task, signer, resumes, expired, chainVars>>

\* The resume endpoint enters Payments::resume directly.
BeginResume(r, u) ==
  /\ req[r].pc \in {"idle", "refused"}
  /\ uploads[u].state # "complete"
  /\ req' = [req EXCEPT ![r] = [pc |-> "resume", upload |-> u, key |-> None]]
  /\ UNCHANGED <<journalVars, task, signer, resumes, expired, chainVars>>

Running(u) == task[u].pc # "idle"
SlotsTaken == Cardinality({u \in Upload : Running(u)})

\* Under the running lock: wait for the task of the same upload ID.
Join(r) ==
  /\ req[r].pc \in {"checked", "resume"}
  /\ Running(req[r].upload)
  /\ req' = [req EXCEPT ![r] = IdleReq]
  /\ UNCHANGED <<journalVars, task, signer, resumes, expired, chainVars>>

\* Fault: an upload that asked for approval is admitted again.
FreshAfterRefusal(u) == uploads[u].state \in {"none", "retryable", "approval_required"}

\* admit's insert takes effect for a new upload, and for a retryable one that
\* has never had a transaction.
Fresh(u) ==
  \/ uploads[u].state = "none"
  \/ uploads[u].state = "retryable" /\ ~HasTx(u)

Admissible(u, k) ==
  LET a == ApprovalOf[u] IN
  /\ RequireOpenApproval(a)
  /\ Validate(a)
  /\ u \in definition[a].contents
  /\ HoldsLease(a, k)
  /\ Fresh(u)

\* Under the running lock: take a slot, admit the upload and spawn its task.  A
\* call that is dropped (a timeout, a lost connection) while admit commits leaves
\* the row behind without a task.
Admit(r) ==
  LET u == req[r].upload IN
  /\ req[r].pc = "checked"
  /\ ~Running(u)
  /\ SlotsTaken < MaxSlots
  /\ Admissible(u, req[r].key)
  /\ uploads' = [uploads EXCEPT ![u] = [state |-> "preparing", key |-> req[r].key]]
  /\ \/ task' = [task EXCEPT ![u] = [IdleTask EXCEPT !.pc = "prepare"]]
     \/ UNCHANGED task
  /\ req' = [req EXCEPT ![r] = IdleReq]
  /\ UNCHANGED <<approval, definition, reserved, lease, txs, guard, signer, resumes,
                 expired, chainVars>>

\* The running lock's other way out: admission fails or finds the row taken.
RefuseAdmission(r) ==
  /\ req[r].pc = "checked"
  /\ ~Running(req[r].upload)
  /\ ~Admissible(req[r].upload, req[r].key)
  /\ req' = [req EXCEPT ![r].pc = "refused"]
  /\ UNCHANGED <<journalVars, task, signer, resumes, expired, chainVars>>

\* No permit is free (quotes hold permits too), or no session is retained.
TurnAway(r) ==
  /\ req[r].pc \in {"checked", "resume"}
  /\ ~Running(req[r].upload)
  /\ req' = [req EXCEPT ![r] = IdleReq]
  /\ UNCHANGED <<journalVars, task, signer, resumes, expired, chainVars>>

\* Payments::resume under the running lock: take the retained session and spawn
\* the resume task.
ResumeSession(r) ==
  LET u == req[r].upload IN
  /\ req[r].pc = "resume"
  /\ ~Running(u)
  /\ SlotsTaken < MaxSlots
  /\ u \in resumes
  /\ resumes' = resumes \ {u}
  /\ task' = [task EXCEPT ![u] = [IdleTask EXCEPT !.pc = "resuming"]]
  /\ req' = [req EXCEPT ![r] = IdleReq]
  /\ UNCHANGED <<journalVars, signer, expired, chainVars>>

-----------------------------------------------------------------------------
(* The upload task: prepare, pay, finalize, finish.                        *)

Step(u, pc) == task' = [task EXCEPT ![u].pc = pc]

\* The task leaves its body with an outcome; a pay session drops the lock.
Leave(u, o) ==
  /\ task' = [task EXCEPT ![u] = [IdleTask EXCEPT !.pc = "finish", !.outcome = o]]
  /\ signer' = IF signer = u THEN None ELSE signer

Prepared(u) ==
  /\ task[u].pc = "prepare"
  /\ Step(u, "pay")
  /\ UNCHANGED <<journalVars, signer, resumes, req, expired, chainVars>>

\* pay: under the signer's lock, the whole prepared cost must fit the cap.  A
\* prepared upload that costs nothing needs no token allowance.
PayStart(u, upper) ==
  LET a == ApprovalOf[u] IN
  /\ task[u].pc = "pay"
  /\ signer = None
  /\ Validate(a)
  /\ CheckedReservation(reserved[a].storage, upper, definition[a].storage)
  /\ signer' = u
  /\ task' = [task EXCEPT ![u].pc = IF upper > 0 THEN "allow" ELSE "batch",
                          ![u].left = upper]
  /\ UNCHANGED <<journalVars, resumes, req, expired, chainVars>>

\* reserve, called by transact: one intent row, its worst case counted against
\* both caps.  Any unresolved transaction of the account blocks it.
Reserve(u, n, call, allow, storage, gas) ==
  LET a == ApprovalOf[u] IN
  /\ guard # "set"
  /\ ValidateExecution(u)
  /\ Validate(a)
  /\ RequireOpenApproval(a)
  /\ CheckedReservation(reserved[a].storage, storage, definition[a].storage)
  /\ CheckedReservation(reserved[a].gas, gas, definition[a].gas)
  /\ NoUncertainNonce
  /\ txs[n].state = "none"
  /\ txs' = [txs EXCEPT ![n] = [state |-> "reserved", upload |-> u, call |-> call,
                                allow |-> allow, storage |-> storage, gas |-> gas]]
  /\ reserved' = [reserved EXCEPT ![a] = [storage |-> @.storage + storage,
                                          gas |-> @.gas + gas]]
  /\ uploads' = [uploads EXCEPT ![u].state = "paying"]
  /\ task' = [task EXCEPT ![u].pc = "sign", ![u].nonce = n]
  /\ UNCHANGED <<approval, definition, lease, guard, signer, resumes, req, expired, chainVars>>

\* The token allowance, bounded by the prepared cost: no storage, only gas.
ReserveAllowance(u, n, gas) ==
  /\ task[u].pc = "allow"
  /\ Reserve(u, n, "approve", task[u].left, 0, gas)

\* One wave of transfers (an exact amount) or one merkle batch (an upper bound).
ReservePayment(u, n, call, storage, gas) ==
  /\ task[u].pc = "batch"
  /\ call \in {"wave", "merkle"}
  /\ storage <= task[u].left
  /\ Reserve(u, n, call, 0, storage, gas)

\* Fault: the bytes are sent before they are journalled.
RecordSignedLate(u) ==
  /\ task[u].pc = "sign"
  /\ ValidateExecution(u)
  /\ Step(u, "send")
  /\ UNCHANGED <<journalVars, signer, resumes, req, expired, chainVars>>

\* record_signed: the signed bytes are journalled while the lease still holds.
RecordSigned(u) ==
  /\ task[u].pc = "sign"
  /\ ValidateExecution(u)
  /\ txs[task[u].nonce].state = "reserved"
  /\ txs' = [txs EXCEPT ![task[u].nonce].state = "signed"]
  /\ Step(u, "send")
  /\ UNCHANGED <<approval, definition, reserved, lease, uploads, guard, signer, resumes, req,
                 expired, chainVars>>

\* send_raw_transaction accepted.
Send(u) ==
  /\ task[u].pc = "send"
  /\ chain' = [chain EXCEPT ![task[u].nonce].status = "pool"]
  /\ Step(u, "receipt")
  /\ UNCHANGED <<journalVars, signer, resumes, req, expired, allowance, spent>>

\* send_raw_transaction reported an error: the bytes may be out all the same.
SendUncertain(u) ==
  /\ task[u].pc = "send"
  /\ chain' = [chain EXCEPT ![task[u].nonce].status = "pool"]
  /\ Leave(u, "payment_recovery_required")
  /\ UNCHANGED <<journalVars, resumes, req, expired, allowance, spent>>

\* Fault: the worst case stays reserved.
SettledNever(a, n) == reserved[a]

\* settle: the reservation shrinks to what the receipt says was charged.
SettledReservation(a, n) ==
  [storage |-> reserved[a].storage - (txs[n].storage - chain[n].storage),
   gas |-> reserved[a].gas - (txs[n].gas - chain[n].gas)]

\* The receipt arrives and is settled.  A reverted call ends the session; a
\* receipt above the reservation is not settled (the task fails instead).
Settle(u) ==
  LET n == task[u].nonce
      a == ApprovalOf[u]
  IN
  /\ task[u].pc = "receipt"
  /\ chain[n].status \in {"ok", "reverted"}
  /\ chain[n].storage <= txs[n].storage
  /\ chain[n].gas <= txs[n].gas
  /\ txs' = [txs EXCEPT ![n].state = "settled"]
  /\ reserved' = [reserved EXCEPT ![a] = SettledReservation(a, n)]
  /\ IF chain[n].status = "ok"
     THEN /\ task' = [task EXCEPT ![u].pc = "batch", ![u].nonce = None,
                                  ![u].left = @ - txs[n].storage]
          /\ UNCHANGED signer
     ELSE Leave(u, "payment_recovery_required")
  /\ UNCHANGED <<approval, definition, lease, uploads, guard, resumes, req, expired, chainVars>>

\* Every payment call was settled: the signer's lock is released.
PayDone(u) ==
  /\ task[u].pc = "batch"
  /\ task[u].left = 0
  /\ signer' = None
  /\ Step(u, "finalize")
  /\ UNCHANGED <<journalVars, resumes, req, expired, chainVars>>

\* Everything was stored (and verified, when asked for).
StoreComplete(u) ==
  /\ \/ /\ task[u].pc = "finalize"
        /\ Leave(u, "complete")
     \/ /\ task[u].pc = "resuming"
        /\ Step(u, "resumed")
        /\ UNCHANGED signer
  /\ UNCHANGED <<journalVars, resumes, req, expired, chainVars>>

\* keep_resume: some chunks failed; retain the SDK handle while there is room.
StorePartial(u) ==
  /\ task[u].pc \in {"finalize", "resuming"}
  /\ \/ /\ Cardinality(resumes) < MaxResumes
        /\ resumes' = resumes \cup {u}
        /\ Leave(u, "partial")
     \/ /\ Cardinality(resumes) >= MaxResumes
        /\ Leave(u, "payment_recovery_required")
        /\ UNCHANGED resumes
  /\ UNCHANGED <<journalVars, req, expired, chainVars>>

\* Fault: a receipt is waited for without a deadline.
FailNoDeadline(u, o) ==
  /\ \/ /\ o = "payment_recovery_required"
        /\ task[u].pc \in {"prepare", "pay", "finalize", "resuming"} \cup (InSigner \ {"receipt"})
     \/ /\ o = "approval_required"
        /\ task[u].pc \in {"pay", "allow", "batch"}
  /\ Leave(u, o)
  /\ UNCHANGED <<journalVars, resumes, req, expired, chainVars>>

\* Any await of the body fails, or the task's deadline passes.  Only the cap
\* and approval checks and the chain identity check ask for a new approval.
Fail(u, o) ==
  /\ \/ /\ o = "payment_recovery_required"
        /\ task[u].pc \in {"prepare", "pay", "finalize", "resuming"} \cup InSigner
     \/ /\ o = "approval_required"
        /\ task[u].pc \in {"pay", "allow", "batch"}
  /\ Leave(u, o)
  /\ UNCHANGED <<journalVars, resumes, req, expired, chainVars>>

\* Fault: a failure without any transaction is stored as a recovery case.
FinishStateAsked(u, o) ==
  IF o = "approval_required" /\ HasStorageIntent(u) THEN "payment_recovery_required" ELSE o

\* The state finish is asked for: a budget problem after a storage payment was
\* intended is a recovery case; and the state it stores: a recovery case
\* without any transaction is retryable.
FinishState(u, o) ==
  LET asked == IF o = "approval_required" /\ HasStorageIntent(u)
               THEN "payment_recovery_required" ELSE o
  IN IF asked = "payment_recovery_required" /\ ~HasTx(u) THEN "retryable" ELSE asked

StoreFinish(u, o) ==
  LET st == FinishState(u, o) IN
  /\ uploads' = [uploads EXCEPT ![u].state = st]
  /\ approval' = IF st = "payment_recovery_required"
                 THEN [approval EXCEPT ![ApprovalOf[u]] = "paused"]
                 ELSE approval

\* finish: the outcome is journalled.
Finish(u) ==
  /\ task[u].pc = "finish"
  /\ StoreFinish(u, task[u].outcome)
  /\ Step(u, "announce")
  /\ UNCHANGED <<definition, reserved, lease, txs, guard, signer, resumes, req, expired,
                 chainVars>>

\* The body of a resumed upload fails.
ResumeFails(u) ==
  task' = [task EXCEPT ![u].pc = "finish", ![u].outcome = "payment_recovery_required"]

\* A resumed upload journals its completion inside the task's body.  The body's
\* deadline can pass while the commit is under way: the row is then complete and
\* the task goes on as one that failed.
FinishResumed(u) ==
  /\ task[u].pc = "resumed"
  /\ StoreFinish(u, "complete")
  /\ Step(u, "announce") \/ ResumeFails(u)
  /\ UNCHANGED <<definition, reserved, lease, txs, guard, signer, resumes, req, expired,
                 chainVars>>

\* The journal write itself fails.  For a resumed completion that is one more
\* failure of the body, otherwise the row stays as it was.
FinishLost(u) ==
  /\ \/ /\ task[u].pc = "finish"
        /\ Step(u, "announce")
     \/ /\ task[u].pc = "resumed"
        /\ ResumeFails(u)
  /\ UNCHANGED <<journalVars, signer, resumes, req, expired, chainVars>>

\* The result is sent to the waiting calls and the running entry removed; the
\* slot is free again.
Announce(u) ==
  /\ task[u].pc = "announce"
  /\ task' = [task EXCEPT ![u] = IdleTask]
  /\ UNCHANGED <<journalVars, signer, resumes, req, expired, chainVars>>

-----------------------------------------------------------------------------
(* Restart and restore.                                                    *)

\* Fault: every upload without a transaction becomes retryable.
RestartedUnpaid(u) ==
  IF uploads[u].state # "none" /\ ~HasTx(u) THEN "retryable"
  ELSE IF uploads[u].state \in {"preparing", "paying", "partial"}
       THEN "payment_recovery_required"
       ELSE uploads[u].state

\* initialize: unpaid preparation may be repeated, everything else that was
\* under way needs recovery.
RestartedUpload(u) ==
  IF uploads[u].state \in {"preparing", "partial"} /\ ~HasTx(u) THEN "retryable"
  ELSE IF uploads[u].state \in {"preparing", "paying", "partial"}
       THEN "payment_recovery_required"
       ELSE uploads[u].state

Initialize(before) ==
  /\ uploads' = [u \in Upload |-> [uploads[u] EXCEPT !.state = RestartedUpload(u)]]
  /\ approval' = [a \in Approval |->
                    IF \E u \in Upload : /\ ApprovalOf[u] = a
                                         /\ uploads'[u].state = "payment_recovery_required"
                    THEN "paused" ELSE before[a]]
  /\ task' = [u \in Upload |-> IdleTask]
  /\ signer' = None
  /\ resumes' = {}
  /\ req' = [r \in Request |-> IdleReq]
  /\ UNCHANGED <<definition, reserved, lease, txs, expired, chainVars>>

\* The gateway process dies, at any point, and is started again.
Restart ==
  /\ Initialize(approval)
  /\ UNCHANGED guard

\* restore-production.sh on a drained backup: all approvals are paused and the
\* signing guard is set before the gateway starts again.
Restore ==
  /\ guard' = "set"
  /\ Initialize([a \in Approval |-> IF approval[a] = "none" THEN "none" ELSE "paused"])

\* The operator reconciles the journal with the chain and lifts the guard.
LiftGuard ==
  /\ guard = "set"
  /\ guard' = "lifted"
  /\ UNCHANGED <<approval, definition, reserved, lease, uploads, txs, processVars, expired,
                 chainVars>>

-----------------------------------------------------------------------------
(* The environment: time and the chain.                                    *)

LeaseLapses(a) ==
  /\ lease[a].live
  /\ lease' = [lease EXCEPT ![a].live = FALSE]
  /\ UNCHANGED <<approval, definition, reserved, uploads, txs, guard, processVars, expired,
                 chainVars>>

ApprovalExpires(a) ==
  /\ ~expired[a]
  /\ expired' = [expired EXCEPT ![a] = TRUE]
  /\ UNCHANGED <<journalVars, processVars, chainVars>>

\* A resume session is an hour old and dropped.
SessionExpires(u) ==
  /\ u \in resumes
  /\ resumes' = resumes \ {u}
  /\ UNCHANGED <<journalVars, task, signer, req, expired, chainVars>>

\* What a successful call takes from the allowance: exactly its transfers for a
\* wave, what the vault computes for a merkle batch.  A call of no value is
\* charged nothing.
Charges(n) ==
  CASE txs[n].call = "approve" -> {0}
    [] txs[n].call = "wave" -> {txs[n].storage} \cap 0..allowance
    [] txs[n].call = "merkle" -> IF txs[n].storage = 0 THEN {0} ELSE 0..allowance

Charge(n, status, storage, gas) ==
  LET a == ApprovalOf[txs[n].upload] IN
  /\ chain[n].status = "pool"
  /\ gas <= txs[n].gas
  /\ chain' = [chain EXCEPT ![n] = [status |-> status, storage |-> storage, gas |-> gas]]
  /\ spent' = [spent EXCEPT ![a] = [storage |-> @.storage + storage, gas |-> @.gas + gas]]
  /\ UNCHANGED <<journalVars, processVars, expired>>

\* The transaction is mined and succeeds.
Mine(n, storage, gas) ==
  /\ storage \in Charges(n)
  /\ Charge(n, "ok", storage, gas)
  /\ allowance' = IF txs[n].call = "approve" THEN txs[n].allow ELSE allowance - storage

\* The transaction is mined and reverts: gas is charged all the same.
Revert(n, gas) ==
  /\ Charge(n, "reverted", 0, gas)
  /\ UNCHANGED allowance

-----------------------------------------------------------------------------

Journal ==
  \E a \in Approval :
    \/ \E d \in Definition : Approve(a, d)
    \/ \E k \in Key : Activate(a, k) \/ CancelUnpaid(a, k)

Requests ==
  \E r \in Request :
    \/ \E u \in Upload : (\E k \in Key : Begin(r, u, k)) \/ BeginResume(r, u)
    \/ Join(r) \/ Admit(r) \/ RefuseAdmission(r) \/ TurnAway(r) \/ ResumeSession(r)

Tasks(u) ==
  \/ Prepared(u)
  \/ \E upper \in Amount : PayStart(u, upper)
  \/ \E n \in Nonce, gas \in Gas : ReserveAllowance(u, n, gas)
  \/ \E n \in Nonce, call \in Call, storage \in Amount, gas \in Gas :
       ReservePayment(u, n, call, storage, gas)
  \/ RecordSigned(u) \/ Send(u) \/ SendUncertain(u) \/ Settle(u)
  \/ PayDone(u) \/ StoreComplete(u) \/ StorePartial(u)
  \/ \E o \in Outcome : Fail(u, o)
  \/ Finish(u) \/ FinishResumed(u) \/ FinishLost(u) \/ Announce(u)

Environment ==
  \/ \E a \in Approval : LeaseLapses(a) \/ ApprovalExpires(a)
  \/ \E u \in Upload : SessionExpires(u)
  \/ \E n \in Nonce, gas \in Gas \cup {0} : Revert(n, gas)
  \/ \E n \in Nonce, storage \in Amount, gas \in Gas \cup {0} : Mine(n, storage, gas)

Next ==
  \/ Journal
  \/ Requests
  \/ \E u \in Upload : Tasks(u)
  \/ Restart \/ Restore \/ LiftGuard
  \/ Environment

Spec == Init /\ [][Next]_vars

-----------------------------------------------------------------------------
(* Properties.                                                             *)

\* The chain never takes more storage payment or gas under an approval than the
\* operator approved, whatever leases, crashes, retries, reverts and merkle
\* batches above their estimate do (reserve, settle and check_storage together).
BudgetRespected ==
  \A a \in Approval :
    IF definition[a] = None
    THEN spent[a] = NoCost
    ELSE /\ spent[a].storage <= definition[a].storage
         /\ spent[a].gas <= definition[a].gas

\* One ordered signing stream: while a transaction is reserved or signed, every
\* other one is settled from its receipt, and only journalled bytes are sent.
OrderedSigning ==
  /\ \A n, m \in Nonce : Unresolved(n) /\ Unresolved(m) => n = m
  /\ \A n \in Nonce :
       /\ chain[n].status # "absent" => txs[n].state \in {"signed", "settled"}
       /\ txs[n].state = "settled" => chain[n].status \in {"ok", "reverted"}

\* Cancellation proves that nothing was paid: a cancelled approval has no
\* transaction and the chain has charged nothing under it, then and ever after.
CancelledNeverPaid ==
  \A a \in Approval :
    approval[a] = "cancelled_unpaid" => ~HasApprovalTx(a) /\ spent[a] = NoCost

\* A failure before any transaction must not pause the rest of an approved
\* video: outside a restore, a paused approval has a transaction to reconcile.
PausedOnlyAfterPayment ==
  guard = "clear" =>
    \A a \in Approval : approval[a] = "paused" => HasApprovalTx(a)

\* An approval is executed by one job only, and no upload runs under a lease
\* generation later than the one the journal holds.
OneJobPerApproval ==
  \A u \in Upload :
    uploads[u].key # None =>
      /\ lease[ApprovalOf[u]].key # None
      /\ lease[ApprovalOf[u]].key.job = uploads[u].key.job
      /\ uploads[u].key.generation <= lease[ApprovalOf[u]].key.generation

\* No second payment for an upload: a task enters the signer only for an upload
\* that never had a transaction, however often it is retried, resumed or
\* restarted.
PaysOnce ==
  [][\A u \in Upload : signer # u /\ signer' = u => ~HasTx(u)]_vars

\* A completed upload keeps its result: once no task is about to journal an
\* outcome for it, no retry, resume or restart overwrites it.
CompleteIsFinal ==
  [][\A u \in Upload :
       uploads[u].state = "complete" /\ task[u].pc # "finish"
         => uploads'[u].state = "complete"]_vars

\* The documentation's promise that completed objects are replayed: a journalled
\* result is never taken back.
CompletedReplayed ==
  [][\A u \in Upload : uploads[u].state = "complete" => uploads'[u].state = "complete"]_vars

\* The documentation's promise that identical retries return the original result:
\* a call for a completed upload is not refused admission.
RetryReplaysResult ==
  [][\A r \in Request :
       req[r].pc = "checked" /\ req'[r].pc = "refused"
         => uploads[req[r].upload].state # "complete"]_vars

\* The promise to the operator that the gateway implements: a paused approval is
\* one that is closed to new work, whose signed transactions may still be charged.
Phase(a) ==
  CASE approval[a] = "paused" -> "closed"
    [] approval[a] = "cancelled_unpaid" -> "cancelled"
    [] OTHER -> approval[a]

Authority == INSTANCE PaymentAuthority
               WITH phase <- [a \in Approval |-> Phase(a)],
                    budget <- definition, charged <- spent

\* Every step of journal, tasks and chain is a step of the operator's view:
\* charges stay within the granted budget and none follows a cancellation.
ImplementsAuthority == Authority!Spec

\* Something was admitted under the lease that an approval has now.
AdmittedNow(a) ==
  /\ lease[a].key # None
  /\ \E u \in Upload : ApprovalOf[u] = a /\ uploads[u].key = lease[a].key

\* What the admin service sees of an approval.
Seen(a) ==
  LET key == lease[a].key IN
  [phase |-> IF approval[a] = "cancelled_unpaid" THEN "cancelled" ELSE approval[a],
   job |-> IF key = None THEN None ELSE key.job,
   gen |-> IF key = None THEN 0 ELSE key.generation,
   live |-> lease[a].live,
   admitted |-> AdmittedNow(a),
   paid |-> HasApprovalTx(a),
   expired |-> expired[a]]

Client == INSTANCE GatewayView WITH row <- [a \in Approval |-> Seen(a)]

\* Every step of journal, tasks and chain is a step of the admin service's view: an
\* approval is paid for only after an admission under its current generation, is
\* paused only when paid (or restored) and cancelled only when unpaid.
ImplementsView == Client!Spec

FairSpec == Spec /\ \A u \in Upload : WF_vars(Tasks(u))

\* A spawned task always ends and gives its slot and the signer's lock back, even
\* when a receipt never comes.
TasksEnd == \A u \in Upload : Running(u) ~> ~Running(u)

-----------------------------------------------------------------------------
(* The inductive invariant behind the safety properties, part by part.     *)

\* Budget of an approval's storage that is neither charged nor drawable.
WithinCap(a, more) == spent[a].storage + more <= definition[a].storage

LockInv == \A u \in Upload : task[u].pc \in InSigner <=> signer = u

DefinitionInv ==
  /\ \A a \in Approval :
       /\ definition[a] = None <=> approval[a] = "none"
       /\ definition[a] = None => reserved[a] = NoCost
       /\ definition[a] # None => /\ reserved[a].storage <= definition[a].storage
                                  /\ reserved[a].gas <= definition[a].gas
  /\ \A u \in Upload : task[u].pc \in {"prepare", "pay"} \cup InSigner
                         => definition[ApprovalOf[u]] # None

TxInv ==
  \A n \in Nonce :
    /\ txs[n].state # "none" => /\ txs[n].upload \in Upload
                                /\ definition[ApprovalOf[txs[n].upload]] # None
    /\ chain[n].status # "absent" => txs[n].state \in {"signed", "settled"}
    /\ txs[n].state = "settled" => chain[n].status \in {"ok", "reverted"}
    /\ chain[n].status \in {"absent", "pool"} => chain[n].storage = 0 /\ chain[n].gas = 0
    /\ chain[n].gas <= txs[n].gas
    /\ txs[n].call = "approve" => txs[n].storage = 0
    /\ txs[n].storage = 0 => chain[n].storage = 0

SingleInv == \A n, m \in Nonce : Unresolved(n) /\ Unresolved(m) => n = m

\* The transaction a task is carrying through the signer is its own.
CarryInv ==
  \A u \in Upload :
    /\ task[u].pc \in {"sign", "send", "receipt"} =>
         /\ task[u].nonce \in Nonce
         /\ txs[task[u].nonce].upload = u
         /\ txs[task[u].nonce].storage <= task[u].left
         /\ txs[task[u].nonce].state = IF task[u].pc = "sign" THEN "reserved" ELSE "signed"
         /\ task[u].pc \in {"sign", "send"} => chain[task[u].nonce].status = "absent"
    /\ task[u].pc = "batch" /\ task[u].left > 0 => \A n \in Nonce : ~Unresolved(n)

\* The books: what is reserved is what was charged, plus the difference between
\* the worst case and the charge of the one unresolved transaction.
LedgerInv ==
  \A a \in Approval :
    /\ (\A n \in Nonce : Unresolved(n) => ApprovalOf[txs[n].upload] # a)
         => reserved[a] = spent[a]
    /\ \A n \in Nonce :
         Unresolved(n) /\ ApprovalOf[txs[n].upload] = a =>
           /\ reserved[a].storage + chain[n].storage = spent[a].storage + txs[n].storage
           /\ reserved[a].gas + chain[n].gas = spent[a].gas + txs[n].gas
    /\ ~HasApprovalTx(a) => reserved[a] = NoCost

\* A payment call can draw at most the allowance, and the allowance fits what
\* the cap still permits whenever a call could draw on it.
AllowanceInv ==
  /\ \A u \in Upload :
       LET a == ApprovalOf[u] IN
       /\ task[u].pc = "allow" => reserved[a].storage + task[u].left <= definition[a].storage
       /\ task[u].pc = "batch" /\ task[u].left > 0 => WithinCap(a, allowance)
       /\ /\ task[u].pc \in {"sign", "send", "receipt"}
          /\ txs[task[u].nonce].call # "approve"
          /\ task[u].left > 0
          => WithinCap(a, allowance)
  /\ \A n \in Nonce :
       LET a == ApprovalOf[txs[n].upload] IN
       Unresolved(n) =>
         /\ txs[n].call = "approve" =>
              /\ WithinCap(a, txs[n].allow)
              /\ chain[n].status = "ok" => WithinCap(a, allowance)
         /\ txs[n].storage > 0 => WithinCap(a, allowance)

\* Which uploads have transactions.
HistoryInv ==
  /\ \A u \in Upload :
       /\ uploads[u].state = "none" => ~HasTx(u)
       /\ task[u].pc \in {"prepare", "pay"} => ~HasTx(u)
       /\ uploads[u].state \in {"paying", "payment_recovery_required"} => HasTx(u)
  /\ \A a \in Approval :
       /\ approval[a] = "cancelled_unpaid" => ~HasApprovalTx(a)
       /\ guard = "clear" /\ approval[a] = "paused" => HasApprovalTx(a)

\* The parts together; every step of the gateway and of the chain preserves them.
Inv ==
  /\ LockInv
  /\ DefinitionInv
  /\ TxInv
  /\ SingleInv
  /\ CarryInv
  /\ LedgerInv
  /\ AllowanceInv
  /\ HistoryInv

\* The inductive invariant: the journal's rows, the tasks and the chain have their
\* types, and what they say about locks, payments and budgets agrees.
IInv == TypeOK /\ Inv

=============================================================================
