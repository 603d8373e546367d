------------------------ MODULE PaymentGatewayProofs ------------------------
(***************************************************************************)
(* The safety properties of PaymentGateway for every number of approvals,  *)
(* uploads, leases, requests and transactions; what never happens over     *)
(* time: a second payment, the loss of a completed result, a second job    *)
(* under one approval; and that the gateway implements two views of it:    *)
(* the operator's, PaymentAuthority, and the admin service's, GatewayView. *)
(***************************************************************************)
EXTENDS PaymentGateway, TLAPS

\* The parts of the state that Inv speaks about, grouped by who changes them.
books == <<definition, reserved, txs, chain, allowance, spent>>
rows == <<approval, uploads, guard>>

\* An empty journal, no task and an unused chain satisfy the invariant.
LEMMA InitInv == Init => IInv
  <1> SUFFICES ASSUME Init PROVE IInv
    OBVIOUS
  <1>1. TypeOK
    BY DEF Init, TypeOK, IdleTask, IdleReq, NoTx, NoCost, Cost, ApprovalState, UploadState,
           TxState, Call, Outcome, Pc, LeaseRow, UploadRow, TxRow, Task, Req, ChainEntry
  <1>2. Inv
    BY ConstantsAssumption
    DEF Init, Inv, LockInv, DefinitionInv, TxInv, SingleInv, CarryInv, LedgerInv, AllowanceInv,
        HistoryInv, WithinCap, Unresolved, HasTx, HasApprovalTx, InSigner, IdleTask, NoTx, NoCost
  <1> QED
    BY <1>1, <1>2 DEF IInv

\* A step that leaves the books, the rows, the tasks and the lock alone.
LEMMA QuietStep ==
  ASSUME Inv, UNCHANGED <<books, rows, task, signer>>
  PROVE  Inv'
  BY DEF books, rows, Inv, LockInv, DefinitionInv, TxInv, SingleInv, CarryInv, LedgerInv,
         AllowanceInv, HistoryInv, WithinCap, Unresolved, HasTx, HasApprovalTx

\* Two costs with the same storage and gas are equal.
LEMMA CostEqual ==
  ASSUME NEW c \in Cost, NEW d \in Cost, c.storage = d.storage, c.gas = d.gas
  PROVE  c = d
  BY DEF Cost

\* Leaving the body of a task keeps the types of tasks and lock.
LEMMA LeaveTypes ==
  ASSUME TypeOK, NEW u \in Upload, NEW o \in Outcome, Leave(u, o)
  PROVE  task' \in [Upload -> Task] /\ signer' \in Upload \cup {None}
  <1>1. [IdleTask EXCEPT !.pc = "finish", !.outcome = o] \in Task
    BY DEF IdleTask, Task, Pc, Outcome
  <1> QED
    BY <1>1 DEF TypeOK, Leave

\* Moving a task to another program point keeps the type of the tasks.
LEMMA StepTypes ==
  ASSUME TypeOK, NEW u \in Upload, NEW pc \in Pc, Step(u, pc)
  PROVE  task' \in [Upload -> Task]
  <1>1. task \in [Upload -> Task]
    BY DEF TypeOK
  <1> QED
    BY <1>1 DEF Step, Task

\* A lapsed lease row is a lease row.
LEMMA LapseTypes ==
  ASSUME NEW f \in [Approval -> LeaseRow], NEW a \in Approval
  PROVE  [f EXCEPT ![a].live = FALSE] \in [Approval -> LeaseRow]
  BY DEF LeaseRow

\* The books are even again for the approval whose open transaction settles.
LEMMA SettledEven ==
  ASSUME IInv, NEW u \in Upload, Settle(u)
  PROVE  SettledReservation(ApprovalOf[u], task[u].nonce) = spent[ApprovalOf[u]]
  <1> DEFINE n == task[u].nonce
             a == ApprovalOf[u]
  <1>1. n \in Nonce /\ a \in Approval /\ txs[n].upload = u /\ Unresolved(n) /\ txs[n].storage <= task[u].left
    BY ConstantsAssumption DEF Settle, IInv, Inv, CarryInv, TypeOK, Unresolved
  <1>2. /\ reserved[a].storage + chain[n].storage = spent[a].storage + txs[n].storage
        /\ reserved[a].gas + chain[n].gas = spent[a].gas + txs[n].gas
    BY <1>1 DEF IInv, Inv, LedgerInv
  <1>3. /\ txs[n].storage \in Nat /\ txs[n].gas \in Nat
        /\ chain[n].storage \in Nat /\ chain[n].gas \in Nat
        /\ reserved[a].storage \in Nat /\ reserved[a].gas \in Nat
        /\ spent[a] \in Cost /\ spent[a].storage \in Nat /\ spent[a].gas \in Nat
    BY <1>1 DEF IInv, TypeOK, Cost, TxRow, ChainEntry
  <1>4. /\ SettledReservation(a, n).storage = spent[a].storage
        /\ SettledReservation(a, n).gas = spent[a].gas
    BY <1>2, <1>3 DEF SettledReservation
  <1>5. SettledReservation(a, n) \in Cost
    BY <1>3, <1>4 DEF SettledReservation, Cost
  <1> HIDE DEF n, a
  <1>6. SettledReservation(a, n) = spent[a]
    BY <1>3, <1>4, <1>5, CostEqual
  <1> QED
    BY <1>6 DEF n, a

\* settle never makes a reservation negative: it ends at what was charged.
LEMMA SettleTypes ==
  ASSUME IInv, NEW u \in Upload, Settle(u)
  PROVE  TypeOK'
  <1> DEFINE n == task[u].nonce
             a == ApprovalOf[u]
  <1>1. n \in Nonce /\ a \in Approval /\ txs[n].upload = u /\ Unresolved(n) /\ txs[n].storage <= task[u].left
    BY ConstantsAssumption DEF Settle, IInv, Inv, CarryInv, TypeOK, Unresolved
  <1>2. /\ reserved[a].storage + chain[n].storage = spent[a].storage + txs[n].storage
        /\ reserved[a].gas + chain[n].gas = spent[a].gas + txs[n].gas
    BY <1>1 DEF IInv, Inv, LedgerInv
  <1>3. SettledReservation(a, n) = spent[a]
    BY SettledEven
  <1>4. task' \in [Upload -> Task]
    <2>1. task \in [Upload -> Task] /\ txs[n].storage \in Nat /\ task[u].left \in Nat
      BY <1>1 DEF IInv, TypeOK, Task, TxRow
    <2>2. CASE chain[n].status = "ok"
      <3>1. task[u].left - txs[n].storage \in Nat
        BY <1>1, <2>1
      <3>2. [task[u] EXCEPT !.pc = "batch", !.nonce = None, !.left = @ - txs[n].storage] \in Task
        BY <2>1, <3>1 DEF Task, Pc
      <3> QED
        BY <2>1, <2>2, <3>2 DEF Settle
    <2>3. CASE chain[n].status # "ok"
      BY <2>1, <2>3, LeaveTypes DEF IInv, Settle, Outcome
    <2> QED BY <2>2, <2>3
  <1>5. reserved' \in [Approval -> Cost]
    BY <1>1, <1>3 DEF Settle, IInv, TypeOK
  <1>6. txs' \in [Nonce -> TxRow]
    <2>1. txs \in [Nonce -> TxRow]
      BY DEF IInv, TypeOK
    <2> QED
      BY <1>1, <2>1 DEF Settle, TxRow, TxState
  <1> QED
    BY <1>4, <1>5, <1>6 DEF Settle, IInv, TypeOK, Leave, chainVars
\* approve, activate and cancel_unpaid keep every type.
LEMMA JournalTypes ==
  ASSUME TypeOK, Journal
  PROVE  TypeOK'
  <1> USE ConstantsAssumption DEF TypeOK, processVars, chainVars
  <1>1. ASSUME NEW a \in Approval, NEW d \in Definition, Approve(a, d)
        PROVE  TypeOK'
    BY <1>1 DEF Approve, ApprovalState
  <1>2. ASSUME NEW a \in Approval, NEW k \in Key, Activate(a, k)
        PROVE  TypeOK'
    <2>1. [key |-> k, live |-> TRUE] \in LeaseRow
      BY DEF LeaseRow
    <2> QED
      BY <1>2, <2>1 DEF Activate
  <1>3. ASSUME NEW a \in Approval, NEW k \in Key, CancelUnpaid(a, k)
        PROVE  TypeOK'
    BY <1>3 DEF CancelUnpaid, ApprovalState
  <1> QED
    BY <1>1, <1>2, <1>3 DEF Journal

\* The HTTP calls, up to a spawned task, keep every type.
LEMMA RequestsTypes ==
  ASSUME TypeOK, Requests
  PROVE  TypeOK'
  <1> USE ConstantsAssumption DEF TypeOK, journalVars, chainVars
  <1>0. IdleReq \in Req
    BY DEF IdleReq, Req
  <1>1. ASSUME NEW r \in Request, NEW u \in Upload, NEW k \in Key, Begin(r, u, k)
        PROVE  TypeOK'
    <2>1. [pc |-> IF uploads[u].state = "partial" THEN "resume" ELSE "checked",
           upload |-> u, key |-> k] \in Req
      BY DEF Req
    <2> QED
      BY <1>1, <2>1 DEF Begin
  <1>2. ASSUME NEW r \in Request, NEW u \in Upload, BeginResume(r, u)
        PROVE  TypeOK'
    <2>1. [pc |-> "resume", upload |-> u, key |-> None] \in Req
      BY DEF Req
    <2> QED
      BY <1>2, <2>1 DEF BeginResume
  <1>3. ASSUME NEW r \in Request, Join(r) \/ TurnAway(r)
        PROVE  TypeOK'
    BY <1>0, <1>3 DEF Join, TurnAway
  <1>4. ASSUME NEW r \in Request, req[r].pc # "idle"
        PROVE  req[r].upload \in Upload /\ req[r].key \in Key \cup {None}
    BY <1>4 DEF Req, IdleReq
  <1>5. ASSUME NEW r \in Request, Admit(r)
        PROVE  TypeOK'
    <2>1. req[r].upload \in Upload /\ req[r].key \in Key \cup {None}
      BY <1>4, <1>5 DEF Admit
    <2>2. [state |-> "preparing", key |-> req[r].key] \in UploadRow
      BY <2>1 DEF UploadRow, UploadState
    <2>3. [IdleTask EXCEPT !.pc = "prepare"] \in Task
      BY DEF IdleTask, Task, Pc, Outcome
    <2> QED
      BY <1>0, <1>5, <2>1, <2>2, <2>3 DEF Admit
  <1>6. ASSUME NEW r \in Request, RefuseAdmission(r)
        PROVE  TypeOK'
    <2>1. req[r].upload \in Upload /\ req[r].key \in Key \cup {None}
      BY <1>4, <1>6 DEF RefuseAdmission
    <2>2. [req[r] EXCEPT !.pc = "refused"] \in Req
      BY <1>6, <2>1 DEF RefuseAdmission, Req, IdleReq
    <2> QED
      BY <1>6, <2>2 DEF RefuseAdmission
  <1>7. ASSUME NEW r \in Request, ResumeSession(r)
        PROVE  TypeOK'
    <2>1. req[r].upload \in Upload
      BY <1>4, <1>7 DEF ResumeSession
    <2>2. [IdleTask EXCEPT !.pc = "resuming"] \in Task
      BY DEF IdleTask, Task, Pc, Outcome
    <2> QED
      BY <1>0, <1>7, <2>1, <2>2 DEF ResumeSession
  <1> QED
    BY <1>1, <1>2, <1>3, <1>5, <1>6, <1>7 DEF Requests

\* A restart, a restore and the lifting of its guard keep every type.
LEMMA RestartTypes ==
  ASSUME TypeOK, Restart \/ Restore \/ LiftGuard
  PROVE  TypeOK'
  <1> USE ConstantsAssumption DEF TypeOK, chainVars
  <1>1. IdleTask \in Task /\ IdleReq \in Req
    BY DEF IdleTask, IdleReq, Task, Pc, Outcome, Req
  <1>2. ASSUME NEW u \in Upload
        PROVE  [uploads[u] EXCEPT !.state = RestartedUpload(u)] \in UploadRow
    BY DEF UploadRow, RestartedUpload, UploadState
  <1>3. ASSUME NEW before \in [Approval -> ApprovalState], Initialize(before), guard' \in {"clear", "set", "lifted"}
        PROVE  TypeOK'
    BY <1>1, <1>2, <1>3 DEF Initialize, ApprovalState
  <1>4. CASE Restart
    BY <1>3, <1>4 DEF Restart
  <1>5. CASE Restore
    BY <1>3, <1>5 DEF Restore, ApprovalState
  <1>6. CASE LiftGuard
    BY <1>6 DEF LiftGuard, processVars
  <1> QED
    BY <1>4, <1>5, <1>6

\* Time and the chain keep every type; an allowance is never overdrawn.
LEMMA EnvironmentTypes ==
  ASSUME IInv, Environment
  PROVE  TypeOK'
  <1> USE ConstantsAssumption DEF TypeOK, IInv, journalVars, processVars
  <1>1. ASSUME NEW a \in Approval, LeaseLapses(a)
        PROVE  TypeOK'
    <2>1. lease' \in [Approval -> LeaseRow]
      BY <1>1, LapseTypes DEF LeaseLapses
    <2> QED
      BY <1>1, <2>1 DEF LeaseLapses, chainVars
  <1>2. ASSUME NEW a \in Approval, ApprovalExpires(a)
        PROVE  TypeOK'
    BY <1>2 DEF ApprovalExpires, chainVars
  <1>3. ASSUME NEW u \in Upload, SessionExpires(u)
        PROVE  TypeOK'
    BY <1>3 DEF SessionExpires, chainVars
  <1>4. ASSUME NEW n \in Nonce, NEW status \in {"ok", "reverted"}, NEW storage \in Nat, NEW gas \in Nat,
               Charge(n, status, storage, gas), allowance' \in Nat
        PROVE  TypeOK'
    <2>1. txs[n].upload \in Upload
      BY <1>4 DEF Charge, Inv, TxInv, TxState
    <2>2. ApprovalOf[txs[n].upload] \in Approval
      BY <2>1
    <2>3. [status |-> status, storage |-> storage, gas |-> gas] \in ChainEntry
      BY DEF ChainEntry
    <2>4. [storage |-> spent[ApprovalOf[txs[n].upload]].storage + storage,
           gas |-> spent[ApprovalOf[txs[n].upload]].gas + gas] \in Cost
      BY <2>2 DEF Cost
    <2> QED
      BY <1>4, <2>2, <2>3, <2>4 DEF Charge
  <1>5. ASSUME NEW n \in Nonce, NEW gas \in Gas \cup {0}, Revert(n, gas)
        PROVE  TypeOK'
    BY <1>4, <1>5 DEF Revert
  <1>6. ASSUME NEW n \in Nonce, NEW storage \in Amount, NEW gas \in Gas \cup {0}, Mine(n, storage, gas)
        PROVE  TypeOK'
    <2>1. txs[n].allow \in Nat /\ txs[n].call \in Call
      BY DEF TxRow
    <2>2. allowance' \in Nat
      BY <1>6, <2>1 DEF Mine, Charges, Call
    <2> QED
      BY <1>4, <1>6, <2>2 DEF Mine
  <1> QED
    BY <1>1, <1>2, <1>3, <1>5, <1>6 DEF Environment

\* reserve keeps every type.
LEMMA ReserveTypes ==
  ASSUME TypeOK, NEW u \in Upload, NEW n \in Nonce, NEW call \in Call, NEW allow \in Nat,
         NEW storage \in Nat, NEW gas \in Nat, Reserve(u, n, call, allow, storage, gas)
  PROVE  TypeOK'
  <1> DEFINE a == ApprovalOf[u]
  <1>1. /\ a \in Approval /\ task \in [Upload -> Task] /\ reserved \in [Approval -> Cost]
        /\ uploads \in [Upload -> UploadRow]
    BY ConstantsAssumption DEF TypeOK
  <1>2. [storage |-> reserved[a].storage + storage, gas |-> reserved[a].gas + gas] \in Cost
    BY <1>1 DEF Cost
  <1>3. [state |-> "reserved", upload |-> u, call |-> call, allow |-> allow,
         storage |-> storage, gas |-> gas] \in TxRow
    BY DEF TxRow, TxState
  <1>4. [task[u] EXCEPT !.pc = "sign", !.nonce = n] \in Task
    BY <1>1 DEF Task, Pc
  <1>5. [uploads[u] EXCEPT !.state = "paying"] \in UploadRow
    BY <1>1 DEF UploadRow, UploadState
  <1>6. task' \in [Upload -> Task]
    BY <1>1, <1>4 DEF Reserve
  <1>7. uploads' \in [Upload -> UploadRow]
    BY <1>1, <1>5 DEF Reserve
  <1> QED
    BY <1>1, <1>2, <1>3, <1>6, <1>7 DEF TypeOK, Reserve, chainVars

\* A resumed body that fails leaves a well-typed task.
LEMMA ResumeFailsTypes ==
  ASSUME TypeOK, NEW u \in Upload, ResumeFails(u)
  PROVE  task' \in [Upload -> Task]
  <1>1. task \in [Upload -> Task]
    BY DEF TypeOK
  <1>2. [task[u] EXCEPT !.pc = "finish", !.outcome = "payment_recovery_required"] \in Task
    BY <1>1 DEF Task, Pc, Outcome
  <1> QED
    BY <1>1, <1>2 DEF ResumeFails

\* finish stores an upload state and an approval state.
LEMMA FinishTypes ==
  ASSUME TypeOK, NEW u \in Upload, NEW o \in Outcome, StoreFinish(u, o)
  PROVE  uploads' \in [Upload -> UploadRow] /\ approval' \in [Approval -> ApprovalState]
  <1>1. FinishState(u, o) \in UploadState
    BY DEF FinishState, Outcome, UploadState
  <1>2. uploads \in [Upload -> UploadRow] /\ approval \in [Approval -> ApprovalState]
    BY DEF TypeOK
  <1>3. [uploads[u] EXCEPT !.state = FinishState(u, o)] \in UploadRow
    BY <1>1, <1>2 DEF UploadRow
  <1> QED
    BY <1>2, <1>3, ConstantsAssumption DEF StoreFinish, ApprovalState

\* Every step of an upload task keeps every type.
LEMMA TasksTypes ==
  ASSUME IInv, NEW u \in Upload, Tasks(u)
  PROVE  TypeOK'
  <1>0. TypeOK /\ task \in [Upload -> Task] /\ txs \in [Nonce -> TxRow] /\ chain \in [Nonce -> ChainEntry]
    BY DEF IInv, TypeOK
  <1> USE <1>0
  <1>1. CASE Prepared(u)
    BY <1>1, StepTypes DEF Prepared, TypeOK, Pc, journalVars, chainVars
  <1>2. ASSUME NEW upper \in Amount, PayStart(u, upper)
        PROVE  TypeOK'
    <2>1. [task[u] EXCEPT !.pc = IF upper > 0 THEN "allow" ELSE "batch", !.left = upper] \in Task
      BY ConstantsAssumption DEF Task, Pc
    <2>2. task' \in [Upload -> Task]
      BY <1>2, <2>1 DEF PayStart
    <2> QED
      BY <1>2, <2>2 DEF PayStart, TypeOK, journalVars, chainVars
  <1>3. ASSUME NEW n \in Nonce, NEW gas \in Gas, ReserveAllowance(u, n, gas)
        PROVE  TypeOK'
    <2>1. task[u].left \in Nat /\ gas \in Nat /\ "approve" \in Call
      BY ConstantsAssumption DEF Task, Call
    <2> QED
      BY <1>3, <2>1, ReserveTypes DEF ReserveAllowance
  <1>4. ASSUME NEW n \in Nonce, NEW call \in Call, NEW storage \in Amount, NEW gas \in Gas,
               ReservePayment(u, n, call, storage, gas)
        PROVE  TypeOK'
    <2>1. storage \in Nat /\ gas \in Nat
      BY ConstantsAssumption
    <2> QED
      BY <1>4, <2>1, ReserveTypes DEF ReservePayment
  <1>5. CASE RecordSigned(u)
    <2>1. task[u].nonce \in Nonce
      BY <1>5 DEF RecordSigned, IInv, Inv, CarryInv
    <2>2. txs' \in [Nonce -> TxRow]
      BY <1>5, <2>1 DEF RecordSigned, TxRow, TxState
    <2>3. task' \in [Upload -> Task]
      BY <1>5, StepTypes DEF RecordSigned, Pc
    <2> QED
      BY <1>5, <2>2, <2>3 DEF RecordSigned, TypeOK, chainVars
  <1>6. CASE Send(u) \/ SendUncertain(u)
    <2>1. task[u].nonce \in Nonce
      BY <1>6 DEF Send, SendUncertain, IInv, Inv, CarryInv
    <2>2. chain' \in [Nonce -> ChainEntry]
      BY <1>6, <2>1 DEF Send, SendUncertain, ChainEntry
    <2>3. task' \in [Upload -> Task] /\ signer' \in Upload \cup {None}
      BY <1>6, StepTypes, LeaveTypes DEF Send, SendUncertain, Pc, Outcome, TypeOK
    <2> QED
      BY <1>6, <2>2, <2>3 DEF Send, SendUncertain, TypeOK, journalVars
  <1>7. CASE Settle(u)
    BY <1>7, SettleTypes
  <1>8. CASE PayDone(u)
    BY <1>8, StepTypes DEF PayDone, TypeOK, Pc, journalVars, chainVars
  <1>9. CASE StoreComplete(u) \/ StorePartial(u)
    <2>1. task' \in [Upload -> Task] /\ signer' \in Upload \cup {None}
      BY <1>9, StepTypes, LeaveTypes DEF StoreComplete, StorePartial, Pc, Outcome, TypeOK
    <2> QED
      BY <1>9, <2>1 DEF StoreComplete, StorePartial, TypeOK, journalVars, chainVars
  <1>10. ASSUME NEW o \in Outcome, Fail(u, o)
         PROVE  TypeOK'
    BY <1>10, LeaveTypes DEF Fail, TypeOK, journalVars, chainVars
  <1>11. CASE Finish(u) \/ FinishResumed(u)
    <2>1. task[u].outcome \in Outcome /\ "complete" \in Outcome
      BY DEF Task, Outcome
    <2>2. uploads' \in [Upload -> UploadRow] /\ approval' \in [Approval -> ApprovalState]
      BY <1>11, <2>1, FinishTypes DEF Finish, FinishResumed
    <2>3. task' \in [Upload -> Task]
      BY <1>11, StepTypes, ResumeFailsTypes DEF Finish, FinishResumed, Pc
    <2> QED
      BY <1>11, <2>2, <2>3 DEF Finish, FinishResumed, TypeOK, chainVars
  <1>12. CASE FinishLost(u)
    <2>1. task' \in [Upload -> Task]
      BY <1>12, StepTypes, ResumeFailsTypes DEF FinishLost, Pc
    <2> QED
      BY <1>12, <2>1 DEF FinishLost, TypeOK, journalVars, chainVars
  <1>13. CASE Announce(u)
    <2>1. IdleTask \in Task
      BY DEF IdleTask, Task, Pc, Outcome
    <2> QED
      BY <1>13, <2>1 DEF Announce, TypeOK, journalVars, chainVars
  <1> QED
    BY <1>1, <1>2, <1>3, <1>4, <1>5, <1>6, <1>7, <1>8, <1>9, <1>10, <1>11, <1>12, <1>13 DEF Tasks

\* Every step keeps every type.
LEMMA TypesStep ==
  ASSUME IInv, [Next]_vars
  PROVE  TypeOK'
  <1>1. CASE UNCHANGED vars
    BY <1>1 DEF IInv, TypeOK, vars, journalVars, processVars, chainVars
  <1> QED
    BY <1>1, JournalTypes, RequestsTypes, TasksTypes, RestartTypes, EnvironmentTypes DEF IInv, Next

-----------------------------------------------------------------------------

Outside == Pc \ ({"prepare", "pay"} \cup InSigner)

\* A task that leaves the signer, or moves about outside it, disturbs nothing.
LEMMA LeavingStep ==
  ASSUME TypeOK, Inv, NEW u \in Upload, UNCHANGED <<books, rows>>,
         \A v \in Upload \ {u} : task'[v] = task[v],
         task'[u].pc \in Outside,
         signer' = IF signer = u THEN None ELSE signer
  PROVE  Inv'
  <1> USE DEF books, rows, Outside
  <1>1. LockInv'
    BY ConstantsAssumption DEF Inv, LockInv, InSigner
  <1>2. DefinitionInv'
    BY DEF Inv, DefinitionInv
  <1>3. TxInv' /\ SingleInv' /\ LedgerInv'
    BY DEF Inv, TxInv, SingleInv, LedgerInv, Unresolved, HasApprovalTx
  <1>4. CarryInv'
    BY DEF Inv, CarryInv, Unresolved, InSigner
  <1>5. AllowanceInv'
    BY DEF Inv, AllowanceInv, Unresolved, InSigner, WithinCap
  <1>6. HistoryInv'
    BY DEF Inv, HistoryInv, HasTx, HasApprovalTx
  <1> QED
    BY <1>1, <1>2, <1>3, <1>4, <1>5, <1>6 DEF Inv

\* What Leave does to the task that takes it.
LEMMA LeaveEffect ==
  ASSUME TypeOK, NEW u \in Upload, NEW o, Leave(u, o)
  PROVE  /\ \A v \in Upload \ {u} : task'[v] = task[v]
         /\ task'[u].pc \in Outside
         /\ signer' = IF signer = u THEN None ELSE signer
  BY DEF TypeOK, Leave, IdleTask, Outside, Pc, InSigner

\* Step moves the program point of one task and leaves its other fields alone.
LEMMA StepEffect ==
  ASSUME TypeOK, NEW u \in Upload, NEW pc, Step(u, pc)
  PROVE  /\ \A v \in Upload \ {u} : task'[v] = task[v]
         /\ task'[u].pc = pc
         /\ task'[u].left = task[u].left
         /\ task'[u].nonce = task[u].nonce
         /\ task'[u].outcome = task[u].outcome
  <1>1. task \in [Upload -> Task]
    BY DEF TypeOK
  <1> QED
    BY <1>1 DEF Step, Task

\* A new approval starts with empty books.
LEMMA ApproveInv ==
  ASSUME IInv, NEW a \in Approval, NEW d \in Definition, Approve(a, d)
  PROVE  Inv'
  <1> USE ConstantsAssumption DEF IInv, chainVars, processVars
  <1>1. /\ approval[a] = "none" /\ definition[a] = None /\ d # None
        /\ approval \in [Approval -> ApprovalState]
        /\ definition \in [Approval -> Definition \cup {None}]
    BY DEF Approve, Inv, DefinitionInv, TypeOK
  <1>2. /\ approval' = [approval EXCEPT ![a] = "open"]
        /\ definition' = [definition EXCEPT ![a] = d]
        /\ UNCHANGED <<reserved, uploads, txs, guard, task, signer, chain, allowance, spent>>
    BY DEF Approve
  <1>3. d.storage \in Nat /\ d.gas \in Nat
    OBVIOUS
  <1>4. LockInv' /\ SingleInv' /\ CarryInv' /\ LedgerInv'
    BY <1>2 DEF Inv, LockInv, SingleInv, CarryInv, LedgerInv, Unresolved, HasApprovalTx
  <1>5. DefinitionInv'
    BY <1>1, <1>2, <1>3 DEF Inv, DefinitionInv, NoCost
  <1>6. TxInv'
    BY <1>1, <1>2 DEF Inv, TxInv
  <1>7. ASSUME NEW b \in Approval, definition[b] # None
        PROVE  definition'[b] = definition[b]
    BY <1>1, <1>2, <1>7
  <1>8. AllowanceInv'
    <2>1. ASSUME NEW u \in Upload, task[u].pc \in InSigner
          PROVE  definition'[ApprovalOf[u]] = definition[ApprovalOf[u]]
      BY <1>7, <2>1 DEF Inv, DefinitionInv
    <2>2. ASSUME NEW n \in Nonce, Unresolved(n)
          PROVE  definition'[ApprovalOf[txs[n].upload]] = definition[ApprovalOf[txs[n].upload]]
      BY <1>7, <2>2 DEF Inv, TxInv, Unresolved
    <2> QED
      BY <1>2, <2>1, <2>2 DEF Inv, AllowanceInv, Unresolved, WithinCap, InSigner
  <1>9. HistoryInv'
    BY <1>1, <1>2 DEF Inv, HistoryInv, HasTx, HasApprovalTx
  <1> QED
    BY <1>4, <1>5, <1>6, <1>8, <1>9 DEF Inv

\* cancel_unpaid closes only an approval without a transaction.
LEMMA CancelInv ==
  ASSUME IInv, NEW a \in Approval, NEW k \in Key, CancelUnpaid(a, k)
  PROVE  Inv'
  <1> USE ConstantsAssumption DEF IInv, chainVars, processVars
  <1>1. /\ approval' = [approval EXCEPT ![a] = "cancelled_unpaid"]
        /\ UNCHANGED <<books, uploads, guard, task, signer>>
        /\ ~HasApprovalTx(a)
    BY DEF CancelUnpaid, books
  <1>2. approval[a] # "none" /\ approval \in [Approval -> ApprovalState]
    BY DEF CancelUnpaid, TypeOK
  <1>3. LockInv' /\ TxInv' /\ SingleInv' /\ CarryInv' /\ LedgerInv' /\ AllowanceInv'
    BY <1>1 DEF Inv, LockInv, TxInv, SingleInv, CarryInv, LedgerInv, AllowanceInv, WithinCap,
                Unresolved, HasApprovalTx, books
  <1>4. DefinitionInv'
    BY <1>1, <1>2 DEF Inv, DefinitionInv, books
  <1>5. HistoryInv'
    BY <1>1, <1>2 DEF Inv, HistoryInv, HasTx, HasApprovalTx, books
  <1> QED
    BY <1>3, <1>4, <1>5 DEF Inv

\* An admitted upload has no transaction, so its task, if any, starts with none.
LEMMA AdmitInv ==
  ASSUME IInv, NEW r \in Request, Admit(r)
  PROVE  Inv'
  <1> DEFINE u == req[r].upload
  <1>1. u \in Upload
    BY DEF Admit, IInv, TypeOK, Req, IdleReq
  <1>2. /\ UNCHANGED <<books, approval, guard, signer>>
        /\ uploads' = [uploads EXCEPT ![u] = [state |-> "preparing", key |-> req[r].key]]
        /\ \A v \in Upload \ {u} : task'[v] = task[v]
        /\ task[u].pc = "idle" /\ task'[u].pc \in {"idle", "prepare"}
        /\ Fresh(u) /\ approval[ApprovalOf[u]] = "open"
    BY <1>1 DEF Admit, IInv, TypeOK, books, chainVars, IdleTask, Running, Admissible,
           RequireOpenApproval
  <1>3. ~HasTx(u)
    BY <1>1, <1>2 DEF Fresh, IInv, Inv, HistoryInv
  <1>4. LockInv' /\ TxInv' /\ SingleInv' /\ LedgerInv'
    BY <1>2 DEF IInv, Inv, LockInv, TxInv, SingleInv, LedgerInv, Unresolved, HasApprovalTx,
                InSigner, books
  <1>5. DefinitionInv'
    BY <1>1, <1>2, ConstantsAssumption DEF IInv, Inv, DefinitionInv, books
  <1>6. CarryInv' /\ AllowanceInv'
    BY <1>2 DEF IInv, Inv, CarryInv, AllowanceInv, WithinCap, Unresolved, books
  <1>7. HistoryInv'
    BY <1>1, <1>2, <1>3 DEF IInv, Inv, HistoryInv, TypeOK, HasTx, HasApprovalTx, books
  <1> QED
    BY <1>4, <1>5, <1>6, <1>7 DEF Inv

\* The end of the preparation changes no books.
LEMMA PreparedInv ==
  ASSUME IInv, NEW u \in Upload, Prepared(u)
  PROVE  Inv'
  <1>1. /\ UNCHANGED <<books, rows, signer>>
        /\ task[u].pc = "prepare" /\ task'[u].pc = "pay"
        /\ \A v \in Upload \ {u} : task'[v] = task[v]
    BY StepEffect DEF Prepared, IInv, books, rows, journalVars, chainVars
  <1>2. LockInv' /\ TxInv' /\ SingleInv' /\ LedgerInv' /\ DefinitionInv'
    BY <1>1 DEF IInv, Inv, LockInv, TxInv, SingleInv, LedgerInv, DefinitionInv, Unresolved,
                HasApprovalTx, InSigner, books, rows
  <1>3. CarryInv' /\ AllowanceInv'
    BY <1>1 DEF IInv, Inv, CarryInv, AllowanceInv, WithinCap, Unresolved, books
  <1>4. HistoryInv'
    BY <1>1 DEF IInv, Inv, HistoryInv, HasTx, HasApprovalTx, books, rows
  <1> QED
    BY <1>2, <1>3, <1>4 DEF Inv

\* The task that takes the lock has a prepared cost that fits the cap.
LEMMA PayStartInv ==
  ASSUME IInv, NEW u \in Upload, NEW upper \in Amount, PayStart(u, upper)
  PROVE  Inv'
  <1>0. task \in [Upload -> Task] /\ upper \in Nat
    BY ConstantsAssumption DEF IInv, TypeOK
  <1>1. /\ UNCHANGED <<books, rows>>
        /\ signer = None /\ signer' = u
        /\ task[u].pc = "pay"
        /\ task'[u].pc = IF upper > 0 THEN "allow" ELSE "batch"
        /\ task'[u].left = upper
        /\ \A v \in Upload \ {u} : task'[v] = task[v]
        /\ reserved[ApprovalOf[u]].storage + upper <= definition[ApprovalOf[u]].storage
    BY <1>0 DEF PayStart, books, rows, journalVars, chainVars, Task, CheckedReservation
  <1>2. LockInv'
    BY <1>1, ConstantsAssumption DEF IInv, Inv, LockInv, InSigner
  <1>3. TxInv' /\ SingleInv' /\ LedgerInv' /\ DefinitionInv'
    BY <1>1 DEF IInv, Inv, TxInv, SingleInv, LedgerInv, DefinitionInv, Unresolved,
                HasApprovalTx, InSigner, books, rows
  <1>4. CarryInv'
    BY <1>0, <1>1 DEF IInv, Inv, CarryInv, Unresolved, books
  <1>5. AllowanceInv'
    BY <1>0, <1>1 DEF IInv, Inv, AllowanceInv, WithinCap, Unresolved, books
  <1>6. HistoryInv'
    BY <1>1 DEF IInv, Inv, HistoryInv, HasTx, HasApprovalTx, books, rows
  <1> QED
    BY <1>2, <1>3, <1>4, <1>5, <1>6 DEF Inv

\* A new intent: no other is open, so the books of every approval are even
\* before it, and one entry ahead by exactly the new worst case after it.
LEMMA ReserveInv ==
  ASSUME IInv, NEW u \in Upload, NEW n \in Nonce, NEW call \in Call, NEW allow \in Nat,
         NEW storage \in Nat, NEW gas \in Nat, Reserve(u, n, call, allow, storage, gas),
         storage <= task[u].left,
         \/ task[u].pc = "allow" /\ call = "approve" /\ storage = 0 /\ allow = task[u].left
         \/ task[u].pc = "batch" /\ call # "approve"
  PROVE  Inv'
  <1> DEFINE a == ApprovalOf[u]
  <1>1. /\ a \in Approval /\ task \in [Upload -> Task] /\ reserved \in [Approval -> Cost]
        /\ uploads \in [Upload -> UploadRow] /\ txs \in [Nonce -> TxRow]
        /\ spent \in [Approval -> Cost] /\ chain \in [Nonce -> ChainEntry]
        /\ task[u].left \in Nat /\ allowance \in Nat
    BY ConstantsAssumption DEF IInv, TypeOK, Task
  <1>2. /\ UNCHANGED <<definition, chain, allowance, spent, approval, guard, signer>>
        /\ \A m \in Nonce : ~Unresolved(m)
        /\ txs[n].state = "none"
        /\ txs'[n] = [state |-> "reserved", upload |-> u, call |-> call, allow |-> allow,
                      storage |-> storage, gas |-> gas]
        /\ \A m \in Nonce \ {n} : txs'[m] = txs[m]
        /\ approval[a] = "open"
        /\ reserved'[a].storage = reserved[a].storage + storage
        /\ reserved'[a].gas = reserved[a].gas + gas
        /\ reserved'[a].storage <= definition[a].storage
        /\ reserved'[a].gas <= definition[a].gas
        /\ \A b \in Approval \ {a} : reserved'[b] = reserved[b]
    BY <1>1 DEF Reserve, chainVars, CheckedReservation, RequireOpenApproval, NoUncertainNonce
  <1>3. /\ \A v \in Upload \ {u} : task'[v] = task[v]
        /\ task'[u].pc = "sign" /\ task'[u].nonce = n /\ task'[u].left = task[u].left
    BY <1>1 DEF Reserve, Task
  <1>4. /\ \A v \in Upload \ {u} : uploads'[v] = uploads[v]
        /\ uploads'[u].state = "paying"
    BY <1>1 DEF Reserve, UploadRow
  <1>5. \A b \in Approval : reserved[b] = spent[b]
    BY <1>2 DEF IInv, Inv, LedgerInv
  <1>6. chain[n].status = "absent" /\ chain[n].storage = 0 /\ chain[n].gas = 0
    BY <1>1, <1>2 DEF IInv, Inv, TxInv
  <1>7. definition[a] # None
    BY <1>1, <1>2 DEF IInv, Inv, DefinitionInv
  <1>8. signer = u /\ \A v \in Upload \ {u} : task[v].pc \notin InSigner
    BY DEF IInv, Inv, LockInv, InSigner
  <1>9. LockInv'
    BY <1>2, <1>3, <1>8 DEF IInv, Inv, LockInv, InSigner
  <1>10. DefinitionInv'
    BY <1>1, <1>2, <1>3, <1>7 DEF IInv, Inv, DefinitionInv, InSigner
  <1>11. TxInv'
    BY <1>2, <1>6, <1>7 DEF IInv, Inv, TxInv
  <1>12. \A m \in Nonce : Unresolved(m)' <=> m = n
    BY <1>2 DEF Unresolved
  <1>13. SingleInv'
    BY <1>12 DEF SingleInv
  <1>14. CarryInv'
    BY <1>2, <1>3, <1>6, <1>8 DEF CarryInv, InSigner
  <1>15. LedgerInv'
    <2>1. ASSUME NEW b \in Approval, b # a
          PROVE  /\ reserved'[b] = spent'[b]
                 /\ ~HasApprovalTx(b)' => reserved'[b] = NoCost
      BY <1>2, <1>5, <2>1 DEF IInv, Inv, LedgerInv, HasApprovalTx
    <2>2. /\ reserved'[a].storage + chain'[n].storage = spent'[a].storage + txs'[n].storage
          /\ reserved'[a].gas + chain'[n].gas = spent'[a].gas + txs'[n].gas
      BY <1>1, <1>2, <1>5, <1>6 DEF Cost
    <2>3. HasApprovalTx(a)'
      BY <1>2 DEF HasApprovalTx
    <2> QED
      BY <1>2, <1>12, <2>1, <2>2, <2>3 DEF LedgerInv
  <1>16. AllowanceInv'
    <2>1. spent[a].storage \in Nat /\ reserved[a].storage \in Nat
      BY <1>1 DEF Cost
    <2>2. CASE call = "approve"
      <3>1. WithinCap(a, allow)'
        BY <1>1, <1>2, <1>5, <2>1, <2>2 DEF IInv, Inv, AllowanceInv, WithinCap
      <3> QED
        BY <1>2, <1>3, <1>6, <1>8, <1>12, <2>2, <3>1 DEF AllowanceInv, InSigner
    <2>3. CASE call # "approve"
      <3>1. task[u].left > 0 => WithinCap(a, allowance)'
        BY <1>2, <2>3 DEF IInv, Inv, AllowanceInv, WithinCap
      <3>2. storage > 0 => task[u].left > 0
        BY <1>1
      <3> QED
        BY <1>2, <1>3, <1>6, <1>8, <1>12, <2>3, <3>1, <3>2 DEF AllowanceInv, InSigner
    <2> QED
      BY <2>2, <2>3
  <1>17. HistoryInv'
    <2>1. HasTx(u)' /\ HasApprovalTx(a)'
      BY <1>2 DEF HasTx, HasApprovalTx
    <2>2. \A v \in Upload \ {u} : HasTx(v)' <=> HasTx(v)
      BY <1>2 DEF HasTx
    <2>3. \A b \in Approval \ {a} : HasApprovalTx(b)' <=> HasApprovalTx(b)
      BY <1>2 DEF HasApprovalTx
    <2> QED
      BY <1>2, <1>3, <1>4, <2>1, <2>2, <2>3 DEF IInv, Inv, HistoryInv
  <1> QED
    BY <1>9, <1>10, <1>11, <1>13, <1>14, <1>15, <1>16, <1>17 DEF Inv

\* Journalling the signed bytes keeps the transaction unresolved.
LEMMA RecordSignedInv ==
  ASSUME IInv, NEW u \in Upload, RecordSigned(u)
  PROVE  Inv'
  <1> DEFINE n == task[u].nonce
  <1>1. /\ txs \in [Nonce -> TxRow] /\ n \in Nonce /\ task[u].pc = "sign"
        /\ txs[n].state = "reserved" /\ txs[n].upload = u /\ chain[n].status = "absent"
    BY DEF IInv, TypeOK, Inv, CarryInv, RecordSigned
  <1>2. /\ UNCHANGED <<definition, reserved, chain, allowance, spent, rows, signer>>
        /\ txs'[n].state = "signed" /\ txs'[n].upload = txs[n].upload
        /\ txs'[n].call = txs[n].call /\ txs'[n].allow = txs[n].allow
        /\ txs'[n].storage = txs[n].storage /\ txs'[n].gas = txs[n].gas
        /\ \A m \in Nonce \ {n} : txs'[m] = txs[m]
    BY <1>1 DEF RecordSigned, TxRow, rows, chainVars
  <1>3. /\ \A v \in Upload \ {u} : task'[v] = task[v]
        /\ task'[u].pc = "send" /\ task'[u].nonce = n /\ task'[u].left = task[u].left
    BY StepEffect DEF RecordSigned, IInv
  <1>4. \A m \in Nonce : Unresolved(m)' <=> Unresolved(m)
    BY <1>1, <1>2 DEF Unresolved
  <1>5. /\ \A v \in Upload : HasTx(v)' <=> HasTx(v)
        /\ \A b \in Approval : HasApprovalTx(b)' <=> HasApprovalTx(b)
    BY <1>1, <1>2 DEF HasTx, HasApprovalTx
  <1>6. \A v \in Upload \ {u} : task[v].pc \notin InSigner
    BY <1>1 DEF IInv, Inv, LockInv, InSigner
  <1>7. LockInv' /\ DefinitionInv'
    BY <1>1, <1>2, <1>3 DEF IInv, Inv, LockInv, DefinitionInv, InSigner, rows
  <1>8. TxInv'
    BY <1>1, <1>2 DEF IInv, Inv, TxInv
  <1>9. SingleInv' 
    BY <1>4 DEF IInv, Inv, SingleInv
  <1>10. CarryInv'
    BY <1>1, <1>2, <1>3, <1>6 DEF IInv, Inv, CarryInv, InSigner
  <1>11. LedgerInv'
    BY <1>2, <1>4, <1>5 DEF IInv, Inv, LedgerInv
  <1>12. AllowanceInv'
    BY <1>1, <1>2, <1>3, <1>4, <1>6 DEF IInv, Inv, AllowanceInv, WithinCap, InSigner
  <1>13. HistoryInv'
    BY <1>1, <1>2, <1>3, <1>5 DEF IInv, Inv, HistoryInv, rows
  <1> QED
    BY <1>7, <1>8, <1>9, <1>10, <1>11, <1>12, <1>13 DEF Inv

\* The signed bytes reach the pool: no charge yet.
LEMMA SendInv ==
  ASSUME IInv, NEW u \in Upload, Send(u) \/ SendUncertain(u)
  PROVE  Inv'
  <1> DEFINE n == task[u].nonce
  <1>1. /\ chain \in [Nonce -> ChainEntry] /\ n \in Nonce /\ task[u].pc = "send"
        /\ txs[n].state = "signed" /\ txs[n].upload = u /\ chain[n].status = "absent"
    BY DEF IInv, TypeOK, Inv, CarryInv, Send, SendUncertain
  <1>2. /\ UNCHANGED <<definition, reserved, txs, allowance, spent, rows>>
        /\ chain'[n].status = "pool" /\ chain'[n].storage = chain[n].storage
        /\ chain'[n].gas = chain[n].gas
        /\ \A m \in Nonce \ {n} : chain'[m] = chain[m]
    BY <1>1 DEF Send, SendUncertain, ChainEntry, rows, journalVars
  <1>3. /\ \A v \in Upload \ {u} : task'[v] = task[v]
        /\ \/ /\ task'[u].pc = "receipt" /\ task'[u].nonce = n /\ task'[u].left = task[u].left
              /\ signer' = signer
           \/ /\ task'[u].pc \in Outside
              /\ signer' = IF signer = u THEN None ELSE signer
    BY StepEffect, LeaveEffect DEF Send, SendUncertain, IInv
  <1>4. signer = u /\ \A v \in Upload \ {u} : task[v].pc \notin InSigner
    BY <1>1 DEF IInv, Inv, LockInv, InSigner
  <1>5. \A m \in Nonce : Unresolved(m)' <=> Unresolved(m)
    BY <1>2 DEF Unresolved
  <1>6. LockInv'
    BY <1>1, <1>3, <1>4, ConstantsAssumption DEF LockInv, Outside, InSigner
  <1>7. DefinitionInv'
    BY <1>1, <1>2, <1>3 DEF IInv, Inv, DefinitionInv, Outside, InSigner, rows
  <1>8. TxInv'
    BY <1>1, <1>2 DEF IInv, Inv, TxInv
  <1>9. SingleInv'
    BY <1>5 DEF IInv, Inv, SingleInv
  <1>10. CarryInv'
    BY <1>1, <1>2, <1>3, <1>4 DEF IInv, Inv, CarryInv, Outside, InSigner
  <1>11. LedgerInv'
    BY <1>2, <1>5 DEF IInv, Inv, LedgerInv, HasApprovalTx
  <1>12. AllowanceInv'
    BY <1>1, <1>2, <1>3, <1>4, <1>5 DEF IInv, Inv, AllowanceInv, WithinCap, Outside, InSigner
  <1>13. HistoryInv'
    BY <1>1, <1>2, <1>3 DEF IInv, Inv, HistoryInv, HasTx, HasApprovalTx, Outside, rows
  <1> QED
    BY <1>6, <1>7, <1>8, <1>9, <1>10, <1>11, <1>12, <1>13 DEF Inv

\* Settling the only open transaction evens the books again.
LEMMA SettleInv ==
  ASSUME IInv, NEW u \in Upload, Settle(u)
  PROVE  Inv'
  <1> DEFINE n == task[u].nonce
             a == ApprovalOf[u]
  <1>1. /\ a \in Approval /\ n \in Nonce /\ task[u].pc = "receipt"
        /\ txs \in [Nonce -> TxRow] /\ task \in [Upload -> Task] /\ chain \in [Nonce -> ChainEntry]
        /\ txs[n].state = "signed" /\ txs[n].upload = u /\ txs[n].storage <= task[u].left
        /\ chain[n].status \in {"ok", "reverted"}
        /\ reserved \in [Approval -> Cost] /\ spent \in [Approval -> Cost]
        /\ allowance \in Nat /\ task[u].left \in Nat /\ txs[n].storage \in Nat
    BY ConstantsAssumption DEF IInv, TypeOK, Inv, CarryInv, Settle, Task, TxRow
  <1>2. /\ UNCHANGED <<definition, chain, allowance, spent, rows>>
        /\ txs'[n].state = "settled" /\ txs'[n].upload = txs[n].upload
        /\ txs'[n].call = txs[n].call /\ txs'[n].allow = txs[n].allow
        /\ txs'[n].storage = txs[n].storage /\ txs'[n].gas = txs[n].gas
        /\ \A m \in Nonce \ {n} : txs'[m] = txs[m]
        /\ reserved'[a] = SettledReservation(a, n)
        /\ \A b \in Approval \ {a} : reserved'[b] = reserved[b]
    BY <1>1 DEF Settle, TxRow, rows, chainVars
  <1>3. reserved'[a] = spent[a]
    BY <1>2, SettledEven
  <1>4. signer = u /\ \A v \in Upload \ {u} : task[v].pc \notin InSigner
    BY <1>1 DEF IInv, Inv, LockInv, InSigner
  <1>5. \A m \in Nonce : ~Unresolved(m)'
    BY <1>1, <1>2 DEF Unresolved, IInv, Inv, SingleInv
  <1>6. \A m \in Nonce \ {n} : ~Unresolved(m)
    BY <1>1 DEF Unresolved, IInv, Inv, SingleInv
  <1>7. /\ \A v \in Upload \ {u} : task'[v] = task[v]
        /\ \/ /\ chain[n].status = "ok" /\ task'[u].pc = "batch"
              /\ task'[u].left = task[u].left - txs[n].storage
              /\ signer' = signer
           \/ /\ task'[u].pc \in Outside
              /\ signer' = IF signer = u THEN None ELSE signer
    <2>1. CASE chain[n].status = "ok"
      BY <1>1, <2>1 DEF Settle, Task
    <2>2. CASE chain[n].status # "ok"
      BY <2>2, LeaveEffect DEF Settle, IInv
    <2> QED
      BY <2>1, <2>2
  <1>8. LockInv'
    BY <1>4, <1>7, ConstantsAssumption DEF LockInv, Outside, InSigner
  <1>9. definition[a] # None /\ HasApprovalTx(a) /\ HasApprovalTx(a)'
    BY <1>1, <1>2 DEF IInv, Inv, TxInv, HasApprovalTx
  <1>10. DefinitionInv'
    <2>1. /\ spent[a].storage <= reserved[a].storage
          /\ spent[a].gas <= reserved[a].gas
      BY <1>1, <1>2, <1>3 DEF Settle, SettledReservation, Cost, TxRow, ChainEntry
    <2>2. reserved'[a].storage <= definition[a].storage /\ reserved'[a].gas <= definition[a].gas
      <3>1. /\ reserved[a].storage <= definition[a].storage
            /\ reserved[a].gas <= definition[a].gas
        BY <1>1, <1>9 DEF IInv, Inv, DefinitionInv
      <3>2. definition[a] \in [storage: Nat, gas: Nat, contents: SUBSET Upload]
        BY <1>1, <1>9, ConstantsAssumption DEF IInv, TypeOK
      <3>3. definition[a].storage \in Nat /\ definition[a].gas \in Nat
        BY <3>2
      <3>4. /\ spent[a].storage \in Nat /\ spent[a].gas \in Nat
            /\ reserved[a].storage \in Nat /\ reserved[a].gas \in Nat
        BY <1>1 DEF Cost
      <3> QED
        BY <1>3, <2>1, <3>1, <3>3, <3>4
    <2> QED
      BY <1>1, <1>2, <1>7, <1>9, <2>2 DEF IInv, Inv, DefinitionInv, Outside, InSigner, rows
  <1>11. TxInv'
    BY <1>1, <1>2 DEF IInv, Inv, TxInv
  <1>12. SingleInv' /\ CarryInv'
    BY <1>4, <1>5, <1>7 DEF SingleInv, CarryInv, Outside, InSigner
  <1>13. LedgerInv'
    <2>1. ASSUME NEW b \in Approval, b # a
          PROVE  /\ reserved'[b] = spent'[b]
                 /\ ~HasApprovalTx(b)' => reserved'[b] = NoCost
      <3>1. \A m \in Nonce : Unresolved(m) => ApprovalOf[txs[m].upload] # b
        BY <1>1, <1>6, <2>1
      <3>2. HasApprovalTx(b)' <=> HasApprovalTx(b)
        BY <1>1, <1>2 DEF HasApprovalTx
      <3> QED
        BY <1>2, <2>1, <3>1, <3>2 DEF IInv, Inv, LedgerInv
    <2> QED
      BY <1>2, <1>3, <1>5, <1>9, <2>1 DEF LedgerInv
  <1>14. AllowanceInv'
    <2>1. ASSUME task'[u].pc = "batch", task'[u].left > 0
          PROVE  WithinCap(a, allowance)'
      <3>1. chain[n].status = "ok" /\ task[u].left > 0
        BY <1>1, <1>7, <2>1 DEF Outside, InSigner
      <3>2. Unresolved(n)
        BY <1>1 DEF Unresolved
      <3>3. WithinCap(a, allowance)
        BY <1>1, <3>1, <3>2 DEF IInv, Inv, AllowanceInv
      <3> QED
        BY <1>2, <3>3 DEF WithinCap
    <2> QED
      BY <1>4, <1>5, <1>7, <2>1 DEF AllowanceInv, Outside, InSigner
  <1>15. HistoryInv'
    <2>1. /\ \A v \in Upload : HasTx(v)' <=> HasTx(v)
          /\ \A b \in Approval : HasApprovalTx(b)' <=> HasApprovalTx(b)
      BY <1>1, <1>2 DEF HasTx, HasApprovalTx
    <2> QED
      BY <1>1, <1>2, <1>7, <2>1 DEF IInv, Inv, HistoryInv, Outside, rows
  <1> QED
    BY <1>8, <1>10, <1>11, <1>12, <1>13, <1>14, <1>15 DEF Inv

\* finish pauses an approval only when the upload has a transaction.
LEMMA FinishInv ==
  ASSUME IInv, NEW u \in Upload, Finish(u) \/ FinishResumed(u)
  PROVE  Inv'
  <1> DEFINE a == ApprovalOf[u]
             o == IF task[u].pc = "finish" THEN task[u].outcome ELSE "complete"
             st == FinishState(u, o)
  <1>1. a \in Approval /\ uploads \in [Upload -> UploadRow] /\ approval \in [Approval -> ApprovalState]
        /\ task[u].outcome \in Outcome
    BY ConstantsAssumption DEF IInv, TypeOK, Task
  <1>2. /\ UNCHANGED <<books, guard, signer>>
        /\ \A v \in Upload \ {u} : uploads'[v] = uploads[v]
        /\ uploads'[u].state = st
        /\ approval' = IF st = "payment_recovery_required"
                       THEN [approval EXCEPT ![a] = "paused"] ELSE approval
    BY <1>1 DEF Finish, FinishResumed, StoreFinish, books, chainVars, UploadRow
  <1>3. /\ \A v \in Upload \ {u} : task'[v] = task[v]
        /\ task'[u].pc \in {"announce", "finish"} /\ task[u].pc \in {"finish", "resumed"}
    <2>1. task \in [Upload -> Task]
      BY DEF IInv, TypeOK
    <2> QED
      BY <2>1 DEF Finish, FinishResumed, ResumeFails, Step, Task
  <1>4. /\ st = "payment_recovery_required" => HasTx(u)
        /\ st \notin {"none", "paying"}
    BY <1>1 DEF FinishState, Outcome
  <1>5. HasTx(u) => HasApprovalTx(a) /\ definition[a] # None
    BY DEF HasTx, HasApprovalTx, IInv, Inv, TxInv
  <1>6. LockInv' /\ TxInv' /\ SingleInv' /\ LedgerInv'
    BY <1>2, <1>3 DEF IInv, Inv, LockInv, TxInv, SingleInv, LedgerInv, Unresolved, HasApprovalTx,
                InSigner, books
  <1>7. DefinitionInv'
    BY <1>1, <1>2, <1>3, <1>4, <1>5 DEF IInv, Inv, DefinitionInv, InSigner, books
  <1>8. CarryInv' /\ AllowanceInv'
    BY <1>2, <1>3 DEF IInv, Inv, CarryInv, AllowanceInv, WithinCap, Unresolved, books
  <1>9. HistoryInv'
    <2>1. /\ \A v \in Upload : HasTx(v)' <=> HasTx(v)
          /\ \A b \in Approval : HasApprovalTx(b)' <=> HasApprovalTx(b)
      BY <1>2 DEF HasTx, HasApprovalTx, books
    <2> QED
      BY <1>1, <1>2, <1>3, <1>4, <1>5, <2>1 DEF IInv, Inv, HistoryInv
  <1> QED
    BY <1>6, <1>7, <1>8, <1>9 DEF Inv

\* All tasks are gone after a start; the journal's rows say what had been paid.
LEMMA InitializeInv ==
  ASSUME IInv, NEW before \in [Approval -> ApprovalState], Initialize(before),
         \A a \in Approval : /\ before[a] = "none" <=> approval[a] = "none"
                             /\ before[a] \in {approval[a], "paused"},
         guard' # "clear" \/ (guard' = guard /\ before = approval)
  PROVE  Inv'
  <1>1. /\ UNCHANGED books
        /\ uploads' = [u \in Upload |-> [uploads[u] EXCEPT !.state = RestartedUpload(u)]]
        /\ \A u \in Upload : task'[u].pc = "idle"
        /\ signer' = None
    BY DEF Initialize, books, chainVars, IdleTask
  <1>2. uploads \in [Upload -> UploadRow]
    BY DEF IInv, TypeOK
  <1>3. \A u \in Upload : uploads'[u].state = RestartedUpload(u)
    BY <1>1, <1>2 DEF UploadRow
  <1>4. ASSUME NEW u \in Upload
        PROVE  /\ uploads'[u].state = "none" => ~HasTx(u)
               /\ uploads'[u].state \in {"paying", "payment_recovery_required"} => HasTx(u)
               /\ HasTx(u) => HasApprovalTx(ApprovalOf[u]) /\ definition[ApprovalOf[u]] # None
    BY <1>3 DEF RestartedUpload, IInv, Inv, HistoryInv, TxInv, HasTx, HasApprovalTx
  <1>5. ASSUME NEW a \in Approval
        PROVE  \/ approval'[a] = before[a]
               \/ approval'[a] = "paused" /\ HasApprovalTx(a) /\ definition[a] # None
    BY <1>4 DEF Initialize
  <1>6. LockInv' /\ TxInv' /\ SingleInv' /\ CarryInv' /\ LedgerInv'
    BY <1>1, ConstantsAssumption DEF IInv, Inv, LockInv, TxInv, SingleInv, CarryInv, LedgerInv,
       Unresolved, HasApprovalTx, InSigner, books
  <1>7. DefinitionInv'
    BY <1>1, <1>5 DEF IInv, Inv, DefinitionInv, InSigner, books
  <1>8. AllowanceInv'
    BY <1>1 DEF IInv, Inv, AllowanceInv, Unresolved, WithinCap, books
  <1>9. HistoryInv'
    <2>1. /\ \A v \in Upload : HasTx(v)' <=> HasTx(v)
          /\ \A b \in Approval : HasApprovalTx(b)' <=> HasApprovalTx(b)
      BY <1>1 DEF HasTx, HasApprovalTx, books
    <2> QED
      BY <1>1, <1>4, <1>5, <2>1 DEF IInv, Inv, HistoryInv
  <1> QED
    BY <1>6, <1>7, <1>8, <1>9 DEF Inv

\* A transaction in the pool is the one that is open: its charge moves from the
\* allowance to what is spent, and both together stay within the cap.
\* A charge moves the same amount into the chain entry and into the total spent,
\* and what it draws is covered by the allowance.
LEMMA ChargeInv ==
  ASSUME IInv, NEW n \in Nonce, NEW status \in {"ok", "reverted"}, NEW storage \in Nat,
         NEW gas \in Nat, Charge(n, status, storage, gas),
         allowance' = IF status = "ok" /\ txs[n].call = "approve" THEN txs[n].allow
                      ELSE allowance - storage,
         storage <= allowance \/ storage = 0,
         txs[n].call = "approve" \/ txs[n].storage = 0 => storage = 0
  PROVE  Inv'
  <1> DEFINE a == ApprovalOf[txs[n].upload]
  <1>1. /\ txs \in [Nonce -> TxRow] /\ chain \in [Nonce -> ChainEntry]
        /\ spent \in [Approval -> Cost] /\ reserved \in [Approval -> Cost]
        /\ chain[n].status = "pool" /\ gas <= txs[n].gas
        /\ allowance \in Nat /\ task \in [Upload -> Task]
    BY DEF IInv, TypeOK, Charge
  <1>2. /\ txs[n].state = "signed" /\ txs[n].upload \in Upload
        /\ chain[n].storage = 0 /\ chain[n].gas = 0
        /\ definition[a] # None
    BY <1>1 DEF IInv, Inv, TxInv
  <1>3. a \in Approval /\ Unresolved(n) /\ \A m \in Nonce \ {n} : ~Unresolved(m)
    BY <1>2, ConstantsAssumption DEF Unresolved, IInv, Inv, SingleInv
  <1>4. /\ UNCHANGED <<definition, reserved, txs, rows, task, signer>>
        /\ chain'[n] = [status |-> status, storage |-> storage, gas |-> gas]
        /\ \A m \in Nonce \ {n} : chain'[m] = chain[m]
        /\ spent'[a].storage = spent[a].storage + storage
        /\ spent'[a].gas = spent[a].gas + gas
        /\ \A b \in Approval \ {a} : spent'[b] = spent[b]
    BY <1>1, <1>3 DEF Charge, journalVars, processVars, rows
  <1>5. \A m \in Nonce : Unresolved(m)' <=> m = n
    BY <1>3, <1>4 DEF Unresolved
  <1>6. LockInv' /\ DefinitionInv' /\ SingleInv' /\ HistoryInv'
    BY <1>4 DEF IInv, Inv, LockInv, DefinitionInv, SingleInv, HistoryInv, Unresolved, HasTx,
                HasApprovalTx, rows
  <1>7. TxInv'
    BY <1>1, <1>2, <1>4 DEF IInv, Inv, TxInv
  <1>8. CarryInv'
    BY <1>1, <1>3, <1>4, <1>5 DEF IInv, Inv, CarryInv, Unresolved
  <1>9. LedgerInv'
    <2>1. ASSUME NEW b \in Approval, b # a
          PROVE  /\ reserved'[b] = spent'[b]
                 /\ ~HasApprovalTx(b)' => reserved'[b] = NoCost
      BY <1>3, <1>4, <2>1 DEF IInv, Inv, LedgerInv, HasApprovalTx
    <2>2. /\ reserved[a].storage + chain[n].storage = spent[a].storage + txs[n].storage
          /\ reserved[a].gas + chain[n].gas = spent[a].gas + txs[n].gas
      BY <1>3 DEF IInv, Inv, LedgerInv
    <2>3. /\ reserved[a].storage \in Nat /\ reserved[a].gas \in Nat
          /\ spent[a].storage \in Nat /\ spent[a].gas \in Nat
          /\ txs[n].storage \in Nat /\ txs[n].gas \in Nat
      BY <1>1, <1>3 DEF Cost, TxRow
    <2>4. /\ reserved'[a].storage + chain'[n].storage = spent'[a].storage + txs'[n].storage
          /\ reserved'[a].gas + chain'[n].gas = spent'[a].gas + txs'[n].gas
      BY <1>2, <1>4, <2>2, <2>3
    <2>5. HasApprovalTx(a)'
      BY <1>2, <1>4 DEF HasApprovalTx
    <2> QED
      BY <1>3, <1>4, <1>5, <2>1, <2>4, <2>5 DEF LedgerInv
  <1>10. AllowanceInv'
    <2>1. /\ spent[a].storage \in Nat /\ definition[a].storage \in Nat
          /\ txs[n].allow \in Nat /\ txs[n].storage \in Nat
      <3>1. definition[a] \in [storage: Nat, gas: Nat, contents: SUBSET Upload]
        BY <1>2, <1>3, ConstantsAssumption DEF IInv, TypeOK
      <3> QED
        BY <1>1, <1>3, <3>1 DEF Cost, TxRow
    <2>2. WithinCap(a, allowance) /\ txs[n].call # "approve" => WithinCap(a, allowance)'
      BY <1>1, <1>4, <2>1 DEF WithinCap
    <2>3. txs[n].call = "approve" =>
            /\ WithinCap(a, txs[n].allow)'
            /\ chain'[n].status = "ok" => WithinCap(a, allowance)'
      BY <1>1, <1>3, <1>4, <2>1 DEF IInv, Inv, AllowanceInv, WithinCap
    <2>4. txs[n].storage > 0 => WithinCap(a, allowance)'
      BY <1>3, <2>1, <2>2 DEF IInv, Inv, AllowanceInv, TxInv
    <2>5. ASSUME NEW u \in Upload, task[u].pc \in {"sign", "send", "receipt"}
          PROVE  txs[task[u].nonce].state \in {"reserved", "signed"} /\ task[u].nonce = n /\ txs[n].upload = u
      BY <1>3, <2>5 DEF IInv, Inv, CarryInv, Unresolved
    <2>6. ASSUME NEW u \in Upload, task[u].pc \in {"sign", "send", "receipt"},
                 txs[n].call # "approve", task[u].left > 0
          PROVE  WithinCap(ApprovalOf[u], allowance)'
      <3>1. task[u].nonce = n /\ txs[n].upload = u
        BY <2>5, <2>6
      <3>2. WithinCap(ApprovalOf[u], allowance)
        BY <2>6, <3>1 DEF IInv, Inv, AllowanceInv
      <3> QED
        BY <1>4, <2>2, <2>6, <3>1, <3>2 DEF WithinCap
    <2>7. ASSUME NEW u \in Upload
          PROVE  ~(task[u].pc = "batch" /\ task[u].left > 0)
      BY <1>3 DEF IInv, Inv, CarryInv
    <2>8. ASSUME NEW u \in Upload, task[u].pc = "allow"
          PROVE  reserved'[ApprovalOf[u]].storage + task'[u].left <= definition'[ApprovalOf[u]].storage
      BY <1>4, <2>8 DEF IInv, Inv, AllowanceInv
    <2> QED
      BY <1>4, <1>5, <2>3, <2>4, <2>5, <2>6, <2>7, <2>8 DEF AllowanceInv
  <1> QED
    BY <1>6, <1>7, <1>8, <1>9, <1>10 DEF Inv

\* Every step of the journal, the tasks and the environment preserves the invariant.
LEMMA InvStep ==
  ASSUME IInv, [Next]_vars
  PROVE  Inv'
  <1>0. TypeOK /\ Inv
    BY DEF IInv
  <1>1. CASE UNCHANGED vars
    BY <1>0, <1>1, QuietStep
    DEF vars, journalVars, processVars, chainVars, books, rows
  <1>2. CASE Journal
    <2>1. ASSUME NEW a \in Approval, NEW k \in Key, Activate(a, k)
          PROVE  Inv'
      BY <1>0, <2>1, QuietStep DEF Activate, processVars, chainVars, books, rows
    <2> QED
      BY <1>2, <2>1, ApproveInv, CancelInv DEF Journal
  <1>3. CASE Requests
    <2>1. ASSUME NEW r \in Request, ResumeSession(r)
          PROVE  Inv'
      <3> DEFINE u == req[r].upload
      <3>1. u \in Upload /\ task[u].pc = "idle"
        BY <1>0, <2>1 DEF ResumeSession, TypeOK, Req, IdleReq, Running
      <3>2. signer # u
        BY <1>0, <3>1 DEF Inv, LockInv, InSigner
      <3>3. /\ UNCHANGED <<books, rows, signer>> /\ task'[u].pc \in Outside
            /\ \A v \in Upload \ {u} : task'[v] = task[v]
        BY <1>0, <2>1, <3>1 DEF ResumeSession, TypeOK, journalVars, chainVars, books, rows,
           Outside, Pc, InSigner, IdleTask
      <3> QED
        BY <1>0, <3>1, <3>2, <3>3, LeavingStep
    <2>2. ASSUME NEW r \in Request,
                 \/ \E u \in Upload : (\E k \in Key : Begin(r, u, k)) \/ BeginResume(r, u)
                 \/ Join(r) \/ RefuseAdmission(r) \/ TurnAway(r)
          PROVE  Inv'
      BY <1>0, <2>2, QuietStep DEF Begin, BeginResume, Join, RefuseAdmission, TurnAway,
         journalVars, chainVars, books, rows
    <2> QED
      BY <1>3, <2>1, <2>2, AdmitInv DEF Requests
  <1>4. ASSUME NEW u \in Upload, Tasks(u)
        PROVE  Inv'
    <2>1. ASSUME NEW n \in Nonce, NEW gas \in Gas, ReserveAllowance(u, n, gas)
          PROVE  Inv'
      <3>1. task[u].left \in Nat /\ gas \in Nat /\ "approve" \in Call
        BY <1>0, ConstantsAssumption DEF TypeOK, Task, Call
      <3> QED
        BY <2>1, <3>1, ReserveInv DEF ReserveAllowance
    <2>2. ASSUME NEW n \in Nonce, NEW call \in Call, NEW storage \in Amount, NEW gas \in Gas,
                 ReservePayment(u, n, call, storage, gas)
          PROVE  Inv'
      <3>1. storage \in Nat /\ gas \in Nat
        BY ConstantsAssumption
      <3> QED
        BY <2>2, <3>1, ReserveInv DEF ReservePayment
    <2>3. CASE PayDone(u)
      <3>1. signer = u
        BY <1>0, <2>3 DEF PayDone, Inv, LockInv, InSigner
      <3> QED
        BY <1>0, <2>3, <3>1, StepEffect, LeavingStep
        DEF PayDone, journalVars, chainVars, books, rows, Outside, Pc, InSigner
    <2>4. CASE StoreComplete(u) \/ StorePartial(u)
      <3>1. signer # u \/ ~Step(u, "resumed") \/ task[u].pc # "resuming"
        BY <1>0 DEF Inv, LockInv, InSigner
      <3> QED
        BY <1>0, <2>4, <3>1, StepEffect, LeaveEffect, LeavingStep
        DEF StoreComplete, StorePartial, journalVars, chainVars, books, rows, Outside, Pc, InSigner
    <2>5. ASSUME NEW o \in Outcome, Fail(u, o)
          PROVE  Inv'
      BY <1>0, <2>5, LeaveEffect, LeavingStep DEF Fail, journalVars, chainVars, books, rows
    <2>6. CASE FinishLost(u) \/ Announce(u)
      <3>1. signer # u /\ task \in [Upload -> Task]
        BY <1>0, <2>6 DEF FinishLost, Announce, Inv, LockInv, InSigner, TypeOK
      <3>2. \A v \in Upload \ {u} : task'[v] = task[v]
        BY <2>6, <3>1 DEF FinishLost, ResumeFails, Announce, Step
      <3>3. task'[u].pc \in {"announce", "finish", "idle"}
        BY <2>6, <3>1 DEF FinishLost, ResumeFails, Announce, Step, Task, IdleTask
      <3>4. task'[u].pc \in Outside
        BY <3>3 DEF Outside, Pc, InSigner
      <3>5. UNCHANGED <<books, rows, signer>>
        BY <2>6 DEF FinishLost, Announce, journalVars, chainVars, books, rows
      <3> QED
        BY <1>0, <3>1, <3>2, <3>4, <3>5, LeavingStep
    <2> QED
      BY <1>4, <2>1, <2>2, <2>3, <2>4, <2>5, <2>6, PreparedInv, PayStartInv, RecordSignedInv,
         SendInv, SettleInv, FinishInv DEF Tasks
  <1>5. CASE Restart \/ Restore \/ LiftGuard
    <2>1. approval \in [Approval -> ApprovalState]
      BY <1>0 DEF TypeOK
    <2>2. CASE Restart
      BY <2>1, <2>2, InitializeInv DEF Restart
    <2>3. CASE Restore
      <3> DEFINE before == [a \in Approval |-> IF approval[a] = "none" THEN "none" ELSE "paused"]
      <3>1. /\ before \in [Approval -> ApprovalState]
            /\ \A a \in Approval : /\ before[a] = "none" <=> approval[a] = "none"
                                   /\ before[a] \in {approval[a], "paused"}
        BY <2>1 DEF ApprovalState
      <3>2. Initialize(before) /\ guard' # "clear"
        BY <2>3 DEF Restore
      <3> HIDE DEF before
      <3> QED
        BY <3>1, <3>2, InitializeInv
    <2>4. CASE LiftGuard
      <3>1. UNCHANGED <<books, approval, uploads, task, signer>> /\ guard' # "clear"
        BY <2>4 DEF LiftGuard, processVars, chainVars, books
      <3>2. HistoryInv'
        BY <1>0, <3>1 DEF Inv, HistoryInv, HasTx, HasApprovalTx, books
      <3> QED
        BY <1>0, <3>1, <3>2 DEF Inv, LockInv, DefinitionInv, TxInv, SingleInv, CarryInv, LedgerInv,
           AllowanceInv, WithinCap, Unresolved, HasApprovalTx, books
    <2> QED
      BY <1>5, <2>2, <2>3, <2>4
  <1>6. CASE Environment
    <2>1. ASSUME NEW a \in Approval, LeaseLapses(a) \/ ApprovalExpires(a)
          PROVE  Inv'
      BY <1>0, <2>1, QuietStep DEF LeaseLapses, ApprovalExpires, journalVars, processVars,
         chainVars, books, rows
    <2>2. ASSUME NEW u \in Upload, SessionExpires(u)
          PROVE  Inv'
      BY <1>0, <2>2, QuietStep DEF SessionExpires, journalVars, chainVars, books, rows
    <2>3. ASSUME NEW n \in Nonce, NEW gas \in Gas \cup {0}, Revert(n, gas)
          PROVE  Inv'
      <3>1. gas \in Nat /\ allowance \in Nat
        BY <1>0, ConstantsAssumption DEF TypeOK
      <3>2. allowance' = allowance - 0 /\ Charge(n, "reverted", 0, gas)
        BY <2>3, <3>1 DEF Revert
      <3> QED
        BY <3>1, <3>2, ChargeInv
    <2>4. ASSUME NEW n \in Nonce, NEW storage \in Amount, NEW gas \in Gas \cup {0},
                 Mine(n, storage, gas)
          PROVE  Inv'
      <3>1. gas \in Nat /\ storage \in Nat /\ txs[n].call \in Call
        BY <1>0, ConstantsAssumption DEF TypeOK, TxRow
      <3>2. /\ storage <= allowance \/ storage = 0
            /\ txs[n].call = "approve" \/ txs[n].storage = 0 => storage = 0
        BY <2>4, <3>1 DEF Mine, Charges, Call
      <3> QED
        BY <2>4, <3>1, <3>2, ChargeInv DEF Mine
    <2> QED
      BY <1>6, <2>1, <2>2, <2>3, <2>4 DEF Environment
  <1> QED
    BY <1>1, <1>2, <1>3, <1>4, <1>5, <1>6 DEF Next

-----------------------------------------------------------------------------
(* The safety properties follow from the invariant state by state.         *)

\* Signer lock, transactions, books, allowance and history agree, and everything
\* has its type, in every reachable state: through every restart, restore and lost
\* answer.
THEOREM BooksAgree == Spec => []IInv
  <1>1. Init => IInv
    BY InitInv
  <1>2. IInv /\ [Next]_vars => IInv'
    BY TypesStep, InvStep DEF IInv
  <1> QED
    BY <1>1, <1>2, PTL DEF Spec

\* Every variable keeps the type of its journal column or task-local state.
THEOREM TypeCorrect == Spec => []TypeOK
  <1>1. IInv => TypeOK
    BY DEF IInv
  <1> QED
    BY <1>1, BooksAgree, PTL

\* The open transaction of an approval charged no more storage than the cap
\* leaves: its own reservation, or else the allowance, was within the cap.
LEMMA OpenWithinCap ==
  ASSUME IInv, NEW a \in Approval, NEW n \in Nonce, Unresolved(n),
         ApprovalOf[txs[n].upload] = a
  PROVE  /\ spent[a].storage <= definition[a].storage
         /\ spent[a].gas <= definition[a].gas
  <1>1. /\ txs \in [Nonce -> TxRow] /\ chain \in [Nonce -> ChainEntry]
        /\ spent \in [Approval -> Cost] /\ reserved \in [Approval -> Cost]
        /\ allowance \in Nat
    BY DEF IInv, TypeOK
  <1>2. definition[a] # None
    BY DEF IInv, Inv, TxInv, Unresolved
  <1>3. /\ definition[a].storage \in Nat /\ definition[a].gas \in Nat
    <2>1. definition[a] \in [storage: Nat, gas: Nat, contents: SUBSET Upload]
      BY <1>2, ConstantsAssumption DEF IInv, TypeOK
    <2> QED
      BY <2>1
  <1>4. /\ reserved[a].storage \in Nat /\ reserved[a].gas \in Nat
        /\ spent[a].storage \in Nat /\ spent[a].gas \in Nat
        /\ txs[n].storage \in Nat /\ txs[n].gas \in Nat
        /\ chain[n].storage \in Nat /\ chain[n].gas \in Nat
    BY <1>1 DEF Cost, TxRow, ChainEntry
  <1>5. /\ reserved[a].storage <= definition[a].storage
        /\ reserved[a].gas <= definition[a].gas
    BY <1>2 DEF IInv, Inv, DefinitionInv
  <1>6. /\ reserved[a].storage + chain[n].storage = spent[a].storage + txs[n].storage
        /\ reserved[a].gas + chain[n].gas = spent[a].gas + txs[n].gas
    BY DEF IInv, Inv, LedgerInv
  <1>7. chain[n].gas <= txs[n].gas
    BY DEF IInv, Inv, TxInv
  <1>8. CASE txs[n].storage = 0
    <2>1. chain[n].storage = 0
      BY <1>8 DEF IInv, Inv, TxInv
    <2> QED
      BY <1>3, <1>4, <1>5, <1>6, <1>7, <1>8, <2>1
  <1>9. CASE txs[n].storage > 0
    <2>1. WithinCap(a, allowance)
      BY <1>9 DEF IInv, Inv, AllowanceInv
    <2> QED
      BY <1>1, <1>3, <1>4, <1>5, <1>6, <1>7, <2>1 DEF WithinCap
  <1> QED
    BY <1>4, <1>8, <1>9

\* The invariant bounds what was charged under an approval by its definition.
LEMMA BudgetState == IInv => BudgetRespected
  <1> SUFFICES ASSUME IInv, NEW a \in Approval
               PROVE  IF definition[a] = None THEN spent[a] = NoCost
                      ELSE /\ spent[a].storage <= definition[a].storage
                           /\ spent[a].gas <= definition[a].gas
    BY DEF BudgetRespected
  <1>1. CASE \A n \in Nonce : Unresolved(n) => ApprovalOf[txs[n].upload] # a
    <2>1. reserved[a] = spent[a]
      BY <1>1 DEF IInv, Inv, LedgerInv
    <2> QED
      BY <2>1 DEF IInv, Inv, DefinitionInv
  <1>2. ASSUME NEW n \in Nonce, Unresolved(n), ApprovalOf[txs[n].upload] = a
        PROVE  /\ definition[a] # None
               /\ spent[a].storage <= definition[a].storage
               /\ spent[a].gas <= definition[a].gas
    BY <1>2, OpenWithinCap DEF IInv, Inv, TxInv, Unresolved
  <1> QED
    BY <1>1, <1>2

\* reserve, settle and check_storage keep what the chain charges under an
\* approval within the caps the operator approved, for every number of uploads,
\* leases, crashes, lost sends, reverts and merkle batches.
THEOREM BudgetSafe == Spec => []BudgetRespected
  BY BudgetState, BooksAgree, PTL

\* At most one transaction of the account is unresolved, and nothing is sent
\* that was not journalled first.
THEOREM SigningOrdered == Spec => []OrderedSigning
  <1>1. IInv => OrderedSigning
    BY DEF IInv, Inv, SingleInv, TxInv, OrderedSigning
  <1> QED
    BY <1>1, BooksAgree, PTL

\* cancel_unpaid's answer "nothing was paid" stays true for ever.
THEOREM CancellationSafe == Spec => []CancelledNeverPaid
  <1>1. IInv => CancelledNeverPaid
    <2> SUFFICES ASSUME IInv, NEW a \in Approval, approval[a] = "cancelled_unpaid"
                 PROVE  ~HasApprovalTx(a) /\ spent[a] = NoCost
      BY DEF CancelledNeverPaid
    <2>1. ~HasApprovalTx(a)
      BY DEF IInv, Inv, HistoryInv
    <2>2. reserved[a] = NoCost
      BY <2>1 DEF IInv, Inv, LedgerInv
    <2>3. reserved[a] = spent[a]
      BY <2>1 DEF IInv, Inv, LedgerInv, HasApprovalTx, Unresolved
    <2> QED
      BY <2>1, <2>2, <2>3
  <1> QED
    BY <1>1, BooksAgree, PTL

\* Outside a restore, finish and initialize pause only approvals that have a
\* transaction to reconcile.
THEOREM PauseJustified == Spec => []PausedOnlyAfterPayment
  <1>1. IInv => PausedOnlyAfterPayment
    BY DEF IInv, Inv, HistoryInv, PausedOnlyAfterPayment
  <1> QED
    BY <1>1, BooksAgree, PTL

-----------------------------------------------------------------------------
\* What never happens over time.

\* Only PayStart hands the signer's lock to a task.
LEMMA LockTaken ==
  ASSUME IInv, [Next]_vars, NEW u \in Upload, signer # u, signer' = u
  PROVE  task[u].pc = "pay"
  <1>0. None \notin Upload
    BY ConstantsAssumption
  <1>1. ASSUME NEW v \in Upload, Tasks(v)
        PROVE  task[u].pc = "pay"
    <2>1. ASSUME NEW upper \in Amount, PayStart(v, upper)
          PROVE  task[u].pc = "pay"
      BY <2>1 DEF PayStart
    <2>2. ASSUME NEW n \in Nonce, NEW gas \in Gas, ReserveAllowance(v, n, gas)
          PROVE  FALSE
      BY <2>2 DEF ReserveAllowance, Reserve
    <2>3. ASSUME NEW n \in Nonce, NEW call \in Call, NEW storage \in Amount, NEW gas \in Gas,
                 ReservePayment(v, n, call, storage, gas)
          PROVE  FALSE
      BY <2>3 DEF ReservePayment, Reserve
    <2>4. ~(Prepared(v) \/ RecordSigned(v) \/ Send(v) \/ PayDone(v) \/ Finish(v)
            \/ FinishResumed(v) \/ FinishLost(v) \/ Announce(v))
      BY <1>0 DEF Prepared, RecordSigned, Send, PayDone, Finish, FinishResumed, FinishLost,
         Announce
    <2>5. ~(SendUncertain(v) \/ Settle(v) \/ StoreComplete(v) \/ StorePartial(v))
      BY <1>0 DEF SendUncertain, Settle, StoreComplete, StorePartial, Leave
    <2>6. \A o \in Outcome : ~Fail(v, o)
      BY <1>0 DEF Fail, Leave
    <2> QED
      BY <1>1, <2>1, <2>2, <2>3, <2>4, <2>5, <2>6 DEF Tasks
  <1>2. ~Journal
    BY DEF Journal, Approve, Activate, CancelUnpaid, processVars
  <1>3. ~Requests
    BY DEF Requests, Begin, BeginResume, Join, Admit, RefuseAdmission, TurnAway, ResumeSession
  <1>4. ~(Restart \/ Restore \/ LiftGuard)
    BY <1>0 DEF Restart, Restore, LiftGuard, Initialize, processVars
  <1>5. ~Environment
    BY DEF Environment, LeaseLapses, ApprovalExpires, SessionExpires, Mine, Revert, Charge,
       processVars
  <1>6. ~UNCHANGED vars
    BY DEF vars, processVars
  <1> QED
    BY <1>1, <1>2, <1>3, <1>4, <1>5, <1>6 DEF Next

\* No second payment for an upload: whatever is retried, resumed or restarted, a
\* task enters ControlledSigner::pay only for an upload without transactions.
THEOREM NoSecondPayment == Spec => PaysOnce
  <1>1. IInv /\ [Next]_vars
          => [\A u \in Upload : signer # u /\ signer' = u => ~HasTx(u)]_vars
    BY LockTaken DEF IInv, Inv, HistoryInv
  <1> QED
    BY <1>1, BooksAgree, PTL DEF Spec, PaysOnce

-----------------------------------------------------------------------------

\* A lease is replaced only by the same job, at the same or a later generation.
LEMMA LeaseStep ==
  ASSUME TypeOK, OneJobPerApproval, [Next]_vars
  PROVE  OneJobPerApproval'
  <1>0. /\ lease \in [Approval -> LeaseRow] /\ uploads \in [Upload -> UploadRow]
        /\ ApprovalOf \in [Upload -> Approval] /\ \A k \in Key : k.generation \in Nat
    BY ConstantsAssumption DEF TypeOK
  <1>1. ASSUME UNCHANGED lease, \A u \in Upload : uploads'[u].key = uploads[u].key
        PROVE  OneJobPerApproval'
    BY <1>1 DEF OneJobPerApproval
  <1>2. ASSUME NEW a \in Approval, NEW k \in Key, Activate(a, k)
        PROVE  OneJobPerApproval'
    <2>1. /\ uploads' = uploads /\ lease'[a].key = k
          /\ \A b \in Approval \ {a} : lease'[b] = lease[b]
          /\ LeaseAccepted(a, k)
      BY <1>0, <1>2 DEF Activate
    <2>2. ASSUME NEW u \in Upload, uploads[u].key # None, ApprovalOf[u] = a
          PROVE  /\ k # None /\ k.job = uploads[u].key.job
                 /\ uploads[u].key.generation <= k.generation
      <3>1. /\ lease[a].key # None
            /\ lease[a].key.job = uploads[u].key.job
            /\ uploads[u].key.generation <= lease[a].key.generation
        BY <2>2 DEF OneJobPerApproval
      <3>2. /\ uploads[u].key \in Key /\ lease[a].key \in Key
        BY <1>0, <2>2, <3>1 DEF LeaseRow, UploadRow
      <3>3. /\ uploads[u].key.generation \in Nat /\ lease[a].key.generation \in Nat
            /\ k.generation \in Nat /\ k # None
        BY <1>0, <3>2, ConstantsAssumption
      <3> QED
        BY <2>1, <3>1, <3>3 DEF LeaseAccepted, HoldsLease
    <2> QED
      BY <1>0, <2>1, <2>2 DEF OneJobPerApproval
  <1>3. ASSUME NEW r \in Request, Admit(r)
        PROVE  OneJobPerApproval'
    <2> DEFINE u == req[r].upload
    <2>1. u \in Upload
      BY <1>3 DEF TypeOK, Req, IdleReq, Admit
    <2>2. /\ lease' = lease /\ uploads'[u].key = req[r].key
          /\ \A v \in Upload \ {u} : uploads'[v] = uploads[v]
          /\ lease[ApprovalOf[u]].key = req[r].key
      BY <1>0, <1>3, <2>1 DEF Admit, Admissible, HoldsLease
    <2>3. req[r].key # None => req[r].key.generation \in Nat
      BY <1>0, <2>1, <2>2 DEF LeaseRow
    <2> QED
      BY <2>1, <2>2, <2>3 DEF OneJobPerApproval
  <1>4. ASSUME NEW a \in Approval, LeaseLapses(a)
        PROVE  OneJobPerApproval'
    <2>1. uploads' = uploads /\ \A b \in Approval : lease'[b].key = lease[b].key
      BY <1>0, <1>4 DEF LeaseLapses, LeaseRow
    <2> QED
      BY <1>0, <2>1 DEF OneJobPerApproval
  <1>5. ASSUME NEW u \in Upload, Tasks(u)
        PROVE  UNCHANGED lease /\ \A v \in Upload : uploads'[v].key = uploads[v].key
    <2>1. CASE Finish(u) \/ FinishResumed(u)
      BY <1>0, <2>1 DEF Finish, FinishResumed, StoreFinish, UploadRow
    <2>2. ASSUME NEW n \in Nonce, NEW call \in Call, NEW allow, NEW storage, NEW gas,
                 Reserve(u, n, call, allow, storage, gas)
          PROVE  UNCHANGED lease /\ \A v \in Upload : uploads'[v].key = uploads[v].key
      BY <1>0, <2>2 DEF Reserve, UploadRow
    <2>3. ASSUME NEW n \in Nonce, NEW gas \in Gas, ReserveAllowance(u, n, gas)
          PROVE  UNCHANGED lease /\ \A v \in Upload : uploads'[v].key = uploads[v].key
      BY <2>2, <2>3 DEF ReserveAllowance, Call
    <2>4. ASSUME NEW n \in Nonce, NEW call \in Call, NEW storage \in Amount, NEW gas \in Gas,
                 ReservePayment(u, n, call, storage, gas)
          PROVE  UNCHANGED lease /\ \A v \in Upload : uploads'[v].key = uploads[v].key
      BY <2>2, <2>4 DEF ReservePayment
    <2> QED
      BY <1>5, <2>1, <2>3, <2>4 DEF Tasks, Prepared, PayStart, RecordSigned, Send,
         SendUncertain, Settle, PayDone, StoreComplete, StorePartial, Fail, FinishLost, Announce,
         journalVars
  <1>6. CASE Restart \/ Restore
    <2>1. UNCHANGED lease /\ \A u \in Upload : uploads'[u].key = uploads[u].key
      BY <1>0, <1>6 DEF Restart, Restore, Initialize, UploadRow
    <2> QED
      BY <1>1, <2>1
  <1>7. ASSUME UNCHANGED <<lease, uploads>>
        PROVE  OneJobPerApproval'
    BY <1>1, <1>7
  <1>8. CASE LiftGuard \/ UNCHANGED vars
    BY <1>7, <1>8 DEF LiftGuard, vars, journalVars
  <1>9. CASE Journal
    BY <1>2, <1>7, <1>9 DEF Journal, Approve, CancelUnpaid
  <1>10. CASE Requests
    BY <1>3, <1>7, <1>10 DEF Requests, Begin, BeginResume, Join, RefuseAdmission, TurnAway,
       ResumeSession, journalVars
  <1>11. CASE Environment
    BY <1>4, <1>7, <1>11 DEF Environment, ApprovalExpires, SessionExpires, Mine, Revert, Charge,
       journalVars
  <1> QED
    BY <1>1, <1>5, <1>6, <1>8, <1>9, <1>10, <1>11 DEF Next

\* activate and admit together bind an approval to one job: uploads of an older
\* generation may linger, never one of another job or of a later generation.
THEOREM OneJob == Spec => []OneJobPerApproval
  <1>1. Init => OneJobPerApproval
    BY DEF Init, OneJobPerApproval
  <1> QED
    BY <1>1, LeaseStep, TypeCorrect, PTL DEF Spec

-----------------------------------------------------------------------------
(* A completed upload has no task that could still change its row, and no  *)
(* retained session from which one could be started.                       *)

Quiet == {"idle", "announce"}
Active == {"preparing", "paying", "partial"}

LifeOf(u) ==
  /\ task[u].pc \notin Quiet =>
       \/ uploads[u].state \in Active
       \/ task[u].pc = "finish" /\ u \notin resumes
  /\ u \in resumes =>
       /\ uploads[u].state \in Active
       /\ task[u].pc \in Quiet \/ (task[u].pc = "finish" /\ task[u].outcome = "partial")

LifeInv == \A u \in Upload : LifeOf(u)

\* A step that concerns one upload only needs to be looked at for that upload.
LEMMA LocalStep ==
  ASSUME LifeInv, NEW u \in Upload, LifeOf(u)',
         \A v \in Upload \ {u} : /\ task'[v] = task[v] /\ uploads'[v] = uploads[v]
                                 /\ v \in resumes' => v \in resumes
  PROVE  LifeInv'
  BY DEF LifeInv, LifeOf

\* What a step of an upload's task does to that upload's row.
LEMMA TaskLife ==
  ASSUME TypeOK, LifeInv, NEW u \in Upload, Tasks(u)
  PROVE  /\ LifeInv'
         /\ \A v \in Upload : uploads[v].state = "complete" /\ task[v].pc # "finish"
                             => uploads'[v].state = "complete"
  <1>0. /\ task \in [Upload -> Task] /\ uploads \in [Upload -> UploadRow] /\ LifeOf(u)
    BY DEF TypeOK, LifeInv
  <1>1. ASSUME UNCHANGED <<uploads, resumes>>, u \notin resumes,
               task[u].pc \notin Quiet \cup {"finish"},
               \A v \in Upload \ {u} : task'[v] = task[v]
        PROVE  LifeInv'
    <2>1. LifeOf(u)'
      BY <1>0, <1>1 DEF LifeOf
    <2> QED
      BY <1>1, <2>1, LocalStep
  <1>2. task[u].pc \notin Quiet \cup {"finish"} => u \notin resumes
    BY <1>0 DEF LifeOf, Quiet
  <1>3. ASSUME NEW n \in Nonce, NEW call, NEW allow, NEW storage, NEW gas,
               task[u].pc \in {"allow", "batch"}, Reserve(u, n, call, allow, storage, gas)
        PROVE  /\ LifeInv' /\ uploads[u].state # "complete"
               /\ \A v \in Upload \ {u} : uploads'[v] = uploads[v]
    <2>1. /\ uploads'[u].state = "paying" /\ resumes' = resumes /\ u \notin resumes
          /\ \A v \in Upload \ {u} : task'[v] = task[v] /\ uploads'[v] = uploads[v]
      BY <1>0, <1>2, <1>3 DEF Reserve, UploadRow, Quiet
    <2>2. LifeOf(u)'
      BY <2>1 DEF LifeOf, Active
    <2> QED
      BY <1>0, <1>3, <2>1, <2>2, LocalStep DEF LifeOf, Quiet, Active
  <1>4. ASSUME NEW n \in Nonce, NEW gas \in Gas, ReserveAllowance(u, n, gas)
        PROVE  /\ LifeInv' /\ uploads[u].state # "complete"
               /\ \A v \in Upload \ {u} : uploads'[v] = uploads[v]
    BY <1>3, <1>4 DEF ReserveAllowance
  <1>5. ASSUME NEW n \in Nonce, NEW call \in Call, NEW storage \in Amount, NEW gas \in Gas,
               ReservePayment(u, n, call, storage, gas)
        PROVE  /\ LifeInv' /\ uploads[u].state # "complete"
               /\ \A v \in Upload \ {u} : uploads'[v] = uploads[v]
    BY <1>3, <1>5 DEF ReservePayment
  <1>6. CASE Finish(u) \/ FinishResumed(u)
    <2>1. /\ \A v \in Upload \ {u} : task'[v] = task[v] /\ uploads'[v] = uploads[v]
          /\ task'[u].pc = "announce" \/ (task'[u].pc = "finish" /\ task[u].pc = "resumed")
          /\ task[u].pc \in {"finish", "resumed"} /\ resumes' = resumes
      BY <1>0, <1>6 DEF Finish, FinishResumed, ResumeFails, Step, StoreFinish, Task
    <2>2. u \in resumes => uploads'[u].state = "partial"
      BY <1>0, <1>6 DEF LifeOf, Quiet, Finish, FinishResumed, StoreFinish, FinishState, UploadRow
    <2>3. LifeOf(u)' /\ (uploads[u].state = "complete" => task[u].pc = "finish")
      BY <1>0, <2>1, <2>2 DEF LifeOf, Quiet, Active
    <2> QED
      BY <2>1, <2>3, LocalStep
  <1>7. CASE FinishLost(u) \/ Announce(u)
    <2>1. /\ \A v \in Upload \ {u} : task'[v] = task[v]
          /\ UNCHANGED <<uploads, resumes>>
          /\ task'[u].pc \in Quiet \/ (task[u].pc = "resumed" /\ u \notin resumes)
      BY <1>0, <1>2, <1>7 DEF FinishLost, ResumeFails, Announce, Step, Task, IdleTask, Quiet, journalVars
    <2>2. LifeOf(u)'
      BY <1>0, <2>1 DEF LifeOf, Quiet
    <2> QED
      BY <2>1, <2>2, LocalStep
  <1>8. CASE StorePartial(u)
    <2>1. /\ \A v \in Upload \ {u} : /\ task'[v] = task[v]
                                     /\ v \in resumes' => v \in resumes
          /\ uploads' = uploads /\ task'[u].pc = "finish"
          /\ u \in resumes' => task'[u].outcome = "partial"
          /\ task[u].pc \in {"finalize", "resuming"}
      BY <1>0, <1>2, <1>8 DEF StorePartial, Leave, Quiet, IdleTask, journalVars
    <2>2. LifeOf(u)'
      BY <1>0, <2>1 DEF LifeOf, Quiet
    <2> QED
      BY <2>1, <2>2, LocalStep
  <1>9. CASE Prepared(u) \/ RecordSigned(u) \/ Send(u) \/ PayDone(u) \/ StoreComplete(u)
    <2>1. /\ UNCHANGED <<uploads, resumes>>
          /\ task[u].pc \notin Quiet \cup {"finish"}
          /\ \A v \in Upload \ {u} : task'[v] = task[v]
      BY <1>0, <1>9 DEF Prepared, RecordSigned, Send, PayDone, StoreComplete, Step, Leave,
         Quiet, journalVars
    <2> QED
      BY <1>1, <1>2, <2>1
  <1>10. CASE SendUncertain(u) \/ Settle(u)
    <2>1. /\ UNCHANGED <<uploads, resumes>>
          /\ task[u].pc \notin Quiet \cup {"finish"}
          /\ \A v \in Upload \ {u} : task'[v] = task[v]
      BY <1>0, <1>10 DEF SendUncertain, Settle, Leave, Quiet, journalVars
    <2> QED
      BY <1>1, <1>2, <2>1
  <1>11. ASSUME NEW upper \in Amount, PayStart(u, upper)
         PROVE  LifeInv' /\ uploads' = uploads
    <2>1. /\ UNCHANGED <<uploads, resumes>>
          /\ task[u].pc \notin Quiet \cup {"finish"}
          /\ \A v \in Upload \ {u} : task'[v] = task[v]
      BY <1>0, <1>11 DEF PayStart, Quiet, journalVars
    <2> QED
      BY <1>1, <1>2, <2>1
  <1>12. ASSUME NEW o \in Outcome, Fail(u, o)
         PROVE  LifeInv' /\ uploads' = uploads
    <2>1. /\ UNCHANGED <<uploads, resumes>>
          /\ task[u].pc \notin Quiet \cup {"finish"}
          /\ \A v \in Upload \ {u} : task'[v] = task[v]
      BY <1>0, <1>12 DEF Fail, Leave, Quiet, InSigner, journalVars
    <2> QED
      BY <1>1, <1>2, <2>1
  <1> QED
    BY <1>4, <1>5, <1>6, <1>7, <1>8, <1>9, <1>10, <1>11, <1>12
    DEF Tasks, Finish, FinishResumed, FinishLost, Announce, StorePartial, Prepared, RecordSigned,
        Send, PayDone, StoreComplete, SendUncertain, Settle, journalVars

\* Every other step: a completed row is not admitted, and a restart clears
\* tasks and sessions without touching it.
LEMMA LifeStep ==
  ASSUME TypeOK, LifeInv, [Next]_vars
  PROVE  /\ LifeInv'
         /\ \A u \in Upload : uploads[u].state = "complete" /\ task[u].pc # "finish"
                             => uploads'[u].state = "complete"
  <1>0. /\ task \in [Upload -> Task] /\ uploads \in [Upload -> UploadRow]
    BY DEF TypeOK
  <1>1. ASSUME UNCHANGED <<task, uploads>>, resumes' \subseteq resumes
        PROVE  LifeInv'
    BY <1>1 DEF LifeInv, LifeOf
  <1>2. ASSUME NEW r \in Request, Admit(r)
        PROVE  /\ LifeInv'
               /\ \A u \in Upload : uploads[u].state = "complete" /\ task[u].pc # "finish"
                             => uploads'[u].state = "complete"
    <2>1. PICK u \in Upload : u = req[r].upload
      BY <1>2 DEF TypeOK, Req, IdleReq, Admit
    <2>2. /\ uploads'[u].state = "preparing" /\ resumes' = resumes
          /\ uploads[u].state \in {"none", "retryable"}
          /\ \A v \in Upload \ {u} : task'[v] = task[v] /\ uploads'[v] = uploads[v]
      BY <1>0, <1>2, <2>1 DEF Admit, Admissible, Fresh
    <2>3. LifeOf(u)'
      BY <2>1, <2>2 DEF LifeInv, LifeOf, Active
    <2> QED
      BY <2>1, <2>2, <2>3, LocalStep
  <1>3. ASSUME NEW r \in Request, ResumeSession(r)
        PROVE  LifeInv' /\ uploads' = uploads
    <2>1. PICK u \in Upload : u = req[r].upload
      BY <1>3 DEF TypeOK, Req, IdleReq, ResumeSession
    <2>2. /\ uploads' = uploads /\ resumes' = resumes \ {u} /\ u \in resumes
          /\ \A v \in Upload \ {u} : task'[v] = task[v]
      BY <1>0, <1>3, <2>1 DEF ResumeSession, journalVars
    <2>3. LifeOf(u)'
      BY <2>1, <2>2 DEF LifeInv, LifeOf
    <2> QED
      BY <2>1, <2>2, <2>3, LocalStep
  <1>4. CASE Requests
    BY <1>1, <1>2, <1>3, <1>4 DEF Requests, Begin, BeginResume, Join, RefuseAdmission, TurnAway,
       journalVars
  <1>5. CASE Restart \/ Restore
    <2>1. /\ \A u \in Upload : task'[u].pc = "idle" /\ uploads'[u].state = RestartedUpload(u)
          /\ resumes' = {}
      BY <1>0, <1>5 DEF Restart, Restore, Initialize, IdleTask, UploadRow
    <2> QED
      BY <2>1 DEF LifeInv, LifeOf, Quiet, RestartedUpload
  <1>6. CASE Journal \/ LiftGuard \/ Environment \/ UNCHANGED vars
    <2>1. UNCHANGED <<task, uploads>> /\ resumes' \subseteq resumes
      BY <1>6 DEF Journal, Approve, Activate, CancelUnpaid, LiftGuard, Environment, LeaseLapses,
         ApprovalExpires, SessionExpires, Mine, Revert, Charge, vars, journalVars, processVars
    <2> QED
      BY <1>1, <2>1
  <1> QED
    BY <1>4, <1>5, <1>6, TaskLife DEF Next

\* A journalled result survives every later task, retry and restart.
THEOREM CompletionFinal == Spec => CompleteIsFinal
  <1>1. Init => LifeInv
    BY DEF Init, LifeInv, LifeOf, IdleTask, Quiet
  <1>2. TypeOK /\ LifeInv /\ [Next]_vars =>
          /\ LifeInv'
          /\ [\A u \in Upload : uploads[u].state = "complete" /\ task[u].pc # "finish"
                                => uploads'[u].state = "complete"]_vars
    BY LifeStep
  <1> QED
    BY <1>1, <1>2, TypeCorrect, PTL DEF Spec, CompleteIsFinal

-----------------------------------------------------------------------------
(* The operator's view.                                                    *)

view == <<approval, definition, spent>>

\* A step that leaves approvals, definitions and charges alone is a stutter of the
\* operator's view.
LEMMA ViewUnchanged ==
  ASSUME UNCHANGED view
  PROVE  UNCHANGED Authority!vars
  BY DEF view, Authority!vars, Phase

\* Pausing a set of known approvals is the operator's Close.
LEMMA PauseIsClose ==
  ASSUME TypeOK, NEW A \in SUBSET Approval, UNCHANGED <<definition, spent>>,
         \A a \in A : approval[a] # "none" /\ approval'[a] = "paused",
         \A a \in Approval \ A : approval'[a] = approval[a]
  PROVE  Authority!Next
  <1>1. \A a \in A : Phase(a) # "none" /\ Phase(a)' = "closed"
    BY DEF Phase, TypeOK, ApprovalState
  <1>2. \A a \in Approval \ A : Phase(a)' = Phase(a)
    BY DEF Phase
  <1>3. Authority!Close(A)
    BY <1>1, <1>2 DEF Authority!Close
  <1> QED
    BY <1>3 DEF Authority!Next

\* A charge by the chain is the operator's Charge: the state after it is within
\* budget, and the approval was neither absent nor cancelled.
LEMMA ChargeIsCharge ==
  ASSUME IInv, IInv', NEW n \in Nonce, NEW status, NEW storage \in Nat, NEW gas \in Nat,
         Charge(n, status, storage, gas)
  PROVE  Authority!Next
  <1> DEFINE a == ApprovalOf[txs[n].upload]
  <1>1. /\ txs[n].state \in {"signed", "settled"} /\ txs[n].upload \in Upload
        /\ definition[a] # None /\ a \in Approval
    BY ConstantsAssumption DEF Charge, IInv, Inv, TxInv
  <1>2. HasApprovalTx(a)
    BY <1>1 DEF HasApprovalTx
  <1>3. approval[a] \in {"open", "paused"}
    BY <1>1, <1>2 DEF IInv, TypeOK, ApprovalState, Inv, HistoryInv, DefinitionInv
  <1>4. Phase(a) \in {"open", "closed"}
    BY <1>3 DEF Phase
  <1>5. /\ spent[a].storage \in Nat /\ spent[a].gas \in Nat /\ spent \in [Approval -> Cost]
        /\ definition[a].storage \in Nat /\ definition[a].gas \in Nat
    <2>1. definition[a] \in [storage: Nat, gas: Nat, contents: SUBSET Upload]
      BY <1>1, ConstantsAssumption DEF IInv, TypeOK
    <2> QED
      BY <1>1, <2>1 DEF IInv, TypeOK, Cost
  <1> DEFINE s == spent[a].storage + storage
             g == spent[a].gas + gas
  <1>6. /\ spent' = [spent EXCEPT ![a] = [storage |-> s, gas |-> g]]
        /\ approval' = approval /\ definition' = definition /\ txs' = txs
    BY DEF Charge, journalVars
  <1>7. spent'[a].storage = s /\ spent'[a].gas = g
    BY <1>1, <1>5, <1>6
  <1>8. BudgetRespected'
    BY BudgetState, PTL
  <1>9. s <= definition[a].storage /\ g <= definition[a].gas
    BY <1>1, <1>6, <1>7, <1>8 DEF BudgetRespected
  <1>10. /\ s \in 0..definition[a].storage /\ g \in 0..definition[a].gas
         /\ s >= spent[a].storage /\ g >= spent[a].gas
    BY <1>5, <1>9
  <1>11. [b \in Approval |-> Phase(b)]' = [b \in Approval |-> Phase(b)]
    BY <1>6 DEF Phase
  <1>12. Authority!Charge(a)
    BY <1>1, <1>4, <1>6, <1>10, <1>11 DEF Authority!Charge
  <1> QED
    BY <1>1, <1>12 DEF Authority!Next

\* finish and initialize pause only approvals the operator has granted.
LEMMA FinishIsClose ==
  ASSUME IInv, NEW u \in Upload, NEW o, StoreFinish(u, o), UNCHANGED <<definition, spent>>
  PROVE  [Authority!Next]_Authority!vars
  <1>1. CASE approval' = approval
    BY <1>1, ViewUnchanged DEF view
  <1>2. CASE approval' # approval
    <2>1. HasTx(u) /\ approval' = [approval EXCEPT ![ApprovalOf[u]] = "paused"]
      BY <1>2 DEF StoreFinish, FinishState
    <2>2. definition[ApprovalOf[u]] # None /\ ApprovalOf[u] \in Approval
      BY <2>1, ConstantsAssumption DEF HasTx, IInv, Inv, TxInv
    <2>3. approval[ApprovalOf[u]] # "none"
      BY <2>2 DEF IInv, Inv, DefinitionInv
    <2>4. /\ TypeOK /\ approval'[ApprovalOf[u]] = "paused"
          /\ \A b \in Approval \ {ApprovalOf[u]} : approval'[b] = approval[b]
      BY <2>1, <2>2 DEF IInv, TypeOK
    <2> DEFINE A == {ApprovalOf[u]}
    <2>5. /\ A \in SUBSET Approval
          /\ \A a \in A : approval[a] # "none" /\ approval'[a] = "paused"
          /\ \A a \in Approval \ A : approval'[a] = approval[a]
      BY <2>2, <2>3, <2>4
    <2> HIDE DEF A
    <2> QED
      BY <2>4, <2>5, PauseIsClose
  <1> QED
    BY <1>1, <1>2

\* What a restart or a restore pauses is a Close of the operator's view.
LEMMA InitializeIsClose ==
  ASSUME IInv, IInv', NEW before, Initialize(before),
         \A a \in Approval : before[a] \in {approval[a], "paused"}
  PROVE  Authority!Next
  <1> DEFINE A == {a \in Approval : approval'[a] = "paused"}
  <1>1. definition' = definition /\ spent' = spent
    BY DEF Initialize, chainVars
  <1>2. \A a \in A : approval[a] # "none" /\ approval'[a] = "paused"
    BY <1>1 DEF IInv, Inv, DefinitionInv
  <1>3. \A a \in Approval \ A : approval'[a] = approval[a]
    BY DEF Initialize
  <1> HIDE DEF A
  <1>4. A \in SUBSET Approval /\ TypeOK
    BY DEF A, IInv
  <1> QED
    BY <1>1, <1>2, <1>3, <1>4, PauseIsClose

\* Every step of the gateway is a step or a stutter of the operator's view.
LEMMA ViewStep ==
  ASSUME IInv, IInv', [Next]_vars
  PROVE  [Authority!Next]_Authority!vars
  <1>1. CASE Journal
    <2>1. ASSUME NEW a \in Approval, NEW d \in Definition, Approve(a, d)
          PROVE  Authority!Next
      <3>1. /\ Phase(a) = "none" /\ Phase(a)' = "open"
            /\ \A b \in Approval \ {a} : Phase(b)' = Phase(b)
        BY <2>1 DEF Approve, Phase, IInv, TypeOK
      <3>2. Authority!Grant(a, d)
        BY <2>1, <3>1 DEF Approve, chainVars, Authority!Grant
      <3> QED
        BY <3>2 DEF Authority!Next
    <2>2. ASSUME NEW a \in Approval, NEW k \in Key, CancelUnpaid(a, k)
          PROVE  Authority!Next
      <3>1. spent[a] = NoCost
        BY <2>2 DEF CancelUnpaid, IInv, Inv, LedgerInv, HasApprovalTx, Unresolved
      <3>2. /\ Phase(a) # "none" /\ Phase(a)' = "cancelled"
            /\ \A b \in Approval \ {a} : Phase(b)' = Phase(b)
        BY <2>2 DEF CancelUnpaid, Phase, IInv, TypeOK, ApprovalState
      <3>3. Authority!Cancel(a)
        BY <2>2, <3>1, <3>2 DEF CancelUnpaid, chainVars, NoCost, Authority!Cancel
      <3> QED
        BY <3>3 DEF Authority!Next
    <2>3. ASSUME NEW a \in Approval, NEW k \in Key, Activate(a, k)
          PROVE  UNCHANGED view
      BY <2>3 DEF Activate, view, chainVars
    <2> QED
      BY <1>1, <2>1, <2>2, <2>3, ViewUnchanged DEF Journal
  <1>2. ASSUME NEW u \in Upload, Tasks(u)
        PROVE  [Authority!Next]_Authority!vars
    <2>1. CASE Finish(u) \/ FinishResumed(u)
      BY <2>1, FinishIsClose DEF Finish, FinishResumed, chainVars
    <2>2. ASSUME ~Finish(u), ~FinishResumed(u)
          PROVE  UNCHANGED view
      <3>1. ASSUME NEW n \in Nonce, NEW gas \in Gas, ReserveAllowance(u, n, gas)
            PROVE  UNCHANGED view
        BY <3>1 DEF ReserveAllowance, Reserve, view, chainVars
      <3>2. ASSUME NEW n \in Nonce, NEW call \in Call, NEW storage \in Amount, NEW gas \in Gas,
                   ReservePayment(u, n, call, storage, gas)
            PROVE  UNCHANGED view
        BY <3>2 DEF ReservePayment, Reserve, view, chainVars
      <3> QED
        BY <1>2, <2>2, <3>1, <3>2 DEF Tasks, Prepared, PayStart, RecordSigned, Send,
           SendUncertain, Settle, PayDone, StoreComplete, StorePartial, Fail, FinishLost,
           Announce, journalVars, chainVars, view
    <2> QED
      BY <2>1, <2>2, ViewUnchanged
  <1>3. CASE Restart
    <2>1. \A a \in Approval : approval[a] \in {approval[a], "paused"}
      OBVIOUS
    <2> QED
      BY <1>3, <2>1, InitializeIsClose DEF Restart
  <1>4. CASE Restore
    <2> DEFINE before == [a \in Approval |-> IF approval[a] = "none" THEN "none" ELSE "paused"]
    <2>1. /\ \A a \in Approval : before[a] \in {approval[a], "paused"}
          /\ Initialize(before)
      BY <1>4 DEF Restore
    <2> HIDE DEF before
    <2> QED
      BY <2>1, InitializeIsClose
  <1>5. CASE Environment
    <2>1. ASSUME NEW n \in Nonce, NEW storage \in Amount, NEW gas \in Gas \cup {0},
                 Mine(n, storage, gas) \/ Revert(n, gas)
          PROVE  Authority!Next
      <3>1. storage \in Nat /\ gas \in Nat /\ 0 \in Nat
        BY ConstantsAssumption
      <3> QED
        BY <2>1, <3>1, ChargeIsCharge DEF Mine, Revert
    <2>2. ASSUME NEW n \in Nonce, NEW gas \in Gas \cup {0}, Revert(n, gas)
          PROVE  Authority!Next
      <3>1. gas \in Nat /\ 0 \in Nat
        BY ConstantsAssumption
      <3> QED
        BY <2>2, <3>1, ChargeIsCharge DEF Revert
    <2> QED
      BY <1>5, <2>1, <2>2, ViewUnchanged DEF Environment, LeaseLapses, ApprovalExpires,
         SessionExpires, journalVars, chainVars, view
  <1>6. CASE Requests \/ LiftGuard \/ UNCHANGED vars
    <2>1. UNCHANGED view
      BY <1>6 DEF Requests, Begin, BeginResume, Join, Admit, RefuseAdmission, TurnAway,
         ResumeSession, LiftGuard, vars, journalVars, chainVars, view
    <2> QED
      BY <2>1, ViewUnchanged
  <1> QED
    BY <1>1, <1>2, <1>3, <1>4, <1>5, <1>6 DEF Next

\* Journal, tasks, signer and chain together implement the operator's view: an
\* approval is granted once, charged within its budget, closed, and cancelled
\* only while uncharged.
THEOREM GatewayImplementsAuthority == Spec => ImplementsAuthority
  <1>1. Init => Authority!Init
    BY DEF Init, Authority!Init, Phase, NoCost
  <1>2. IInv /\ IInv' /\ [Next]_vars => [Authority!Next]_Authority!vars
    BY ViewStep
  <1> QED
    BY <1>1, <1>2, BooksAgree, PTL DEF Spec, ImplementsAuthority, Authority!Spec

-----------------------------------------------------------------------------
(* The admin service's view.                                               *)

seen == [a \in Approval |-> Seen(a)]

\* A live lease has a key.
LiveIsLeased == \A a \in Approval : lease[a].live => lease[a].key # None

\* Leases become live only with the key they are taken for.
LEMMA LiveStep ==
  ASSUME TypeOK, LiveIsLeased, [Next]_vars
  PROVE  LiveIsLeased'
  <1>1. CASE UNCHANGED lease
    BY <1>1 DEF LiveIsLeased
  <1>2. ASSUME NEW a \in Approval, NEW k \in Key, Activate(a, k)
        PROVE  LiveIsLeased'
    BY <1>2, ConstantsAssumption DEF Activate, LiveIsLeased, TypeOK
  <1>3. ASSUME NEW a \in Approval, LeaseLapses(a)
        PROVE  LiveIsLeased'
    BY <1>3 DEF LeaseLapses, LiveIsLeased, TypeOK, LeaseRow
  <1>4. ASSUME NEW u \in Upload, Tasks(u)
        PROVE  UNCHANGED lease
    BY <1>4 DEF Tasks, Prepared, PayStart, ReserveAllowance, ReservePayment, Reserve,
       RecordSigned, Send, SendUncertain, Settle, PayDone, StoreComplete, StorePartial, Fail,
       Finish, FinishResumed, FinishLost, Announce, journalVars
  <1>5. ASSUME Journal, ~UNCHANGED lease
        PROVE  LiveIsLeased'
    BY <1>2, <1>5 DEF Journal, Approve, CancelUnpaid
  <1>6. ASSUME Environment, ~UNCHANGED lease
        PROVE  LiveIsLeased'
    BY <1>3, <1>6 DEF Environment, ApprovalExpires, SessionExpires, Mine, Revert, Charge,
       journalVars
  <1>7. CASE Requests
    BY <1>1, <1>7 DEF Requests, Begin, BeginResume, Join, Admit, RefuseAdmission, TurnAway,
       ResumeSession, journalVars
  <1>8. CASE Restart \/ Restore \/ LiftGuard \/ UNCHANGED vars
    BY <1>1, <1>8 DEF Restart, Restore, Initialize, LiftGuard, vars, journalVars
  <1> QED
    BY <1>1, <1>4, <1>5, <1>6, <1>7, <1>8 DEF Next

\* What the view rests on: the books, the one job of an approval and its live leases.
ClientInv == IInv /\ OneJobPerApproval /\ LiveIsLeased

\* Every reachable state satisfies what the view rests on.
LEMMA ClientInvHolds == Spec => []ClientInv
  <1>1. Init => LiveIsLeased
    BY DEF Init, LiveIsLeased
  <1>2. Spec => []LiveIsLeased
    BY <1>1, LiveStep, TypeCorrect, PTL DEF Spec
  <1>3. IInv /\ OneJobPerApproval /\ LiveIsLeased => ClientInv
    BY DEF ClientInv
  <1> QED
    BY <1>2, <1>3, BooksAgree, OneJob, PTL

\* A row of the view with its fields.
IsRow(r) ==
  r = [phase |-> r.phase, job |-> r.job, gen |-> r.gen, live |-> r.live,
       admitted |-> r.admitted, paid |-> r.paid, expired |-> r.expired]

\* What is seen of an approval, before and after a step, is such a row.
LEMMA SeenIsRow ==
  ASSUME NEW a
  PROVE  IsRow(Seen(a)) /\ IsRow(Seen(a)')
  BY DEF Seen, IsRow

\* The fields of what is seen of an approval.
LEMMA SeenFields ==
  ASSUME NEW a
  PROVE  /\ Seen(a).phase = (IF approval[a] = "cancelled_unpaid" THEN "cancelled"
                             ELSE approval[a])
         /\ Seen(a).job = (IF lease[a].key = None THEN None ELSE lease[a].key.job)
         /\ Seen(a).gen = (IF lease[a].key = None THEN 0 ELSE lease[a].key.generation)
         /\ Seen(a).live = lease[a].live
         /\ Seen(a).admitted = AdmittedNow(a)
         /\ Seen(a).paid = HasApprovalTx(a)
         /\ Seen(a).expired = expired[a]
  BY DEF Seen

\* The same fields after a step.
LEMMA SeenFieldsNext ==
  ASSUME NEW a
  PROVE  /\ Seen(a)'.phase = (IF approval'[a] = "cancelled_unpaid" THEN "cancelled"
                              ELSE approval'[a])
         /\ Seen(a)'.job = (IF lease'[a].key = None THEN None ELSE lease'[a].key.job)
         /\ Seen(a)'.gen = (IF lease'[a].key = None THEN 0 ELSE lease'[a].key.generation)
         /\ Seen(a)'.live = lease'[a].live
         /\ Seen(a)'.admitted = AdmittedNow(a)'
         /\ Seen(a)'.paid = HasApprovalTx(a)'
         /\ Seen(a)'.expired = expired'[a]
  BY DEF Seen

\* The fields that two rows have in common.
SameLease(r, s) == s.job = r.job /\ s.gen = r.gen /\ s.live = r.live
SamePaid(r, s) == s.paid = r.paid /\ s.expired = r.expired

\* Two rows that differ in some fields.
LEMMA RowsDiffer ==
  ASSUME NEW r, NEW s, IsRow(r), IsRow(s)
  PROVE  /\ SameLease(r, s) /\ SamePaid(r, s) /\ s.admitted = r.admitted
            => s = [r EXCEPT !.phase = s.phase]
         /\ s.phase = r.phase /\ SameLease(r, s) /\ SamePaid(r, s)
            => s = [r EXCEPT !.admitted = s.admitted]
         /\ s.phase = r.phase /\ SameLease(r, s) /\ s.admitted = r.admitted
            => /\ s.expired = r.expired => s = [r EXCEPT !.paid = s.paid]
               /\ s.paid = r.paid => s = [r EXCEPT !.expired = s.expired]
         /\ s.phase = r.phase /\ SamePaid(r, s)
            => /\ s = [r EXCEPT !.job = s.job, !.gen = s.gen, !.live = s.live,
                                !.admitted = s.admitted]
               /\ s.job = r.job /\ s.gen = r.gen /\ s.admitted = r.admitted
                  => s = [r EXCEPT !.live = s.live]
  BY DEF IsRow, SameLease, SamePaid

\* An approval looks the same as long as its state, its lease and its age do, the keys
\* its uploads were admitted under, and whether it has a transaction.
LEMMA SeenUnchanged ==
  ASSUME NEW a \in Approval, approval'[a] = approval[a], lease'[a] = lease[a],
         expired'[a] = expired[a],
         \A u \in Upload : ApprovalOf[u] = a => uploads'[u].key = uploads[u].key,
         HasApprovalTx(a)' = HasApprovalTx(a)
  PROVE  Seen(a)' = Seen(a)
  <1>1. AdmittedNow(a)' = AdmittedNow(a)
    BY DEF AdmittedNow
  <1> QED
    BY <1>1 DEF Seen

\* If only its state changes, only the phase of its row does.
LEMMA PhaseChanged ==
  ASSUME NEW a \in Approval, lease'[a] = lease[a], expired'[a] = expired[a],
         \A u \in Upload : ApprovalOf[u] = a => uploads'[u].key = uploads[u].key,
         HasApprovalTx(a)' = HasApprovalTx(a)
  PROVE  Seen(a)' = [Seen(a) EXCEPT !.phase = IF approval'[a] = "cancelled_unpaid"
                                              THEN "cancelled" ELSE approval'[a]]
  <1>1. /\ SameLease(Seen(a), Seen(a)') /\ SamePaid(Seen(a), Seen(a)')
        /\ Seen(a)'.admitted = Seen(a).admitted
    <2>1. AdmittedNow(a)' = AdmittedNow(a)
      BY DEF AdmittedNow
    <2> QED
      BY <2>1, SeenFields, SeenFieldsNext DEF SameLease, SamePaid
  <1>2. Seen(a)' = [Seen(a) EXCEPT !.phase = Seen(a)'.phase]
    BY <1>1, SeenIsRow, RowsDiffer
  <1> QED
    BY <1>2, SeenFieldsNext

\* One approval does a step of the view, the others look the same.
LEMMA ClientStepIs ==
  ASSUME NEW a \in Approval,
         Client!Asked(Seen(a), Seen(a)') \/ Client!Unasked(Seen(a), Seen(a)'),
         \A b \in Approval \ {a} : Seen(b)' = Seen(b)
  PROVE  Client!Next
  <1>1. Client!Step(a)
    BY DEF Client!Step
  <1> QED
    BY <1>1 DEF Client!Next

\* A step that changes none of that is a stutter of the view.
LEMMA ClientQuiet ==
  ASSUME UNCHANGED <<approval, lease, expired>>,
         \A u \in Upload : uploads'[u].key = uploads[u].key,
         \A a \in Approval : HasApprovalTx(a)' = HasApprovalTx(a)
  PROVE  seen' = seen
  <1>1. \A a \in Approval : Seen(a)' = Seen(a)
    BY SeenUnchanged
  <1> QED
    BY <1>1 DEF seen

\* approve is Granted.
LEMMA ApproveSeen ==
  ASSUME ClientInv, NEW a \in Approval, NEW d \in Definition, Approve(a, d)
  PROVE  Client!Next
  <1>1. /\ approval[a] = "none" /\ approval'[a] = "open" /\ ~expired[a]
        /\ \A b \in Approval \ {a} : approval'[b] = approval[b]
        /\ UNCHANGED <<lease, uploads, txs, expired>>
    BY DEF Approve, Validate, ClientInv, IInv, TypeOK
  <1>2. \A b \in Approval : HasApprovalTx(b)' = HasApprovalTx(b)
    BY <1>1 DEF HasApprovalTx
  <1>3. Client!Granted(Seen(a), Seen(a)')
    <2>1. Seen(a)' = [Seen(a) EXCEPT !.phase = "open"]
      BY <1>1, <1>2, PhaseChanged
    <2> QED
      BY <1>1, <2>1, SeenFields DEF Client!Granted
  <1>4. \A b \in Approval \ {a} : Seen(b)' = Seen(b)
    BY <1>1, <1>2, SeenUnchanged
  <1> QED
    BY <1>3, <1>4, ClientStepIs DEF Client!Asked

\* activate is Leased: nothing has been admitted under a generation that is new.
LEMMA ActivateSeen ==
  ASSUME ClientInv, NEW a \in Approval, NEW k \in Key, Activate(a, k)
  PROVE  Client!Next
  <1>1. /\ approval[a] # "none" /\ LeaseAccepted(a, k)
        /\ lease'[a] = [key |-> k, live |-> TRUE]
        /\ \A b \in Approval \ {a} : lease'[b] = lease[b]
        /\ UNCHANGED <<approval, uploads, txs, expired>>
    BY DEF Activate, ClientInv, IInv, TypeOK
  <1>2. \A b \in Approval : HasApprovalTx(b)' = HasApprovalTx(b)
    BY <1>1 DEF HasApprovalTx
  <1>3. k # None /\ k.generation \in Nat \ {0}
    BY ConstantsAssumption
  <1> DEFINE key == lease[a].key
             used(x) == \E u \in Upload : ApprovalOf[u] = a /\ uploads[u].key = x
  <1>4. key # None => key \in Key /\ key.generation \in Nat \ {0}
    BY ConstantsAssumption DEF ClientInv, IInv, TypeOK, LeaseRow
  <1>5. key = None \/ key.generation < k.generation => ~used(k)
    BY <1>3, <1>4 DEF ClientInv, OneJobPerApproval
  <1>6. /\ Seen(a)'.phase = Seen(a).phase /\ Seen(a)'.expired = Seen(a).expired
        /\ Seen(a)'.paid = Seen(a).paid /\ Seen(a)'.job = k.job
        /\ Seen(a)'.gen = k.generation /\ Seen(a)'.live = TRUE
        /\ Seen(a)'.admitted = used(k)
    <2>1. AdmittedNow(a)' = used(k)
      BY <1>1, <1>3 DEF AdmittedNow
    <2> HIDE DEF used
    <2> QED
      BY <1>1, <1>2, <1>3, <2>1, SeenFields, SeenFieldsNext
  <1>7. /\ Seen(a).job = (IF key = None THEN None ELSE key.job)
        /\ Seen(a).gen = (IF key = None THEN 0 ELSE key.generation)
        /\ Seen(a).live = lease[a].live /\ Seen(a).admitted = (key # None /\ used(key))
        /\ Seen(a).phase # "none"
    <2>1. AdmittedNow(a) = (key # None /\ used(key))
      BY DEF AdmittedNow
    <2> HIDE DEF used
    <2> QED
      BY <1>1, <2>1, SeenFields
  <1>8. used(k) = (Seen(a).admitted /\ Seen(a).gen = k.generation)
    <2>1. CASE key = k
      BY <1>3, <1>7, <2>1
    <2>2. CASE key = None
      BY <1>3, <1>5, <1>7, <2>2
    <2>3. CASE key # None /\ key.generation < k.generation
      <3> HIDE DEF used
      <3>1. ~used(k) /\ Seen(a).gen # k.generation
        BY <1>3, <1>4, <1>5, <1>7, <2>3
      <3>2. used(k) \in BOOLEAN
        BY DEF used
      <3> QED
        BY <3>1, <3>2
    <2> HIDE DEF used
    <2> QED
      BY <1>1, <2>1, <2>2, <2>3 DEF LeaseAccepted, HoldsLease
  <1>9. \/ Seen(a).job = None
        \/ /\ Seen(a).job = k.job
           /\ \/ Seen(a).gen < k.generation
              \/ Seen(a).gen = k.generation /\ Seen(a).live
    BY <1>1, <1>7 DEF LeaseAccepted, HoldsLease
  <1>10. Seen(a)' = [Seen(a) EXCEPT !.job = k.job, !.gen = k.generation, !.live = TRUE,
                                    !.admitted = @ /\ Seen(a).gen = k.generation]
    <2> HIDE DEF used
    <2>1. /\ Seen(a)'.phase = Seen(a).phase /\ SamePaid(Seen(a), Seen(a)')
          /\ Seen(a)'.admitted = (Seen(a).admitted /\ Seen(a).gen = k.generation)
      BY <1>6, <1>8 DEF SamePaid
    <2>2. Seen(a)' = [Seen(a) EXCEPT !.job = Seen(a)'.job, !.gen = Seen(a)'.gen,
                                     !.live = Seen(a)'.live, !.admitted = Seen(a)'.admitted]
      BY <2>1, SeenIsRow, RowsDiffer
    <2> QED
      BY <1>6, <2>1, <2>2
  <1>11. Client!Leased(Seen(a), Seen(a)')
    BY <1>6, <1>7, <1>9, <1>10 DEF Client!Leased
  <1>12. \A b \in Approval \ {a} : Seen(b)' = Seen(b)
    BY <1>1, <1>2, SeenUnchanged
  <1> QED
    BY <1>11, <1>12, ClientStepIs DEF Client!Asked

\* cancel_unpaid is Cancelled.
LEMMA CancelSeen ==
  ASSUME ClientInv, NEW a \in Approval, NEW k \in Key, CancelUnpaid(a, k)
  PROVE  Client!Next
  <1>1. /\ approval[a] # "none" /\ approval'[a] = "cancelled_unpaid"
        /\ lease[a].live /\ ~HasApprovalTx(a)
        /\ \A b \in Approval \ {a} : approval'[b] = approval[b]
        /\ UNCHANGED <<lease, uploads, txs, expired>>
    BY DEF CancelUnpaid, HoldsLease, ClientInv, IInv, TypeOK
  <1>2. \A b \in Approval : HasApprovalTx(b)' = HasApprovalTx(b)
    BY <1>1 DEF HasApprovalTx
  <1>3. Seen(a).phase # "none" /\ Seen(a).live /\ ~Seen(a).paid
    BY <1>1, SeenFields
  <1>4. Client!Cancelled(Seen(a), Seen(a)')
    <2>1. Seen(a)' = [Seen(a) EXCEPT !.phase = "cancelled"]
      BY <1>1, <1>2, PhaseChanged
    <2> QED
      BY <1>3, <2>1 DEF Client!Cancelled
  <1>5. \A b \in Approval \ {a} : Seen(b)' = Seen(b)
    BY <1>1, <1>2, SeenUnchanged
  <1> QED
    BY <1>4, <1>5, ClientStepIs DEF Client!Asked

\* admit is Admitted.
LEMMA AdmitSeen ==
  ASSUME ClientInv, NEW r \in Request, Admit(r)
  PROVE  Client!Next
  <1>1. PICK u \in Upload : u = req[r].upload
    <2>1. req[r] \in Req /\ req[r].pc = "checked"
      BY DEF ClientInv, IInv, TypeOK, Admit
    <2> QED
      BY <2>1 DEF Req, IdleReq
  <1>2. PICK a \in Approval : a = ApprovalOf[u]
    BY ConstantsAssumption
  <1>3. /\ approval[a] = "open" /\ ~expired[a] /\ lease[a].live /\ lease[a].key = req[r].key
        /\ uploads'[u].key = lease[a].key
        /\ \A v \in Upload \ {u} : uploads'[v] = uploads[v]
        /\ UNCHANGED <<approval, lease, txs, expired>>
    BY <1>1, <1>2 DEF Admit, Admissible, RequireOpenApproval, Validate, HoldsLease, ClientInv,
       IInv, TypeOK
  <1>4. \A b \in Approval : HasApprovalTx(b)' = HasApprovalTx(b)
    BY <1>3 DEF HasApprovalTx
  <1>5. lease[a].key # None
    BY <1>3 DEF ClientInv, LiveIsLeased
  <1>6. Client!Admitted(Seen(a), Seen(a)')
    <2>1. Client!Working(Seen(a))
      BY <1>3, SeenFields DEF Client!Working
    <2>2. Seen(a)'.admitted = TRUE
      <3>1. AdmittedNow(a)'
        BY <1>2, <1>3, <1>5 DEF AdmittedNow
      <3> QED
        BY <3>1, SeenFieldsNext DEF AdmittedNow
    <2>3. Seen(a)'.phase = Seen(a).phase /\ SameLease(Seen(a), Seen(a)')
          /\ SamePaid(Seen(a), Seen(a)')
      BY <1>3, <1>4, SeenFields, SeenFieldsNext DEF SameLease, SamePaid
    <2>4. Seen(a)' = [Seen(a) EXCEPT !.admitted = TRUE]
      BY <2>2, <2>3, SeenIsRow, RowsDiffer
    <2> QED
      BY <2>1, <2>4 DEF Client!Admitted
  <1>7. \A b \in Approval \ {a} : Seen(b)' = Seen(b)
    <2> TAKE b \in Approval \ {a}
    <2>1. \A v \in Upload : ApprovalOf[v] = b => uploads'[v].key = uploads[v].key
      BY <1>2, <1>3
    <2> QED
      BY <1>3, <1>4, <2>1, SeenUnchanged
  <1> QED
    BY <1>6, <1>7, ClientStepIs DEF Client!Asked

\* reserve is Paid: its upload was admitted under the lease that is current.
LEMMA ReserveSeen ==
  ASSUME ClientInv, NEW u \in Upload, NEW n \in Nonce, NEW call, NEW allow, NEW storage,
         NEW gas, Reserve(u, n, call, allow, storage, gas)
  PROVE  Client!Next
  <1> DEFINE a == ApprovalOf[u]
  <1>1. a \in Approval
    BY ConstantsAssumption
  <1>2. /\ approval[a] = "open" /\ ~expired[a] /\ lease[a].live
        /\ lease[a].key = uploads[u].key
        /\ \A v \in Upload : uploads'[v].key = uploads[v].key
        /\ txs[n].state = "none" /\ txs'[n].state = "reserved" /\ txs'[n].upload = u
        /\ \A m \in Nonce \ {n} : txs'[m] = txs[m]
        /\ UNCHANGED <<approval, lease, expired>>
    BY <1>1 DEF Reserve, ValidateExecution, HoldsLease, Validate, RequireOpenApproval,
       ClientInv, IInv, TypeOK, UploadRow
  <1>3. HasApprovalTx(a)'
    BY <1>2 DEF HasApprovalTx
  <1>4. \A b \in Approval \ {a} : HasApprovalTx(b)' = HasApprovalTx(b)
    BY <1>2 DEF HasApprovalTx
  <1>5. lease[a].key # None
    BY <1>1, <1>2 DEF ClientInv, LiveIsLeased
  <1>6. Client!Paid(Seen(a), Seen(a)')
    <2>1. Client!Working(Seen(a)) /\ Seen(a).admitted
      <3>1. AdmittedNow(a) = TRUE
        BY <1>2, <1>5 DEF AdmittedNow
      <3> QED
        BY <1>2, <3>1, SeenFields DEF Client!Working
    <2>2. /\ Seen(a)'.phase = Seen(a).phase /\ SameLease(Seen(a), Seen(a)')
          /\ Seen(a)'.admitted = Seen(a).admitted /\ Seen(a)'.expired = Seen(a).expired
      <3>1. AdmittedNow(a)' = AdmittedNow(a)
        BY <1>2 DEF AdmittedNow
      <3> QED
        BY <1>2, <3>1, SeenFields, SeenFieldsNext DEF SameLease
    <2>3. Seen(a)'.paid = TRUE
      BY <1>3, SeenFieldsNext
    <2>4. Seen(a)' = [Seen(a) EXCEPT !.paid = TRUE]
      BY <2>2, <2>3, SeenIsRow, RowsDiffer
    <2> QED
      BY <2>1, <2>4 DEF Client!Paid
  <1>7. \A b \in Approval \ {a} : Seen(b)' = Seen(b)
    BY <1>2, <1>4, SeenUnchanged
  <1> HIDE DEF a
  <1> QED
    BY <1>1, <1>6, <1>7, ClientStepIs DEF Client!Unasked

\* The other steps of a task stutter, but for finish, which may pause paid work.
LEMMA TaskSeen ==
  ASSUME ClientInv, NEW u \in Upload, Tasks(u)
  PROVE  Client!Next \/ seen' = seen
  <1>1. ASSUME NEW n \in Nonce, NEW gas \in Gas, ReserveAllowance(u, n, gas)
        PROVE  Client!Next
    BY <1>1, ReserveSeen DEF ReserveAllowance
  <1>2. ASSUME NEW n \in Nonce, NEW call \in Call, NEW storage \in Amount, NEW gas \in Gas,
               ReservePayment(u, n, call, storage, gas)
        PROVE  Client!Next
    BY <1>2, ReserveSeen DEF ReservePayment
  <1>3. ASSUME NEW o, StoreFinish(u, o), UNCHANGED <<lease, txs, expired>>
        PROVE  Client!Next \/ seen' = seen
    <2> DEFINE a == ApprovalOf[u]
    <2>1. /\ a \in Approval
          /\ \A v \in Upload : uploads'[v].key = uploads[v].key
          /\ \A b \in Approval : HasApprovalTx(b)' = HasApprovalTx(b)
      <3>1. a \in Approval
        BY ConstantsAssumption
      <3>2. \A v \in Upload : uploads'[v].key = uploads[v].key
        BY <1>3 DEF StoreFinish, ClientInv, IInv, TypeOK, UploadRow
      <3>3. \A b \in Approval : HasApprovalTx(b)' = HasApprovalTx(b)
        BY <1>3 DEF HasApprovalTx
      <3> QED
        BY <3>1, <3>2, <3>3
    <2>2. CASE approval' = approval
      BY <1>3, <2>1, <2>2, ClientQuiet
    <2>3. CASE approval' # approval
      <3>1. HasTx(u) /\ approval' = [approval EXCEPT ![a] = "paused"]
        BY <1>3, <2>3 DEF StoreFinish, FinishState
      <3>2. HasApprovalTx(a) /\ definition[a] # None
        BY <3>1 DEF HasTx, HasApprovalTx, ClientInv, IInv, Inv, TxInv
      <3>3. /\ approval[a] \in {"open", "paused"} /\ approval'[a] = "paused"
            /\ \A b \in Approval \ {a} : approval'[b] = approval[b]
        BY <2>1, <3>1, <3>2
        DEF ClientInv, IInv, TypeOK, ApprovalState, Inv, DefinitionInv, HistoryInv
      <3>4. Client!Paused(Seen(a), Seen(a)')
        <4>1. Seen(a).phase \in {"open", "paused"} /\ Seen(a).paid
          BY <3>2, <3>3, SeenFields
        <4>2. Seen(a)' = [Seen(a) EXCEPT !.phase = "paused"]
          BY <1>3, <2>1, <3>3, PhaseChanged
        <4> QED
          BY <4>1, <4>2 DEF Client!Paused
      <3>5. \A b \in Approval \ {a} : Seen(b)' = Seen(b)
        BY <1>3, <2>1, <3>3, SeenUnchanged
      <3> HIDE DEF a
      <3> QED
        BY <2>1, <3>4, <3>5, ClientStepIs DEF Client!Unasked
    <2> QED
      BY <2>2, <2>3
  <1>4. CASE Finish(u) \/ FinishResumed(u)
    BY <1>3, <1>4 DEF Finish, FinishResumed
  <1>5. ASSUME UNCHANGED <<approval, lease, expired, uploads>>,
               \/ UNCHANGED txs
               \/ \E n \in Nonce, st \in TxState \ {"none"} :
                    txs[n].state # "none" /\ txs' = [txs EXCEPT ![n].state = st]
        PROVE  seen' = seen
    <2>1. \A m \in Nonce : txs'[m].upload = txs[m].upload
                           /\ (txs'[m].state # "none" <=> txs[m].state # "none")
      BY <1>5 DEF ClientInv, IInv, TypeOK, TxRow
    <2>2. \A b \in Approval : HasApprovalTx(b)' = HasApprovalTx(b)
      BY <2>1 DEF HasApprovalTx
    <2> QED
      BY <1>5, <2>2, ClientQuiet
  <1>6. CASE RecordSigned(u) \/ Settle(u)
    <2>1. task[u].nonce \in Nonce /\ txs[task[u].nonce].state # "none"
      BY <1>6 DEF RecordSigned, Settle, ClientInv, IInv, Inv, CarryInv
    <2>2. {"signed", "settled"} \subseteq TxState \ {"none"}
      BY DEF TxState
    <2> QED
      BY <1>5, <1>6, <2>1, <2>2 DEF RecordSigned, Settle
  <1>7. CASE Prepared(u) \/ (\E upper \in Amount : PayStart(u, upper)) \/ Send(u)
             \/ SendUncertain(u) \/ PayDone(u) \/ StoreComplete(u) \/ StorePartial(u)
             \/ (\E o \in Outcome : Fail(u, o)) \/ FinishLost(u) \/ Announce(u)
    BY <1>5, <1>7 DEF Prepared, PayStart, Send, SendUncertain, PayDone, StoreComplete,
       StorePartial, Fail, FinishLost, Announce, journalVars
  <1> QED
    BY <1>1, <1>2, <1>4, <1>6, <1>7 DEF Tasks

\* What initialize keeps: leases, ages, keys and transactions.
LEMMA InitializeKeeps ==
  ASSUME ClientInv, NEW before, Initialize(before)
  PROVE  /\ UNCHANGED <<lease, expired, txs>>
         /\ \A u \in Upload : uploads'[u].key = uploads[u].key
         /\ \A a \in Approval : HasApprovalTx(a)' = HasApprovalTx(a)
         /\ \A a \in Approval :
              approval'[a] # before[a]
                => /\ approval'[a] = "paused" /\ approval[a] \in {"open", "paused"}
                   /\ HasApprovalTx(a)
  <1>1. UNCHANGED <<lease, expired, txs>>
    BY DEF Initialize
  <1>2. \A u \in Upload : uploads'[u].key = uploads[u].key
    BY DEF Initialize, ClientInv, IInv, TypeOK, UploadRow
  <1>3. \A a \in Approval : HasApprovalTx(a)' = HasApprovalTx(a)
    BY <1>1 DEF HasApprovalTx
  <1>4. ASSUME NEW a \in Approval, approval'[a] # before[a]
        PROVE  /\ approval'[a] = "paused" /\ approval[a] \in {"open", "paused"}
               /\ HasApprovalTx(a)
    <2>1. PICK u \in Upload : /\ ApprovalOf[u] = a
                              /\ uploads'[u].state = "payment_recovery_required"
      BY <1>4 DEF Initialize
    <2>2. RestartedUpload(u) = "payment_recovery_required"
      BY <2>1 DEF Initialize, ClientInv, IInv, TypeOK, UploadRow
    <2>3. HasTx(u)
      BY <2>2 DEF RestartedUpload, ClientInv, IInv, Inv, HistoryInv
    <2>4. HasApprovalTx(a) /\ definition[a] # None
      BY <2>1, <2>3 DEF HasTx, HasApprovalTx, ClientInv, IInv, Inv, TxInv
    <2>5. approval[a] \in {"open", "paused"}
      BY <2>4 DEF ClientInv, IInv, TypeOK, ApprovalState, Inv, DefinitionInv, HistoryInv
    <2> QED
      BY <1>4, <2>4, <2>5 DEF Initialize
  <1> QED
    BY <1>1, <1>2, <1>3, <1>4

\* A restart pauses the approvals whose paid work was under way.
LEMMA RestartSeen ==
  ASSUME ClientInv, Restart
  PROVE  Client!Next
  <1> DEFINE A == {a \in Approval : approval'[a] # approval[a]}
  <1>1. Initialize(approval)
    BY DEF Restart
  <1>2. \A a \in A : Client!Paused(Seen(a), Seen(a)')
    <2> TAKE a \in A
    <2>1. /\ approval'[a] = "paused" /\ approval[a] \in {"open", "paused"}
          /\ HasApprovalTx(a) /\ HasApprovalTx(a)' = HasApprovalTx(a)
          /\ UNCHANGED <<lease, expired>>
          /\ \A u \in Upload : uploads'[u].key = uploads[u].key
      BY <1>1, InitializeKeeps
    <2>2. Seen(a).phase \in {"open", "paused"} /\ Seen(a).paid
      BY <2>1, SeenFields
    <2>3. Seen(a)' = [Seen(a) EXCEPT !.phase = "paused"]
      BY <2>1, PhaseChanged
    <2> QED
      BY <2>2, <2>3 DEF Client!Paused
  <1>3. \A a \in Approval \ A : Seen(a)' = Seen(a)
    BY <1>1, InitializeKeeps, SeenUnchanged
  <1> HIDE DEF A
  <1>4. A \in SUBSET Approval
    BY DEF A
  <1>5. Client!Restart(A)
    BY <1>2, <1>3, <1>4 DEF Client!Restart
  <1> QED
    BY <1>4, <1>5 DEF Client!Next

\* A restore pauses every approval there is.
LEMMA RestoreSeen ==
  ASSUME ClientInv, Restore
  PROVE  Client!Next
  <1> DEFINE before == [a \in Approval |-> IF approval[a] = "none" THEN "none" ELSE "paused"]
  <1>1. Initialize(before)
    BY DEF Restore
  <1>2. ASSUME NEW a \in Approval
        PROVE  Seen(a)' = Client!Restored(Seen(a))
    <2>1. approval'[a] = IF approval[a] = "none" THEN "none" ELSE "paused"
      BY <1>1, InitializeKeeps
    <2> HIDE DEF before
    <2>2. /\ HasApprovalTx(a)' = HasApprovalTx(a) /\ UNCHANGED <<lease, expired>>
          /\ \A u \in Upload : uploads'[u].key = uploads[u].key
      BY <1>1, InitializeKeeps
    <2>3. CASE approval[a] = "none"
      <3>1. Seen(a)' = Seen(a)
        BY <2>1, <2>2, <2>3, SeenUnchanged
      <3>2. Seen(a).phase = "none"
        BY <2>3, SeenFields
      <3> QED
        BY <3>1, <3>2 DEF Client!Restored
    <2>4. CASE approval[a] # "none"
      <3>1. Seen(a)' = [Seen(a) EXCEPT !.phase = "paused"]
        BY <2>1, <2>2, <2>4, PhaseChanged
      <3>2. Seen(a).phase # "none"
        BY <2>4, SeenFields
      <3> QED
        BY <3>1, <3>2 DEF Client!Restored
    <2> QED
      BY <2>3, <2>4
  <1>3. Client!Restore
    BY <1>2 DEF Client!Restore
  <1> QED
    BY <1>3 DEF Client!Next

\* Leases lapse and approvals grow old in the view too; the chain is not in it.
LEMMA EnvironmentSeen ==
  ASSUME ClientInv, Environment
  PROVE  Client!Next \/ seen' = seen
  <1>1. ASSUME NEW a \in Approval, LeaseLapses(a)
        PROVE  Client!Next
    <2>1. /\ lease[a].live /\ lease'[a].key = lease[a].key /\ lease'[a].live = FALSE
          /\ \A b \in Approval \ {a} : lease'[b] = lease[b]
          /\ UNCHANGED <<approval, expired, uploads, txs>>
      BY <1>1 DEF LeaseLapses, ClientInv, IInv, TypeOK, LeaseRow
    <2>2. \A b \in Approval : HasApprovalTx(b)' = HasApprovalTx(b)
      BY <2>1 DEF HasApprovalTx
    <2>3. Client!Lapsed(Seen(a), Seen(a)')
      <3>1. /\ Seen(a)'.phase = Seen(a).phase /\ SamePaid(Seen(a), Seen(a)')
            /\ Seen(a)'.job = Seen(a).job /\ Seen(a)'.gen = Seen(a).gen
            /\ Seen(a)'.admitted = Seen(a).admitted
            /\ Seen(a).live /\ Seen(a)'.live = FALSE
        <4>1. AdmittedNow(a)' = AdmittedNow(a)
          BY <2>1 DEF AdmittedNow
        <4> QED
          BY <2>1, <2>2, <4>1, SeenFields, SeenFieldsNext DEF SamePaid
      <3>2. Seen(a)' = [Seen(a) EXCEPT !.live = FALSE]
        <4>1. Seen(a)' = [Seen(a) EXCEPT !.live = Seen(a)'.live]
          BY <3>1, SeenIsRow, RowsDiffer
        <4> QED
          BY <3>1, <4>1
      <3> QED
        BY <3>1, <3>2 DEF Client!Lapsed
    <2>4. \A b \in Approval \ {a} : Seen(b)' = Seen(b)
      BY <2>1, <2>2, SeenUnchanged
    <2> QED
      BY <2>3, <2>4, ClientStepIs DEF Client!Unasked
  <1>2. ASSUME NEW a \in Approval, ApprovalExpires(a)
        PROVE  Client!Next
    <2>1. /\ expired'[a] = TRUE /\ \A b \in Approval \ {a} : expired'[b] = expired[b]
          /\ UNCHANGED <<approval, lease, uploads, txs>>
      BY <1>2 DEF ApprovalExpires, journalVars, ClientInv, IInv, TypeOK
    <2>2. \A b \in Approval : HasApprovalTx(b)' = HasApprovalTx(b)
      BY <2>1 DEF HasApprovalTx
    <2>3. Client!Expired(Seen(a), Seen(a)')
      <3>1. /\ Seen(a)'.phase = Seen(a).phase /\ SameLease(Seen(a), Seen(a)')
            /\ Seen(a)'.admitted = Seen(a).admitted /\ Seen(a)'.paid = Seen(a).paid
            /\ Seen(a)'.expired = TRUE
        <4>1. AdmittedNow(a)' = AdmittedNow(a)
          BY <2>1 DEF AdmittedNow
        <4> QED
          BY <2>1, <2>2, <4>1, SeenFields, SeenFieldsNext DEF SameLease
      <3>2. Seen(a)' = [Seen(a) EXCEPT !.expired = TRUE]
        BY <3>1, SeenIsRow, RowsDiffer
      <3> QED
        BY <3>2 DEF Client!Expired
    <2>4. \A b \in Approval \ {a} : Seen(b)' = Seen(b)
      BY <2>1, <2>2, SeenUnchanged
    <2> QED
      BY <2>3, <2>4, ClientStepIs DEF Client!Unasked
  <1>3. ASSUME UNCHANGED journalVars, UNCHANGED expired
        PROVE  seen' = seen
    <2>1. \A b \in Approval : HasApprovalTx(b)' = HasApprovalTx(b)
      BY <1>3 DEF HasApprovalTx, journalVars
    <2> QED
      BY <1>3, <2>1, ClientQuiet DEF journalVars
  <1> QED
    BY <1>1, <1>2, <1>3 DEF Environment, SessionExpires, Mine, Revert, Charge

\* Every step of the gateway is a step or a stutter of the admin service's view.
LEMMA ClientNext ==
  ASSUME ClientInv, [Next]_vars
  PROVE  Client!Next \/ seen' = seen
  <1>1. ASSUME UNCHANGED journalVars \/ LiftGuard \/ UNCHANGED vars, UNCHANGED expired
        PROVE  seen' = seen
    <2>1. UNCHANGED <<approval, lease, uploads, txs>>
      BY <1>1 DEF LiftGuard, vars, journalVars
    <2>2. \A b \in Approval : HasApprovalTx(b)' = HasApprovalTx(b)
      BY <2>1 DEF HasApprovalTx
    <2> QED
      BY <1>1, <2>1, <2>2, ClientQuiet
  <1>2. CASE Requests
    BY <1>1, <1>2, AdmitSeen DEF Requests, Begin, BeginResume, Join, RefuseAdmission, TurnAway,
       ResumeSession
  <1>3. CASE Journal
    BY <1>3, ApproveSeen, ActivateSeen, CancelSeen DEF Journal
  <1>4. CASE LiftGuard \/ UNCHANGED vars
    BY <1>1, <1>4 DEF LiftGuard, vars
  <1> QED
    BY <1>2, <1>3, <1>4, TaskSeen, RestartSeen, RestoreSeen, EnvironmentSeen DEF Next

\* The gateway is to the admin service what GatewayView says: it pays only for what
\* was admitted under the current generation of one job, pauses only what is paid
\* (or restored) and cancels only what is not.
THEOREM GatewayImplementsView == Spec => ImplementsView
  <1>1. Init => Client!Init
    <2> SUFFICES ASSUME Init, NEW a \in Approval
                 PROVE  Seen(a) = Client!Unknown
      BY DEF Client!Init
    <2>1. ~HasApprovalTx(a)
      BY DEF Init, NoTx, HasApprovalTx
    <2>2. /\ Seen(a).phase = "none" /\ Seen(a).job = None /\ Seen(a).gen = 0
          /\ Seen(a).live = FALSE /\ Seen(a).admitted = FALSE
          /\ Seen(a).paid = FALSE /\ Seen(a).expired = FALSE
      <3>1. AdmittedNow(a) = FALSE /\ HasApprovalTx(a) = FALSE
        BY <2>1 DEF Init, AdmittedNow
      <3> QED
        BY <3>1, SeenFields DEF Init
    <2> QED
      BY <2>2, SeenIsRow DEF IsRow, Client!Unknown
  <1>2. ClientInv /\ [Next]_vars => [Client!Next]_seen
    BY ClientNext
  <1> QED
    BY <1>1, <1>2, ClientInvHolds, PTL DEF Spec, ImplementsView, Client!Spec, seen

=============================================================================
