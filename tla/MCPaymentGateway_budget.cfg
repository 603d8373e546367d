SPECIFICATION FairSpec
CONSTANTS
  a1 = a1
  u1 = u1
  None = None
  Approval = {a1}
  Upload = {u1}
  ApprovalOf <- OneUpload
  Definition <- Budget
  Key <- TwoJobs
  Request = {r1}
  Nonce = {n1, n2}
  Amount = {0, 1, 2}
  Gas = {1}
  MaxSlots = 1
  MaxResumes = 1
INVARIANTS
  IInv
  BudgetRespected
  OrderedSigning
  PausedOnlyAfterPayment
  OneJobPerApproval
  CancelledNeverPaid
PROPERTIES
  PaysOnce
  CompleteIsFinal
  ImplementsAuthority
  ImplementsView
  TasksEnd
