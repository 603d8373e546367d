-------------------------- MODULE PaymentAuthority --------------------------
(***************************************************************************)
(* What the payment gateway promises its operator, without leases, tasks,  *)
(* journals or chains: an approval grants a budget, charges stay within it,*)
(* it can be closed, and it can be cancelled only while nothing has been   *)
(* charged, after which nothing ever is.                                   *)
(***************************************************************************)
EXTENDS Naturals

CONSTANTS
  Approval,
  Definition,   \* the budgets that may be granted
  None          \* no budget

VARIABLES
  phase,        \* "none", "open", "closed" or "cancelled"
  budget,       \* the definition granted
  charged       \* storage and gas charged so far

vars == <<phase, budget, charged>>

Init ==
  /\ phase = [a \in Approval |-> "none"]
  /\ budget = [a \in Approval |-> None]
  /\ charged = [a \in Approval |-> [storage |-> 0, gas |-> 0]]

Grant(a, d) ==
  /\ phase[a] = "none"
  /\ phase' = [phase EXCEPT ![a] = "open"]
  /\ budget' = [budget EXCEPT ![a] = d]
  /\ UNCHANGED charged

Charge(a) ==
  /\ phase[a] \in {"open", "closed"}
  /\ \E storage \in 0..budget[a].storage, gas \in 0..budget[a].gas :
       /\ storage >= charged[a].storage
       /\ gas >= charged[a].gas
       /\ charged' = [charged EXCEPT ![a] = [storage |-> storage, gas |-> gas]]
  /\ UNCHANGED <<phase, budget>>

Close(A) ==
  /\ \A a \in A : phase[a] # "none"
  /\ phase' = [a \in Approval |-> IF a \in A THEN "closed" ELSE phase[a]]
  /\ UNCHANGED <<budget, charged>>

Cancel(a) ==
  /\ phase[a] # "none"
  /\ charged[a] = [storage |-> 0, gas |-> 0]
  /\ phase' = [phase EXCEPT ![a] = "cancelled"]
  /\ UNCHANGED <<budget, charged>>

Next ==
  \/ \E a \in Approval :
       \/ \E d \in Definition : Grant(a, d)
       \/ Charge(a)
       \/ Cancel(a)
  \/ \E A \in SUBSET Approval : Close(A)

Spec == Init /\ [][Next]_vars

=============================================================================
