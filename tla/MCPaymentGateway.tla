------------------------- MODULE MCPaymentGateway --------------------------
(***************************************************************************)
(* Small instances of PaymentGateway for TLC.                              *)
(***************************************************************************)
EXTENDS PaymentGateway

CONSTANTS a1, u1

\* One approval with one content.
OneUpload == [u \in {u1} |-> a1]

\* Caps that one upload can reach and pass.
Budget == {[storage |-> 1, gas |-> 1, contents |-> Upload]}

\* The leases of two jobs; the second is newer, as after a restore or a reused number.
Lease(job, owner, generation) ==
  [job |-> job, owner |-> owner, generation |-> generation]
TwoJobs == {Lease("j1", "w1", 1), Lease("j2", "w2", 2)}

=============================================================================
