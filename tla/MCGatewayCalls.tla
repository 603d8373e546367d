--------------------------- MODULE MCGatewayCalls ---------------------------
(* A small instance of GatewayCalls for TLC.                               *)
EXTENDS GatewayCalls

MCAttempts == [kind \in Kind |-> IF kind = "single" THEN 1 ELSE 3]

=============================================================================
