-------------------------- MODULE MCVideoLifecycle --------------------------
(* Small instances of VideoLifecycle for TLC.                              *)
EXTENDS VideoLifecycle, TLC

CONSTANTS v1, w1, w2

WorkerSymmetry == Permutations(Worker)

\* Bounds of the longer histories: quotes do not expire, and what the gateway
\* and the workers do after a deletion is left to the shorter ones.
Unexpired == \A q \in Quote : ~expired[q]
Kept == \A v \in Video : video[v].status # "deleted"

\* Histories end with the loss of a report: what the runs' properties say of a
\* video no longer holds then.
Reporting == unreported = {}

=============================================================================
