----------------------------- MODULE GatewayView -----------------------------
(***************************************************************************)
(* The payment gateway as the admin service may know it: one row per       *)
(* approval, without uploads, transactions, tasks, journal or chain.       *)
(* PaymentGateway implements this view, and what VideoLifecycle assumes of *)
(* the gateway is a part of it: what is shown of the one holds next to the *)
(* other.                                                                  *)
(***************************************************************************)
EXTENDS Naturals

CONSTANTS
  Approval,     \* quote IDs
  None          \* no job

\* Of each approval: its phase, the job and the generation of its execution lease
\* and whether that is live, whether anything was admitted under that generation,
\* whether a payment was ever reserved, and whether it is too old for new work.
VARIABLE row

Unknown == [phase |-> "none", job |-> None, gen |-> 0, live |-> FALSE, admitted |-> FALSE,
            paid |-> FALSE, expired |-> FALSE]

Init == row = [a \in Approval |-> Unknown]

-----------------------------------------------------------------------------
(* What may become of the row g of an approval: the row h.                 *)

\* New work is accepted.
Working(g) == g.phase = "open" /\ ~g.expired /\ g.live

Granted(g, h) == g.phase = "none" /\ ~g.expired /\ h = [g EXCEPT !.phase = "open"]

\* An approval belongs to the job that first leases it; its generations only grow,
\* and one that has lapsed is over.
Leased(g, h) ==
  /\ g.phase # "none"
  /\ \/ g.job = None
     \/ g.job = h.job /\ (g.gen < h.gen \/ (g.gen = h.gen /\ g.live))
  /\ h = [g EXCEPT !.job = h.job, !.gen = h.gen, !.live = TRUE,
                   !.admitted = @ /\ g.gen = h.gen]

Admitted(g, h) == Working(g) /\ h = [g EXCEPT !.admitted = TRUE]

Cancelled(g, h) ==
  g.phase # "none" /\ g.live /\ ~g.paid /\ h = [g EXCEPT !.phase = "cancelled"]

\* Payments are for what was admitted under the generation that is current.
Paid(g, h) == Working(g) /\ g.admitted /\ h = [g EXCEPT !.paid = TRUE]

\* Only paid work is left for recovery.
Paused(g, h) ==
  g.phase \in {"open", "paused"} /\ g.paid /\ h = [g EXCEPT !.phase = "paused"]

Lapsed(g, h) == g.live /\ h = [g EXCEPT !.live = FALSE]

Expired(g, h) == h = [g EXCEPT !.expired = TRUE]

\* A backup is restored: whatever a known approval was, it is paused.
Restored(g) == IF g.phase = "none" THEN g ELSE [g EXCEPT !.phase = "paused"]

\* What the admin service asks for, and what happens without it.
Asked(g, h) == Granted(g, h) \/ Leased(g, h) \/ Admitted(g, h) \/ Cancelled(g, h)
Unasked(g, h) == Paid(g, h) \/ Paused(g, h) \/ Lapsed(g, h) \/ Expired(g, h)

-----------------------------------------------------------------------------

Step(a) ==
  /\ Asked(row[a], row'[a]) \/ Unasked(row[a], row'[a])
  /\ row' = [row EXCEPT ![a] = row'[a]]

\* The gateway starts again: the paid work it had under way is left for recovery.
Restart(A) ==
  /\ \A a \in A : Paused(row[a], row'[a])
  /\ row' = [a \in Approval |-> IF a \in A THEN row'[a] ELSE row[a]]

Restore == row' = [a \in Approval |-> Restored(row[a])]

Next ==
  \/ \E a \in Approval : Step(a)
  \/ \E A \in SUBSET Approval : Restart(A)
  \/ Restore

Spec == Init /\ [][Next]_row

=============================================================================
