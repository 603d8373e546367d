--------------------------- MODULE MCAuthSessions ---------------------------
(* A small instance of AuthSessions for TLC: a write and a read in one tab. *)
EXTENDS AuthSessions

CONSTANTS t1, t2, q1, q2

MCWork == [q \in Request |-> {[tab |-> t1, kind |-> IF q = q1 THEN "write" ELSE "read"]}]

=============================================================================
