----------------------------- MODULE MCLauncher -----------------------------
(***************************************************************************)
(* A small instance of Launcher for TLC.                                   *)
(***************************************************************************)
EXTENDS Launcher, TLC

\* antd, which must be healthy first, and one of the services started after it, or both.
TwoNames == <<"antd", "rust_admin">>
AllNames == <<"antd", "rust_admin", "rust_stream">>

\* Pids and the ports the system gives are only compared for equality.
Interchangeable == Permutations(Pid) \cup Permutations(FreePort)

=============================================================================
