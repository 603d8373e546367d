--------------------------- MODULE LauncherProofs ---------------------------
(***************************************************************************)
(* Theorems about Launcher: what becomes of the sidecars of a launcher     *)
(* that fails, stops or dies, for any number of launchers, sidecars, pids  *)
(* and ports.                                                              *)
(***************************************************************************)
EXTENDS Launcher, SequenceTheorems, TLAPS

-----------------------------------------------------------------------------
\* The inductive invariant.

Quiet == {"off", "idle", "failed"}
Cleaning == {"signal", "remove"}
Launching == {"ports", "spawn", "record", "health", "serve"}
Busy == Cleaning \cup Launching \cup {"running", "stop"}
Running == {"starting", "listening", "draining"}
N == Len(Names)

ProcType == [name : Name \cup {"other"}, state : Running \cup {"free", "other", "zombie"},
             owner : Launcher \cup {None}, port : {"default"} \cup FreePort,
             signalled : BOOLEAN, lost : BOOLEAN]

TypeInv ==
  /\ proc \in [Pid -> ProcType]
  /\ file \in [Name -> Pid \cup {None}]
  /\ lock \in Launcher \cup {None}
  /\ at \in [Launcher -> [step : Quiet \cup Busy, i : Nat]]
  /\ held \in [Launcher -> Seq(Pid)]
  /\ port \in [Launcher -> [Name -> {"default"} \cup FreePort]]

\* A launcher at work has the lock.
LockInv == \A l \in Launcher : at[l].step \in Busy <=> lock = l

\* How many children a launcher has at each step.
StepOK(l) ==
  LET s == at[l].step
      i == at[l].i
      n == Len(held[l])
  IN  /\ s \in Cleaning \cup {"spawn", "record", "health"} => i \in 1..N
      /\ s \in Quiet \cup Cleaning \cup {"ports"} => n = 0
      /\ s = "spawn" => n = i - 1
      /\ s = "record" => n = i
      /\ s = "health" => n = IF i = 1 THEN 1 ELSE N
      /\ s \in {"serve", "running"} => n = N
      /\ s = "stop" => n <= N /\ i \in 1..(n + 1)

\* Child j of launcher l, not reaped by stop_children yet, and its pid file written.
Live(l, j) == j \in 1..Len(held[l]) /\ (at[l].step = "stop" => j >= at[l].i)
Named(l, j) == Live(l, j) /\ (at[l].step = "record" => j < at[l].i)

HeldOK(l) == \A j \in 1..N :
  Live(l, j) => /\ proc[held[l][j]].owner = l
                /\ proc[held[l][j]].name = Names[j]
                /\ proc[held[l][j]].state \in Running \cup {"zombie"}

\* A child is found by its pid file, and the pid files of earlier launches are gone.
FileOK(l) == \A j \in 1..N : Named(l, j) => file[Names[j]] = held[l][j]
CleanOK(l) == \A j \in 1..N :
  \/ at[l].step \in Cleaning /\ j < at[l].i
  \/ at[l].step \in Launching /\ ~Named(l, j)
  => file[Names[j]] = None

Orphan(r) == r.owner = None /\ r.state \in Running

\* A pid file is removed after its process was told to stop.
RemoveOK(l) == at[l].step = "remove" =>
  \A p \in Pid : LET n == Names[at[l].i] IN
    file[n] = p /\ Orphan(proc[p]) /\ proc[p].name = n => proc[p].signalled

\* Nobody but the launcher's own child, or a lost one, listens on a port it has chosen.
PortOK(l) == at[l].step \in Launching \ {"ports"} =>
  \A p \in Pid : \A n \in Name :
    Listens(p, n, port[l][n]) /\ proc[p].owner = None => proc[p].lost

LauncherOK(l) == StepOK(l) /\ HeldOK(l) /\ FileOK(l) /\ CleanOK(l) /\ RemoveOK(l) /\ PortOK(l)

\* A process as the system has it.
ProcOK(r) ==
  /\ r.state = "free" => r = Free
  /\ r.state = "other" => ~r.signalled /\ r.owner = None /\ r.name = "other"
  /\ r.state \in Running \cup {"zombie"} => r.name \in Name
  /\ r.state = "zombie" => r.owner # None
  /\ r.state = "starting" => ~r.signalled
ProcInv == \A p \in Pid : ProcOK(proc[p])

OwnedInv == \A p \in Pid : \A l \in Launcher :
  proc[p].owner = l => \E j \in 1..N : Live(l, j) /\ held[l][j] = p

IInv == /\ TypeInv /\ LockInv /\ (\A l \in Launcher : LauncherOK(l)) /\ ProcInv /\ OwnedInv
        /\ OrphansAccounted /\ OnlyStaleSignalled

-----------------------------------------------------------------------------
\* Launchers at work and quiet ones.

\* The names of the sidecars.
LEMMA NameFacts ==
  /\ N \in Nat /\ N > 1
  /\ \A j \in 1..N : Names[j] \in Name
  /\ \A n \in Name : n # "other" /\ \E j \in 1..N : Names[j] = n
  /\ \A i, j \in 1..N : Names[i] = Names[j] => i = j
  BY LauncherAssumption DEF N, Name

\* A launcher is quiet or busy.
LEMMA QuietBusy == Quiet \cap Busy = {}
  BY DEF Quiet, Busy, Cleaning, Launching

\* A quiet launcher has no children, and nothing else to keep.
LEMMA QuietOK ==
  ASSUME NEW l \in Launcher, at'[l].step \in Quiet, Len(held'[l]) = 0
  PROVE  LauncherOK(l)'
<1>1. at'[l].step \notin Busy
  BY QuietBusy
<1>2. \A j : ~Live(l, j)'
  BY DEF Live
<1>3. StepOK(l)'
  BY <1>1 DEF StepOK, Quiet, Busy, Cleaning, Launching
<1> QED BY <1>1, <1>2, <1>3 DEF LauncherOK, HeldOK, FileOK, CleanOK, RemoveOK, PortOK, Named,
        Busy, Cleaning, Launching

\* While launcher l is at work, the others are quiet and every child is its own.
LEMMA Alone ==
  ASSUME IInv, NEW l \in Launcher, at[l].step \in Busy
  PROVE  /\ lock = l
         /\ \A k \in Launcher \ {l} : at[k].step \in Quiet /\ Len(held[k]) = 0
         /\ \A p \in Pid : proc[p].owner \in {l, None}
<1>1. lock = l
  BY DEF IInv, LockInv
<1>2. ASSUME NEW k \in Launcher \ {l}
      PROVE  at[k].step \in Quiet /\ Len(held[k]) = 0
  <2>1. at[k].step \in Quiet
    BY <1>1 DEF IInv, LockInv, TypeInv
  <2> QED BY <2>1 DEF IInv, LauncherOK, StepOK
<1>3. ASSUME NEW p \in Pid
      PROVE  proc[p].owner \in {l, None}
  <2>1. proc[p].owner \in Launcher \cup {None}
    BY DEF IInv, TypeInv, ProcType
  <2> QED BY <1>2, <2>1 DEF IInv, OwnedInv, Live
<1> QED BY <1>1, <1>2, <1>3

\* A quiet launcher owns no process.
LEMMA QuietOwnsNone ==
  ASSUME IInv, NEW l \in Launcher, at[l].step \in Quiet
  PROVE  /\ Len(held[l]) = 0 /\ lock # l
         /\ \A p \in Pid : proc[p].owner # l
<1>1. Len(held[l]) = 0
  BY DEF IInv, LauncherOK, StepOK
<1> QED BY <1>1, QuietBusy DEF IInv, OwnedInv, Live, LockInv

\* A step of the launcher at work: what is to be shown of it.
LEMMA SoloStep ==
  ASSUME IInv, NEW l \in Launcher, at[l].step \in Busy, TypeInv',
         lock' = IF at'[l].step \in Busy THEN l ELSE None,
         \A k \in Launcher \ {l} : at'[k] = at[k] /\ held'[k] = held[k],
         LauncherOK(l)', ProcInv', OwnedInv', OrphansAccounted', OnlyStaleSignalled'
  PROVE  IInv'
<1>1. \A k \in Launcher \ {l} : LauncherOK(k)'
  BY Alone, QuietOK
<1>2. LockInv'
  <2>1. None \notin Launcher
    BY LauncherAssumption
  <2> QED BY <2>1, Alone, QuietBusy DEF LockInv
<1> QED BY <1>1, <1>2 DEF IInv

\* A launcher for which nothing changes.
LEMMA SameOK ==
  ASSUME NEW l \in Launcher, LauncherOK(l), UNCHANGED <<proc, file>>,
         at'[l] = at[l], held'[l] = held[l], port'[l] = port[l]
  PROVE  LauncherOK(l)'
<1>1. \A j : (Live(l, j)' <=> Live(l, j)) /\ (Named(l, j)' <=> Named(l, j))
  BY DEF Live, Named
<1>2. StepOK(l)'
  BY DEF LauncherOK, StepOK
<1>3. HeldOK(l)' /\ FileOK(l)'
  BY <1>1 DEF LauncherOK, HeldOK, FileOK
<1>4. CleanOK(l)'
  BY <1>1 DEF LauncherOK, CleanOK
<1>5. RemoveOK(l)' /\ PortOK(l)'
  BY DEF LauncherOK, RemoveOK, PortOK, Listens
<1> QED BY <1>2, <1>3, <1>4, <1>5 DEF LauncherOK

\* A quiet launcher stays quiet, and nothing else changes.
LEMMA QuietStep ==
  ASSUME IInv, NEW l \in Launcher, at[l].step \in Quiet, at'[l].step \in Quiet, TypeInv',
         UNCHANGED <<proc, file, lock>>, Len(held'[l]) = 0,
         \A k \in Launcher \ {l} : at'[k] = at[k] /\ held'[k] = held[k] /\ port'[k] = port[k]
  PROVE  IInv'
<1>1. \A k \in Launcher \ {l} : LauncherOK(k)'
  BY SameOK DEF IInv
<1>2. LauncherOK(l)'
  BY QuietOK
<1>3. LockInv'
  BY QuietBusy DEF IInv, LockInv
<1>4. OwnedInv' /\ OrphansAccounted' /\ OnlyStaleSignalled' /\ ProcInv'
  <2>1. \A p \in Pid : proc[p].owner # l
    BY QuietOwnsNone
  <2>2. \A p \in Pid : proc[p].owner \in Launcher \cup {None}
    BY DEF IInv, TypeInv, ProcType
  <2>3. OwnedInv'
    BY <2>1 DEF IInv, OwnedInv, Live
  <2>4. OrphansAccounted'
    BY <2>1, <2>2 DEF IInv, OrphansAccounted, Holds
  <2>5. OnlyStaleSignalled'
    BY <2>1, <2>2 DEF IInv, OnlyStaleSignalled
  <2> QED BY <2>3, <2>4, <2>5 DEF IInv, ProcInv
<1> QED BY <1>1, <1>2, <1>3, <1>4 DEF IInv

-----------------------------------------------------------------------------
\* The steps of a launcher that is not at work, and its end.

\* Go sets the step and the sidecar of one launcher.
LEMMA GoMoves ==
  ASSUME TypeInv, NEW l \in Launcher, NEW s \in Quiet \cup Busy, NEW i \in Nat, Go(l, s, i)
  PROVE  /\ at' \in [Launcher -> [step : Quiet \cup Busy, i : Nat]]
         /\ at'[l].step = s /\ at'[l].i = i
         /\ \A k \in Launcher \ {l} : at'[k] = at[k]
  BY DEF TypeInv, Go

\* The commands that only say what shall happen.
LEMMA AsideKeeps ==
  ASSUME IInv, UNCHANGED <<proc, file, lock, at, held, port>>
  PROVE  IInv'
<1>1. \A l \in Launcher : LauncherOK(l)'
  BY SameOK DEF IInv
<1>2. TypeInv' /\ LockInv' /\ ProcInv'
  BY DEF IInv, TypeInv, LockInv, ProcInv
<1>3. OwnedInv' /\ OrphansAccounted' /\ OnlyStaleSignalled'
  BY DEF IInv, OwnedInv, Live, OrphansAccounted, Holds, OnlyStaleSignalled
<1> QED BY <1>1, <1>2, <1>3 DEF IInv

\* A launcher process begins.
LEMMA BeginKeeps ==
  ASSUME IInv, NEW l \in Launcher, Begin(l)
  PROVE  IInv'
<1>1. "off" \in Quiet /\ "idle" \in Quiet
  BY DEF Quiet
<1>2. /\ at[l].step \in Quiet /\ Go(l, "idle", 0)
      /\ UNCHANGED <<proc, file, lock, held, port>>
  BY <1>1 DEF Begin
<1>3. /\ at' \in [Launcher -> [step : Quiet \cup Busy, i : Nat]] /\ at'[l].step = "idle"
      /\ \A k \in Launcher \ {l} : at'[k] = at[k]
  BY <1>1, <1>2, GoMoves DEF IInv
<1>4. TypeInv'
  BY <1>2, <1>3 DEF IInv, TypeInv
<1> QED BY <1>1, <1>2, <1>3, <1>4, QuietStep, QuietOwnsNone

\* acquire_instance_lock refuses the launcher of the command line.
LEMMA RefusedKeeps ==
  ASSUME IInv, NEW l \in Launcher, Refused(l)
  PROVE  IInv'
<1>1. "idle" \in Quiet /\ "failed" \in Quiet
  BY DEF Quiet
<1>2. /\ at[l].step \in Quiet /\ Go(l, "failed", 0)
      /\ UNCHANGED <<proc, file, lock, held, port>>
  BY <1>1 DEF Refused
<1>3. /\ at' \in [Launcher -> [step : Quiet \cup Busy, i : Nat]] /\ at'[l].step = "failed"
      /\ \A k \in Launcher \ {l} : at'[k] = at[k]
  BY <1>1, <1>2, GoMoves DEF IInv
<1>4. TypeInv'
  BY <1>2, <1>3 DEF IInv, TypeInv
<1> QED BY <1>1, <1>2, <1>3, <1>4, QuietStep, QuietOwnsNone

\* acquire_instance_lock: from now on one launcher is at work.
LEMMA StartStackKeeps ==
  ASSUME IInv, NEW l \in Launcher, StartStack(l)
  PROVE  IInv'
<1>1. "idle" \in Quiet /\ "signal" \in Busy /\ "signal" \notin Quiet
  BY DEF Quiet, Busy, Cleaning
<1>2. /\ at[l].step \in Quiet /\ Go(l, "signal", 1) /\ lock = None /\ lock' = l
      /\ UNCHANGED <<proc, file, held, port>>
  BY <1>1 DEF StartStack
<1>3. /\ at' \in [Launcher -> [step : Quiet \cup Busy, i : Nat]]
      /\ at'[l].step = "signal" /\ at'[l].i = 1
      /\ \A k \in Launcher \ {l} : at'[k] = at[k]
  BY <1>1, <1>2, GoMoves DEF IInv
<1>4. TypeInv'
  BY <1>2, <1>3 DEF IInv, TypeInv
<1>5. \A k \in Launcher : at[k].step \in Quiet /\ Len(held[k]) = 0
  <2>1. \A k \in Launcher : at[k].step \in Quiet
    BY <1>2, LauncherAssumption DEF IInv, LockInv, TypeInv
  <2> QED BY <2>1, QuietOwnsNone
<1>6. \A p \in Pid : proc[p].owner = None
  <2>1. \A p \in Pid : proc[p].owner \in Launcher \cup {None}
    BY DEF IInv, TypeInv, ProcType
  <2> QED BY <1>5, <2>1, QuietOwnsNone
<1>7. LauncherOK(l)'
  <2>1. StepOK(l)'
    BY <1>2, <1>3, <1>5, NameFacts DEF StepOK, Cleaning, Quiet
  <2>2. \A j : ~Live(l, j)'
    BY <1>2, <1>5 DEF Live
  <2> QED BY <1>3, <2>1, <2>2 DEF LauncherOK, HeldOK, FileOK, CleanOK, RemoveOK, PortOK, Named,
          Launching
<1>8. \A k \in Launcher \ {l} : LauncherOK(k)'
  BY <1>2, <1>3, <1>5, QuietOK
<1>9. LockInv'
  BY <1>1, <1>2, <1>3, <1>5, QuietBusy DEF LockInv
<1>10. OwnedInv' /\ OrphansAccounted' /\ OnlyStaleSignalled' /\ ProcInv'
  <2>1. None \notin Launcher
    BY LauncherAssumption
  <2> QED BY <1>2, <1>6, <2>1 DEF IInv, OwnedInv, OrphansAccounted, OnlyStaleSignalled, ProcInv
<1> QED BY <1>4, <1>7, <1>8, <1>9, <1>10 DEF IInv

\* The end of a launcher: its children are orphans that their pid files name.
LEMMA OverKeeps ==
  ASSUME IInv, NEW l \in Launcher, Over(l)
  PROVE  IInv'
<1> DEFINE lost == at[l].step = "record"
<1>1. "off" \in Quiet /\ "off" \notin Busy
  BY QuietBusy DEF Quiet
<1>2. /\ Go(l, "off", 0) /\ UNCHANGED file /\ held' = [held EXCEPT ![l] = <<>>]
      /\ port' = [port EXCEPT ![l] = [n \in Name |-> "default"]]
      /\ lock' = IF lock = l THEN None ELSE lock
  BY DEF Over
<1>3. /\ at' \in [Launcher -> [step : Quiet \cup Busy, i : Nat]] /\ at'[l].step = "off"
      /\ \A k \in Launcher \ {l} : at'[k] = at[k]
  BY <1>1, <1>2, GoMoves DEF IInv
<1>4. ASSUME NEW p \in Pid
      PROVE  /\ proc[p].owner # l => proc'[p] = proc[p]
             /\ proc[p].owner = l /\ proc[p].state = "zombie" => proc'[p] = Free
             /\ proc[p].owner = l /\ proc[p].state # "zombie" =>
                  proc'[p] = [proc[p] EXCEPT !.owner = None,
                                !.lost = at[l].step = "record" /\ p = held[l][at[l].i]]
  BY DEF Over
<1>5. /\ held' \in [Launcher -> Seq(Pid)] /\ Len(held'[l]) = 0
      /\ \A k \in Launcher \ {l} : held'[k] = held[k]
  BY <1>2 DEF IInv, TypeInv
<1>6. /\ port' \in [Launcher -> [Name -> {"default"} \cup FreePort]]
      /\ \A k \in Launcher \ {l} : port'[k] = port[k]
  BY <1>2 DEF IInv, TypeInv
<1>7. CASE at[l].step \in Quiet
  <2>1. proc' = proc
    <3>1. \A p \in Pid : proc'[p] = proc[p]
      BY <1>4, <1>7, QuietOwnsNone
    <3>2. proc' = [p \in Pid |-> proc'[p]] /\ proc = [p \in Pid |-> proc[p]]
      BY DEF Over, IInv, TypeInv
    <3> QED BY <3>1, <3>2
  <2>2. lock' = lock
    BY <1>2, <1>7, QuietOwnsNone
  <2>3. TypeInv'
    BY <1>2, <1>3, <1>5, <1>6, <2>1, <2>2 DEF IInv, TypeInv
  <2> QED BY <1>1, <1>2, <1>3, <1>5, <1>6, <1>7, <2>1, <2>2, <2>3, QuietStep
<1>8. CASE at[l].step \in Busy
  <2>1. lock = l /\ \A p \in Pid : proc[p].owner \in {l, None}
    BY <1>8, Alone
  <2>2. ASSUME NEW p \in Pid, proc[p].owner = l
        PROVE  /\ proc'[p] \in ProcType /\ proc'[p].owner = None
               /\ proc'[p].name = proc[p].name \/ proc'[p] = Free
               /\ proc'[p].state = proc[p].state \/ proc'[p] = Free
               /\ proc'[p].signalled = proc[p].signalled \/ proc'[p] = Free
               /\ at[l].step = "record" /\ p = held[l][at[l].i] => proc'[p].lost \/ proc'[p] = Free
               /\ proc'[p].state # "zombie"
    <3>1. CASE proc[p].state = "zombie"
      <4>1. proc'[p] = Free
        BY <1>4, <2>2, <3>1
      <4> QED BY <4>1 DEF Free, ProcType
    <3>2. CASE proc[p].state # "zombie"
      <4> DEFINE b == at[l].step = "record" /\ p = held[l][at[l].i]
      <4>1. proc'[p] = [proc[p] EXCEPT !.owner = None, !.lost = b]
        BY <1>4, <2>2, <3>2
      <4>2. b \in BOOLEAN /\ proc[p] \in ProcType
        BY DEF IInv, TypeInv
      <4> HIDE DEF b
      <4>3. /\ proc'[p] \in ProcType /\ proc'[p].owner = None /\ proc'[p].name = proc[p].name
            /\ proc'[p].state = proc[p].state /\ proc'[p].signalled = proc[p].signalled
            /\ proc'[p].lost = b
        BY <4>1, <4>2 DEF ProcType
      <4> QED BY <3>2, <4>3 DEF b
    <3> QED BY <3>1, <3>2
  <2>3. ASSUME NEW p \in Pid
        PROVE  proc'[p] \in ProcType /\ proc'[p].owner = None
    <3>1. CASE proc[p].owner = l
      BY <2>2, <3>1
    <3>2. CASE proc[p].owner # l
      BY <1>4, <2>1, <3>2 DEF IInv, TypeInv
    <3> QED BY <3>1, <3>2
  <2>4. TypeInv'
    <3>1. proc' \in [Pid -> ProcType]
      <4>1. proc' = [p \in Pid |-> proc'[p]]
        BY DEF Over
      <4> QED BY <2>3, <4>1
    <3>2. lock' = None
      BY <1>2, <2>1
    <3> QED BY <1>2, <1>3, <1>5, <1>6, <3>1, <3>2 DEF IInv, TypeInv
  <2>5. ProcInv'
    <3> SUFFICES ASSUME NEW p \in Pid
                 PROVE  ProcOK(proc'[p])
      BY DEF ProcInv
    <3>1. ProcOK(proc[p])
      BY DEF IInv, ProcInv
    <3>2. CASE proc[p].owner # l
      BY <1>4, <3>1, <3>2
    <3>3. CASE proc[p].owner = l
      <4>1. None # l
        BY LauncherAssumption
      <4>2. CASE proc'[p] = Free
        BY <4>2 DEF ProcOK, Free, Running
      <4>3. CASE proc'[p] # Free
        <5>1. /\ proc'[p].name = proc[p].name /\ proc'[p].state = proc[p].state
              /\ proc'[p].signalled = proc[p].signalled /\ proc'[p].state # "zombie"
          BY <2>2, <3>3, <4>3
        <5>2. proc[p].state # "free" /\ proc[p].state # "other"
          BY <3>1, <3>3, <4>1 DEF ProcOK, Free
        <5> QED BY <3>1, <5>1, <5>2 DEF ProcOK, Running
      <4> QED BY <4>2, <4>3
    <3> QED BY <3>2, <3>3
  <2>6. OwnedInv' /\ OnlyStaleSignalled'
    <3>1. OwnedInv'
      BY <2>3, LauncherAssumption DEF OwnedInv
    <3>2. ASSUME NEW p \in Pid, proc'[p].signalled
          PROVE  proc'[p].state # "other"
      BY <2>5, <3>2 DEF ProcInv, ProcOK
    <3> QED BY <2>3, <3>1, <3>2 DEF OnlyStaleSignalled
  <2>7. OrphansAccounted'
    <3> SUFFICES ASSUME NEW p \in Pid, proc'[p].state \in Running
                 PROVE  file[proc'[p].name] = p \/ proc'[p].signalled \/ proc'[p].lost
      BY <1>2, <2>3 DEF OrphansAccounted, Running
    <3>1. CASE proc[p].owner # l
      BY <1>4, <2>1, <3>1 DEF IInv, OrphansAccounted, Running
    <3>2. CASE proc[p].owner = l
      <4>1. PICK j \in 1..N : Live(l, j) /\ held[l][j] = p
        BY <3>2 DEF IInv, OwnedInv
      <4>2. StepOK(l) /\ HeldOK(l) /\ FileOK(l)
        BY DEF IInv, LauncherOK
      <4>3. proc[p].name = Names[j]
        BY <4>1, <4>2 DEF HeldOK
      <4>4. proc'[p] # Free
        BY DEF Free, Running
      <4>5. CASE Named(l, j)
        BY <2>2, <3>2, <4>1, <4>2, <4>3, <4>4, <4>5 DEF FileOK
      <4>6. CASE ~Named(l, j)
        <5>1. at[l].step = "record" /\ j = at[l].i
          BY <4>1, <4>2, <4>6, <1>8 DEF Named, Live, StepOK, IInv, TypeInv
        <5> QED BY <2>2, <3>2, <4>1, <4>4, <5>1
      <4> QED BY <4>5, <4>6
    <3> QED BY <3>1, <3>2
  <2>8. LauncherOK(l)'
    BY <1>1, <1>3, <1>5, QuietOK
  <2> QED BY <1>1, <1>2, <1>3, <1>5, <1>8, <2>1, <2>4, <2>5, <2>6, <2>7, <2>8, SoloStep
<1> QED BY <1>7, <1>8 DEF IInv, TypeInv

-----------------------------------------------------------------------------
\* The steps of a launcher at work that leave the processes alone.

\* The steps of a launcher at work.
LEMMA BusySteps ==
  /\ \A s \in {"signal", "remove", "ports", "spawn", "record", "health", "serve", "running", "stop"} :
       s \in Busy /\ s \notin Quiet
  /\ "idle" \in Quiet /\ "idle" \notin Busy /\ "failed" \in Quiet /\ "failed" \notin Busy
  BY DEF Busy, Quiet, Cleaning, Launching

\* The children and their states are those of before.
LEMMA SameProcs ==
  ASSUME IInv, NEW l \in Launcher, UNCHANGED <<proc, held>>,
         \A k \in Launcher \ {l} : at'[k] = at[k],
         at[l].step \in Busy \ {"stop"}, at'[l].step # "stop"
  PROVE  ProcInv' /\ OwnedInv' /\ OnlyStaleSignalled'
<1>1. ProcInv'
  BY DEF IInv, ProcInv
<1>2. OwnedInv'
  <2>1. \A k \in Launcher, j \in 1..N : Live(k, j) => Live(k, j)'
    BY DEF Live
  <2> QED BY <2>1 DEF IInv, OwnedInv
<1>3. OnlyStaleSignalled'
  BY Alone DEF IInv, OnlyStaleSignalled
<1> QED BY <1>1, <1>2, <1>3

\* The pid file that is removed names no sidecar, or one that was told to stop.
LEMMA RemoveStaleKeeps ==
  ASSUME IInv, NEW l \in Launcher, RemoveStale(l)
  PROVE  IInv'
<1> DEFINE i == at[l].i
           n == Names[i]
<1>1. /\ at[l].step = "remove" /\ at[l].step \in Busy \ {"stop"}
      /\ file' = [file EXCEPT ![n] = None] /\ UNCHANGED <<proc, lock, held, port>>
  BY BusySteps DEF RemoveStale
<1>2. LauncherOK(l) /\ i \in 1..N /\ Len(held[l]) = 0
  BY <1>1 DEF IInv, LauncherOK, StepOK, Cleaning
<1>3. /\ at' \in [Launcher -> [step : Quiet \cup Busy, i : Nat]]
      /\ \A k \in Launcher \ {l} : at'[k] = at[k]
      /\ \/ i = N /\ at'[l].step = "ports"
         \/ i # N /\ at'[l].step = "signal" /\ at'[l].i = i + 1
  <2>1. CASE i = N
    <3>1. Go(l, "ports", 0)
      BY <2>1, Zenon DEF RemoveStale, N
    <3> QED BY <2>1, <3>1, BusySteps, GoMoves DEF IInv
  <2>2. CASE i # N
    <3>1. Go(l, "signal", i + 1) /\ i + 1 \in Nat
      BY <1>2, <2>2 DEF RemoveStale, N
    <3> QED BY <2>2, <3>1, BusySteps, GoMoves DEF IInv
  <2> QED BY <2>1, <2>2
<1>4. TypeInv'
  BY <1>1, <1>3 DEF IInv, TypeInv
<1>5. LauncherOK(l)'
  <2>1. StepOK(l)'
    BY <1>1, <1>2, <1>3, NameFacts DEF StepOK, Cleaning, Quiet
  <2>2. \A j : ~Live(l, j)'
    BY <1>1, <1>2 DEF Live
  <2>3. CleanOK(l)'
    <3> SUFFICES ASSUME NEW j \in 1..N, j # i => j < i
                 PROVE  file'[Names[j]] = None
      BY <1>2, <1>3, NameFacts DEF CleanOK, Cleaning, Launching
    <3>1. j # i => file[Names[j]] = None
      BY <1>1, <1>2 DEF LauncherOK, CleanOK, Cleaning
    <3> QED BY <1>1, <3>1, NameFacts DEF IInv, TypeInv
  <2> QED BY <1>3, <2>1, <2>2, <2>3 DEF LauncherOK, HeldOK, FileOK, RemoveOK, PortOK, Named,
          Launching
<1>6. OrphansAccounted'
  <2> SUFFICES ASSUME NEW p \in Pid, Orphan(proc[p])
               PROVE  file'[proc[p].name] = p \/ proc[p].signalled \/ proc[p].lost
    <3>1. \A p \in Pid : proc[p].owner = None
      <4>1. \A p \in Pid : proc[p].owner \in {l, None}
        BY <1>1, Alone
      <4> QED BY <1>2, <4>1 DEF IInv, OwnedInv, Live
    <3> QED BY <1>1, <3>1 DEF OrphansAccounted, Orphan, Running
  <2>1. file[proc[p].name] = p \/ proc[p].signalled \/ proc[p].lost
    BY DEF IInv, OrphansAccounted, Orphan, Running
  <2>2. proc[p].name = n /\ file[n] = p => proc[p].signalled
    BY <1>1, <1>2 DEF LauncherOK, RemoveOK
  <2> QED BY <1>1, <2>1, <2>2 DEF IInv, TypeInv
<1>7. lock' = IF at'[l].step \in Busy THEN l ELSE None
  BY <1>1, <1>3, BusySteps, Alone
<1> QED BY <1>1, <1>3, <1>4, <1>5, <1>6, <1>7, BusySteps, SameProcs, SoloStep

\* The launcher chooses ports: nobody who listens has them.
LEMMA ChoosePortsKeeps ==
  ASSUME IInv, NEW l \in Launcher, ChoosePorts(l)
  PROVE  IInv'
<1>1. /\ at[l].step = "ports" /\ at[l].step \in Busy \ {"stop"} /\ Go(l, "spawn", 1)
      /\ UNCHANGED <<proc, file, lock, held>>
  BY BusySteps DEF ChoosePorts
<1>2. PICK o \in [Name -> {"default"} \cup FreePort] :
        /\ \A n \in Name : o[n] \in Ports(n)
        /\ port' = [port EXCEPT ![l] = o]
  BY DEF ChoosePorts
<1>3. /\ at' \in [Launcher -> [step : Quiet \cup Busy, i : Nat]]
      /\ at'[l].step = "spawn" /\ at'[l].i = 1 /\ \A k \in Launcher \ {l} : at'[k] = at[k]
  BY <1>1, BusySteps, GoMoves DEF IInv
<1>4. TypeInv'
  BY <1>1, <1>2, <1>3 DEF IInv, TypeInv
<1>5. LauncherOK(l) /\ Len(held[l]) = 0
  BY <1>1 DEF IInv, LauncherOK, StepOK
<1>6. LauncherOK(l)'
  <2>1. StepOK(l)'
    BY <1>1, <1>3, <1>5, NameFacts DEF StepOK, Cleaning, Quiet
  <2>2. \A j : ~Live(l, j)' /\ ~Named(l, j)
    BY <1>1, <1>5 DEF Live, Named
  <2>3. CleanOK(l)'
    BY <1>1, <1>3, <1>5, <2>2 DEF LauncherOK, CleanOK, Launching, Cleaning
  <2>4. \A p \in Pid, n \in Name : ~Listens(p, n, o[n])
    BY <1>2 DEF Ports
  <2>5. PortOK(l)'
    BY <1>1, <1>2, <2>4 DEF IInv, TypeInv, PortOK, Listens
  <2> QED BY <1>3, <2>1, <2>2, <2>3, <2>5 DEF LauncherOK, HeldOK, FileOK, RemoveOK, Named
<1>7. OrphansAccounted'
  BY <1>1 DEF IInv, OrphansAccounted, Holds
<1>8. lock' = IF at'[l].step \in Busy THEN l ELSE None
  BY <1>1, <1>3, BusySteps, Alone
<1> QED BY <1>1, <1>3, <1>4, <1>6, <1>7, <1>8, SameProcs, SoloStep

\* The pid file of the child that was spawned is written: no orphan had that file.
LEMMA RecordKeeps ==
  ASSUME IInv, NEW l \in Launcher, Record(l)
  PROVE  IInv'
<1> DEFINE i == at[l].i
<1>1. /\ at[l].step = "record" /\ at[l].step \in Busy \ {"stop"}
      /\ file' = [file EXCEPT ![Names[i]] = held[l][i]] /\ UNCHANGED <<proc, lock, held, port>>
  BY BusySteps DEF Record
<1>2. LauncherOK(l) /\ i \in 1..N /\ Len(held[l]) = i /\ held[l][i] \in Pid
  BY <1>1 DEF IInv, LauncherOK, StepOK, TypeInv
<1>3. /\ at' \in [Launcher -> [step : Quiet \cup Busy, i : Nat]]
      /\ \A k \in Launcher \ {l} : at'[k] = at[k]
      /\ \/ i = 1 /\ at'[l].step = "health" /\ at'[l].i = 1
         \/ i = N /\ i # 1 /\ at'[l].step = "health" /\ at'[l].i = 2
         \/ i # 1 /\ i # N /\ at'[l].step = "spawn" /\ at'[l].i = i + 1
  <2>1. CASE i = 1
    <3>1. Go(l, "health", 1)
      BY <2>1, Zenon DEF Record
    <3> QED BY <2>1, <3>1, BusySteps, GoMoves DEF IInv
  <2>2. CASE i = N /\ i # 1
    <3>1. Go(l, "health", 2)
      BY <2>2, Zenon DEF Record, N
    <3> QED BY <2>2, <3>1, BusySteps, GoMoves DEF IInv
  <2>3. CASE i # N /\ i # 1
    <3>1. Go(l, "spawn", i + 1) /\ i + 1 \in Nat
      BY <1>2, <2>3 DEF Record, N
    <3> QED BY <2>3, <3>1, BusySteps, GoMoves DEF IInv
  <2> QED BY <2>1, <2>2, <2>3
<1>4. TypeInv'
  BY <1>1, <1>2, <1>3 DEF IInv, TypeInv
<1>5. \A j \in 1..N : /\ Live(l, j) <=> j <= i
                      /\ Named(l, j) <=> j < i
                      /\ Live(l, j)' <=> j <= i
                      /\ Named(l, j)' <=> j <= i
  BY <1>1, <1>2, <1>3 DEF Live, Named
<1>6. LauncherOK(l)'
  <2>1. StepOK(l)'
    BY <1>1, <1>2, <1>3, NameFacts DEF StepOK, Cleaning, Quiet
  <2>2. HeldOK(l)'
    BY <1>1, <1>2, <1>5 DEF LauncherOK, HeldOK
  <2>3. \A j \in 1..N : j # i => file'[Names[j]] = file[Names[j]]
    BY <1>1, <1>2, NameFacts DEF IInv, TypeInv
  <2>4. file'[Names[i]] = held[l][i]
    BY <1>1, <1>2, NameFacts DEF IInv, TypeInv
  <2>5. FileOK(l)'
    BY <1>1, <1>2, <1>5, <2>3, <2>4 DEF LauncherOK, FileOK
  <2>6. CleanOK(l)'
    BY <1>1, <1>2, <1>3, <1>5, <2>3 DEF LauncherOK, CleanOK, Launching, Cleaning
  <2>7. PortOK(l)'
    BY <1>1, <1>2 DEF LauncherOK, PortOK, Listens, Launching
  <2> QED BY <1>3, <2>1, <2>2, <2>5, <2>6, <2>7 DEF LauncherOK, RemoveOK
<1>7. OrphansAccounted'
  <2>1. file[Names[i]] = None
    BY <1>1, <1>2, <1>5 DEF LauncherOK, CleanOK, Launching
  <2>2. \A n \in Name : \A p \in Pid : file[n] = p => file'[n] = p
    BY <1>1, <1>2, <2>1, NameFacts, LauncherAssumption DEF IInv, TypeInv
  <2>3. \A p \in Pid : proc[p].state \in Running => proc[p].name \in Name
    BY DEF IInv, ProcInv, ProcOK
  <2> QED BY <1>1, <2>2, <2>3 DEF IInv, OrphansAccounted, Holds, Running
<1>8. lock' = IF at'[l].step \in Busy THEN l ELSE None
  BY <1>1, <1>3, BusySteps, Alone
<1> QED BY <1>1, <1>3, <1>4, <1>6, <1>7, <1>8, SameProcs, SoloStep

\* wait_for_health succeeds, and the server task runs.
LEMMA HealthServeKeeps ==
  ASSUME IInv, NEW l \in Launcher, Health(l) \/ Serve(l)
  PROVE  IInv'
<1> DEFINE i == at[l].i
<1>1. /\ at[l].step \in {"health", "serve"} /\ at[l].step \in Busy \ {"stop"}
      /\ UNCHANGED <<proc, file, lock, held, port>>
  BY BusySteps DEF Health, Serve
<1>2. LauncherOK(l) /\ StepOK(l)
  BY DEF IInv, LauncherOK
<1>3. /\ at' \in [Launcher -> [step : Quiet \cup Busy, i : Nat]]
      /\ \A k \in Launcher \ {l} : at'[k] = at[k]
      /\ \/ at[l].step = "health" /\ i = 1 /\ at'[l].step = "spawn" /\ at'[l].i = 2
         \/ at[l].step = "health" /\ i # 1 /\ i = N /\ at'[l].step = "serve"
         \/ /\ at[l].step = "health" /\ i # 1 /\ i # N
            /\ at'[l].step = "health" /\ at'[l].i = i + 1
         \/ at[l].step = "serve" /\ at'[l].step = "running"
  <2>1. CASE Health(l) /\ i = 1
    <3>1. Go(l, "spawn", 2) /\ at[l].step = "health"
      BY <2>1, Zenon DEF Health
    <3> QED BY <2>1, <3>1, BusySteps, GoMoves DEF IInv
  <2>2. CASE Health(l) /\ i # 1 /\ i = N
    <3>1. Go(l, "serve", 0) /\ at[l].step = "health"
      BY <2>2, Zenon DEF Health, N
    <3> QED BY <2>2, <3>1, BusySteps, GoMoves DEF IInv
  <2>3. CASE Health(l) /\ i # 1 /\ i # N
    <3>1. Go(l, "health", i + 1) /\ at[l].step = "health"
      BY <2>3, Zenon DEF Health, N
    <3>2. i + 1 \in Nat
      BY DEF IInv, TypeInv
    <3> QED BY <2>3, <3>1, <3>2, BusySteps, GoMoves DEF IInv
  <2>4. CASE Serve(l)
    <3>1. Go(l, "running", 0) /\ at[l].step = "serve"
      BY <2>4 DEF Serve
    <3> QED BY <3>1, BusySteps, GoMoves DEF IInv
  <2> QED BY <2>1, <2>2, <2>3, <2>4
<1>4. TypeInv'
  BY <1>1, <1>3 DEF IInv, TypeInv
<1>5. \A j : (Live(l, j)' <=> Live(l, j)) /\ (Named(l, j)' <=> Named(l, j))
  BY <1>1, <1>3 DEF Live, Named
<1>6. LauncherOK(l)'
  <2>1. StepOK(l)'
    BY <1>1, <1>2, <1>3, NameFacts DEF StepOK, Cleaning, Quiet
  <2>2. HeldOK(l)' /\ FileOK(l)'
    BY <1>1, <1>2, <1>5 DEF LauncherOK, HeldOK, FileOK
  <2>3. CleanOK(l)'
    BY <1>1, <1>2, <1>3, <1>5 DEF LauncherOK, CleanOK, Launching, Cleaning
  <2>4. PortOK(l)'
    BY <1>1, <1>2 DEF LauncherOK, PortOK, Listens, Launching
  <2> QED BY <1>3, <2>1, <2>2, <2>3, <2>4 DEF LauncherOK, RemoveOK
<1>7. OrphansAccounted'
  BY <1>1 DEF IInv, OrphansAccounted, Holds
<1>8. lock' = IF at'[l].step \in Busy THEN l ELSE None
  BY <1>1, <1>3, BusySteps, Alone
<1> QED BY <1>1, <1>3, <1>4, <1>6, <1>7, <1>8, BusySteps, SameProcs, SoloStep

-----------------------------------------------------------------------------
\* The steps of a launcher at work that signal, kill or start processes.

\* The free pid.
LEMMA FreeFacts ==
  /\ Free \in ProcType /\ ProcOK(Free) /\ Free.owner = None /\ ~Free.signalled
  /\ Free.state = "free" /\ Free.state \notin Running
  BY DEF Free, ProcType, ProcOK, Running

\* SIGTERM to process r of owner o: it is told to stop, or it exits, or it had exited.
LEMMA TerminatedFacts ==
  ASSUME NEW r \in ProcType, ProcOK(r), r.state \in Running \cup {"zombie"}
  PROVE  /\ Terminated(r) \in ProcType /\ ProcOK(Terminated(r))
         /\ \/ /\ Terminated(r).owner = r.owner /\ Terminated(r).name = r.name
               /\ Terminated(r).lost = r.lost
               /\ Terminated(r).state \in {"listening", "draining", "zombie"}
               /\ Terminated(r).state \in Running => Terminated(r).signalled
            \/ r.owner = None /\ Terminated(r) = Free
<1> DEFINE s == [r EXCEPT !.signalled = TRUE]
<1>1. /\ s \in ProcType /\ s.owner = r.owner /\ s.name = r.name /\ s.lost = r.lost
      /\ s.state = r.state /\ s.signalled
  BY DEF ProcType
<1>2. CASE r.state = "zombie"
  BY <1>2 DEF Terminated, Running
<1>3. CASE r.state = "starting" /\ r.owner = None
  BY <1>1, <1>3, FreeFacts DEF Terminated, Exited
<1>4. CASE r.state = "starting" /\ r.owner # None
  <2> DEFINE z == [s EXCEPT !.state = "zombie"]
  <2>1. Terminated(r) = z
    BY <1>1, <1>4, Zenon DEF Terminated, Exited
  <2>2. /\ z \in ProcType /\ z.owner = r.owner /\ z.name = r.name /\ z.lost = r.lost
        /\ z.state = "zombie"
    BY <1>1 DEF ProcType
  <2> HIDE DEF z
  <2> QED BY <1>4, <2>1, <2>2 DEF ProcOK, Running
<1>5. CASE r.state \in {"listening", "draining"}
  <2>1. Terminated(r) = s
    BY <1>5, Zenon DEF Terminated
  <2> HIDE DEF s
  <2> QED BY <1>1, <1>5, <2>1 DEF ProcOK, Running
<1> QED BY <1>2, <1>3, <1>4, <1>5 DEF Running

\* cleanup_stale_children signals the sidecar that its pid file names.
LEMMA SignalStaleKeeps ==
  ASSUME IInv, NEW l \in Launcher, SignalStale(l)
  PROVE  IInv'
<1> DEFINE i == at[l].i
           n == Names[i]
<1>1. /\ at[l].step = "signal" /\ at[l].step \in Busy /\ Go(l, "remove", i)
      /\ UNCHANGED <<file, lock, held, port>>
  BY BusySteps DEF SignalStale
<1>2. LauncherOK(l) /\ i \in 1..N /\ Len(held[l]) = 0 /\ n \in Name
  BY <1>1, NameFacts DEF IInv, LauncherOK, StepOK, Cleaning
<1>3. /\ at' \in [Launcher -> [step : Quiet \cup Busy, i : Nat]]
      /\ at'[l].step = "remove" /\ at'[l].i = i /\ \A k \in Launcher \ {l} : at'[k] = at[k]
  BY <1>1, <1>2, BusySteps, GoMoves DEF IInv
<1>4. \A p \in Pid : proc[p].owner = None
  <2>1. \A p \in Pid : proc[p].owner \in {l, None}
    BY <1>1, Alone
  <2> QED BY <1>2, <2>1 DEF IInv, OwnedInv, Live
<1>5. ASSUME NEW p \in Pid
      PROVE  /\ proc'[p] \in ProcType /\ ProcOK(proc'[p]) /\ proc'[p].owner = None
             /\ \/ proc'[p] = proc[p] /\ ~(p = file[n] /\ Orphan(proc[p]) /\ proc[p].name = n)
                \/ proc'[p] = Free
                \/ /\ proc'[p].signalled /\ proc'[p].state # "other"
  <2>1. proc[p] \in ProcType /\ ProcOK(proc[p])
    BY DEF IInv, TypeInv, ProcInv
  <2>2. CASE p = file[n] /\ StaleRunning(p, n)
    <3>1. proc'[p] = Terminated(proc[p])
      BY <2>2 DEF SignalStale
    <3>2. proc[p].state \in Running
      BY <1>2, <2>1, <2>2, NameFacts DEF StaleRunning, Alive, Running, ProcOK
    <3>3. /\ proc'[p] \in ProcType /\ ProcOK(proc'[p])
          /\ \/ proc'[p] = Free
             \/ /\ proc'[p].owner = None
                /\ proc'[p].state \in {"listening", "draining", "zombie"}
                /\ proc'[p].state \in Running => proc'[p].signalled
      BY <1>4, <2>1, <3>1, <3>2, TerminatedFacts
    <3> QED BY <3>3, FreeFacts DEF ProcOK, Running
  <2>3. CASE ~(p = file[n] /\ StaleRunning(p, n))
    <3>1. proc'[p] = proc[p]
      BY <2>3 DEF SignalStale
    <3>2. ~(p = file[n] /\ Orphan(proc[p]) /\ proc[p].name = n)
      BY <2>3 DEF StaleRunning, Alive, Orphan, Running
    <3> QED BY <1>4, <2>1, <3>1, <3>2
  <2> QED BY <2>2, <2>3
<1>6. TypeInv'
  <2>1. proc' \in [Pid -> ProcType]
    <3>1. proc' = [p \in Pid |-> proc'[p]]
      BY DEF SignalStale
    <3> QED BY <1>5, <3>1
  <2> QED BY <1>1, <1>3, <2>1 DEF IInv, TypeInv
<1>7. LauncherOK(l)'
  <2>1. StepOK(l)'
    BY <1>1, <1>2, <1>3, NameFacts DEF StepOK, Cleaning, Quiet
  <2>2. \A j : ~Live(l, j)'
    BY <1>1, <1>2 DEF Live
  <2>3. CleanOK(l)'
    BY <1>1, <1>2, <1>3 DEF LauncherOK, CleanOK, Cleaning, Launching
  <2>4. RemoveOK(l)'
    <3> SUFFICES ASSUME NEW p \in Pid, file[n] = p, Orphan(proc'[p]), proc'[p].name = n
                 PROVE  proc'[p].signalled
      BY <1>1, <1>3 DEF RemoveOK
    <3> QED BY <1>5, FreeFacts DEF Orphan
  <2> QED BY <1>3, <2>1, <2>2, <2>3, <2>4 DEF LauncherOK, HeldOK, FileOK, PortOK, Named,
          Launching
<1>8. ProcInv' /\ OwnedInv' /\ OnlyStaleSignalled'
  <2>1. None # l /\ None \notin Launcher
    BY LauncherAssumption
  <2>2. ASSUME NEW p \in Pid, proc'[p].signalled
        PROVE  proc'[p].state # "other"
    BY <1>5, <2>2 DEF ProcOK
  <2> QED BY <1>5, <2>1, <2>2 DEF ProcInv, OwnedInv, OnlyStaleSignalled
<1>9. OrphansAccounted'
  <2> SUFFICES ASSUME NEW p \in Pid, proc'[p].state \in Running
               PROVE  file[proc'[p].name] = p \/ proc'[p].signalled \/ proc'[p].lost
    BY <1>1, <1>5 DEF OrphansAccounted, Running
  <2> QED BY <1>4, <1>5, FreeFacts DEF IInv, OrphansAccounted, Running
<1>10. lock' = IF at'[l].step \in Busy THEN l ELSE None
  BY <1>1, <1>3, BusySteps, Alone
<1> QED BY <1>1, <1>3, <1>6, <1>7, <1>8, <1>9, <1>10, SoloStep

\* The first m children of l are told to stop, and those after them were killed.
LEMMA StopsKeep ==
  ASSUME IInv, NEW l \in Launcher, at[l].step \in Busy \ {"stop"},
         NEW m \in 0..Len(held[l]), \A j \in 1..m : Named(l, j),
         Go(l, "stop", 1), UNCHANGED <<file, lock, port>>,
         held' \in [Launcher -> Seq(Pid)], \A k \in Launcher \ {l} : held'[k] = held[k],
         Len(held'[l]) = m, \A j \in 1..m : held'[l][j] = held[l][j],
         proc' = [p \in Pid |-> IF \E j \in 1..m : held[l][j] = p THEN Terminated(proc[p])
                                ELSE IF Holds(l, p) THEN Free ELSE proc[p]]
  PROVE  IInv'
<1>1. LauncherOK(l) /\ HeldOK(l) /\ Len(held[l]) \in 0..N
  BY NameFacts DEF IInv, LauncherOK, StepOK, Busy, Cleaning, Launching
<1>2. /\ at' \in [Launcher -> [step : Quiet \cup Busy, i : Nat]]
      /\ at'[l].step = "stop" /\ at'[l].i = 1 /\ \A k \in Launcher \ {l} : at'[k] = at[k]
  BY BusySteps, GoMoves DEF IInv
<1>3. \A j : Live(l, j) <=> j \in 1..Len(held[l])
  BY DEF Live
<1>4. \A p \in Pid : /\ proc[p].owner \in {l, None}
                     /\ Holds(l, p) <=> proc[p].owner = l
  <2>1. ASSUME NEW p \in Pid, Holds(l, p)
        PROVE  proc[p].owner = l
    <3>1. PICK j \in 1..Len(held[l]) : held[l][j] = p
      BY <2>1 DEF Holds
    <3>2. j \in 1..N /\ Live(l, j)
      BY <1>1, <1>3, NameFacts
    <3> QED BY <1>1, <3>1, <3>2 DEF HeldOK
  <2>2. ASSUME NEW p \in Pid, proc[p].owner = l
        PROVE  Holds(l, p)
    BY <1>3, <2>2 DEF Holds, IInv, OwnedInv
  <2> QED BY <2>1, <2>2, Alone
<1>5. ASSUME NEW j \in 1..m
      PROVE  LET p == held[l][j] IN
             /\ p \in Pid /\ proc'[p] = Terminated(proc[p])
             /\ proc'[p] \in ProcType /\ ProcOK(proc'[p])
             /\ proc'[p].owner = l /\ proc'[p].name = Names[j]
             /\ proc'[p].state \in {"listening", "draining", "zombie"}
  <2> DEFINE p == held[l][j]
  <2>1. p \in Pid /\ j \in 1..N
    BY <1>1, NameFacts DEF IInv, TypeInv
  <2>2. proc'[p] = Terminated(proc[p])
    BY <2>1
  <2>3. /\ proc[p].owner = l /\ proc[p].name = Names[j]
        /\ proc[p].state \in Running \cup {"zombie"}
    <3>1. Live(l, j)
      BY <1>1, <1>3
    <3> QED BY <1>1, <2>1, <3>1 DEF HeldOK
  <2>4. proc[p] \in ProcType /\ ProcOK(proc[p]) /\ l # None
    BY <2>1, LauncherAssumption DEF IInv, TypeInv, ProcInv
  <2> HIDE DEF p
  <2>5. QED
    BY <2>1, <2>2, <2>3, <2>4, TerminatedFacts DEF p
<1>6. ASSUME NEW p \in Pid, ~\E j \in 1..m : held[l][j] = p
      PROVE  /\ proc'[p] \in ProcType /\ ProcOK(proc'[p]) /\ proc'[p].owner = None
             /\ proc'[p] = Free \/ proc'[p] = proc[p]
  BY <1>4, <1>6, FreeFacts DEF IInv, TypeInv, ProcInv
<1>7. \A p \in Pid : proc'[p] \in ProcType /\ ProcOK(proc'[p]) /\ proc'[p].owner \in {l, None}
  BY <1>5, <1>6
<1>8. TypeInv'
  <2>1. proc' \in [Pid -> ProcType]
    BY <1>7
  <2> QED BY <1>2, <2>1 DEF IInv, TypeInv
<1>9. \A j : (Live(l, j)' <=> j \in 1..m) /\ (Named(l, j)' <=> j \in 1..m)
  BY <1>2 DEF Live, Named
<1>10. LauncherOK(l)'
  <2>1. StepOK(l)'
    BY <1>1, <1>2, NameFacts DEF StepOK, Cleaning, Quiet
  <2>2. HeldOK(l)'
    <3> SUFFICES ASSUME NEW j \in 1..m
                 PROVE  /\ proc'[held'[l][j]].owner = l
                        /\ proc'[held'[l][j]].name = Names[j]
                        /\ proc'[held'[l][j]].state \in Running \cup {"zombie"}
      BY <1>9 DEF HeldOK
    <3>1. held'[l][j] = held[l][j]
      OBVIOUS
    <3> QED BY <1>5, <3>1 DEF Running
  <2>3. FileOK(l)'
    BY <1>1, <1>9 DEF LauncherOK, FileOK
  <2> QED BY <1>2, <2>1, <2>2, <2>3 DEF LauncherOK, CleanOK, RemoveOK, PortOK, Cleaning, Launching
<1>11. OwnedInv'
  <2> SUFFICES ASSUME NEW p \in Pid, proc'[p].owner = l
               PROVE  \E j \in 1..N : Live(l, j)' /\ held'[l][j] = p
    BY <1>7, LauncherAssumption DEF OwnedInv
  <2>1. PICK j \in 1..m : held[l][j] = p
    BY <1>6, LauncherAssumption
  <2> QED BY <1>1, <1>9, <2>1, NameFacts
<1>12. OnlyStaleSignalled'
  <2>1. \A p \in Pid : proc'[p].signalled => proc'[p].state # "other"
    BY <1>7 DEF ProcOK
  <2> QED BY <1>2, <1>7, <2>1 DEF OnlyStaleSignalled
<1>13. OrphansAccounted'
  <2>1. ASSUME NEW p \in Pid, proc'[p].owner # None
        PROVE  proc'[p].owner = l /\ \E j \in 1..Len(held'[l]) : held'[l][j] = p
    <3>1. \E j \in 1..m : held[l][j] = p
      BY <1>6, <2>1
    <3> QED BY <1>7, <2>1, <3>1
  <2>2. ASSUME NEW p \in Pid, proc'[p].owner = None, proc'[p].state \in Running
        PROVE  file[proc'[p].name] = p \/ proc'[p].signalled \/ proc'[p].lost
    <3>1. ~\E j \in 1..m : held[l][j] = p
      <4> SUFFICES ASSUME NEW j \in 1..m, held[l][j] = p
                   PROVE  FALSE
        OBVIOUS
      <4>1. proc'[p].owner = l
        BY <1>5
      <4> QED BY <2>2, <4>1, LauncherAssumption
    <3>2. proc'[p] = proc[p]
      BY <1>6, <2>2, <3>1, FreeFacts
    <3> QED BY <2>2, <3>2 DEF IInv, OrphansAccounted, Running
  <2> SUFFICES ASSUME NEW p \in Pid, proc'[p].state \in Running
               PROVE  (IF proc[p].owner # None THEN Holds(proc[p].owner, p)
                       ELSE file[proc[p].name] = p \/ proc[p].signalled \/ proc[p].lost)'
    BY DEF OrphansAccounted, Running
  <2>3. CASE proc'[p].owner # None
    BY <2>1, <2>3 DEF Holds
  <2>4. CASE proc'[p].owner = None
    BY <2>2, <2>4
  <2> QED BY <2>3, <2>4
<1>14. lock' = IF at'[l].step \in Busy THEN l ELSE None
  BY <1>2, BusySteps, Alone
<1>15. ProcInv'
  BY <1>7 DEF ProcInv
<1> QED BY <1>2, <1>8, <1>10, <1>11, <1>12, <1>13, <1>14, <1>15, SoloStep

\* stop_children, for a stack that runs or a launch that failed after its last child.
LEMMA StopAllKeeps ==
  ASSUME IInv, NEW l \in Launcher, TakeStack(l) \/ LaunchFails(l)
  PROVE  IInv'
<1>1. /\ at[l].step \in {"running", "health", "serve"} /\ at[l].step \in Busy \ {"stop"}
      /\ StopChildren(l)
  BY BusySteps DEF TakeStack, LaunchFails
<1>2. Len(held[l]) \in Nat /\ held \in [Launcher -> Seq(Pid)]
  BY DEF IInv, TypeInv
<1>3. \A j \in 1..Len(held[l]) : Named(l, j)
  BY <1>1 DEF Named, Live
<1>4. Len(held[l]) \in 0..Len(held[l])
  BY <1>2
<1>5. proc' = [p \in Pid |-> IF \E j \in 1..Len(held[l]) : held[l][j] = p THEN Terminated(proc[p])
                             ELSE IF Holds(l, p) THEN Free ELSE proc[p]]
  <2>1. proc' = [p \in Pid |-> IF Holds(l, p) THEN Terminated(proc[p]) ELSE proc[p]]
    BY <1>1 DEF StopChildren
  <2>2. \A p : Holds(l, p) <=> \E j \in 1..Len(held[l]) : held[l][j] = p
    BY DEF Holds
  <2> QED BY <2>1, <2>2
<1>6. Go(l, "stop", 1) /\ UNCHANGED <<file, lock, port, held>>
  BY <1>1 DEF StopChildren
<1> QED BY <1>1, <1>2, <1>3, <1>4, <1>5, <1>6, StopsKeep

\* A later sidecar cannot be spawned or recorded: those before it are stopped.
LEMMA LaterFailsKeeps ==
  ASSUME IInv, NEW l \in Launcher, SpawnFails(l), at[l].i # 1
  PROVE  IInv'
<1> DEFINE i == at[l].i
           before == SubSeq(held[l], 1, i - 1)
<1>1. at[l].step \in {"spawn", "record"} /\ at[l].step \in Busy \ {"stop"}
  BY BusySteps DEF SpawnFails
<1>2. i \in 1..N /\ Len(held[l]) = (IF at[l].step = "spawn" THEN i - 1 ELSE i)
  BY <1>1 DEF IInv, LauncherOK, StepOK
<1>3. held \in [Launcher -> Seq(Pid)] /\ held[l] \in Seq(Pid) /\ i - 1 \in 0..Len(held[l])
  BY <1>1, <1>2, NameFacts DEF IInv, TypeInv
<1>4. /\ before \in Seq(Pid) /\ Len(before) = i - 1
      /\ \A j \in 1..(i - 1) : before[j] = held[l][j]
  <2>1. \A j \in 1..(i - 1) : held[l][j] \in Pid
    BY <1>3
  <2>2. 1 \in Int /\ i - 1 \in Int
    BY <1>2, NameFacts
  <2> HIDE DEF i
  <2>3. /\ before \in Seq(Pid)
        /\ Len(before) = (IF 1 <= i - 1 THEN (i - 1) - 1 + 1 ELSE 0)
        /\ \A j \in 1..((i - 1) - 1 + 1) : before[j] = held[l][1 + j - 1]
    BY <1>3, <2>1, <2>2, SubSeqProperties
  <2> QED BY <1>2, <2>3, NameFacts
<1>5. /\ proc' = [p \in Pid |-> IF \E j \in 1..Len(before) : before[j] = p THEN Terminated(proc[p])
                                ELSE IF Holds(l, p) THEN Free ELSE proc[p]]
      /\ held' = [held EXCEPT ![l] = before]
      /\ Go(l, "stop", 1) /\ UNCHANGED <<file, lock, port>>
  BY Zenon DEF SpawnFails
<1>6. proc' = [p \in Pid |-> IF \E j \in 1..(i - 1) : held[l][j] = p THEN Terminated(proc[p])
                             ELSE IF Holds(l, p) THEN Free ELSE proc[p]]
  <2> HIDE DEF before
  <2>1. \A p : (\E j \in 1..Len(before) : before[j] = p) <=> \E j \in 1..(i - 1) : held[l][j] = p
    BY <1>4
  <2> QED BY <1>5, <2>1
<1>7. /\ held' \in [Launcher -> Seq(Pid)] /\ Len(held'[l]) = i - 1
      /\ \A k \in Launcher \ {l} : held'[k] = held[k]
      /\ \A j \in 1..(i - 1) : held'[l][j] = held[l][j]
  <2> HIDE DEF before
  <2> QED BY <1>3, <1>4, <1>5
<1>8. \A j \in 1..(i - 1) : Named(l, j)
  BY <1>1, <1>2, <1>3, NameFacts DEF Named, Live
<1> HIDE DEF i, before
<1> QED BY <1>1, <1>3, <1>5, <1>6, <1>7, <1>8, StopsKeep

\* A launch that is over: its children were freed before, or are freed with it.
LEMMA FailedKeeps ==
  ASSUME IInv, NEW l \in Launcher, at[l].step \in Busy, Failed(l), UNCHANGED file,
         proc' = [p \in Pid |-> proc'[p]],
         \A p \in Pid : \/ proc'[p] = Free
                        \/ proc'[p] = proc[p] /\ proc[p].owner = None
  PROVE  IInv'
<1> DEFINE s == IF l \in Desktop THEN "idle" ELSE "failed"
<1>1. s \in Quiet /\ s \notin Busy
  BY BusySteps
<1>2. /\ Go(l, s, 0) /\ lock' = None /\ held' = [held EXCEPT ![l] = <<>>]
      /\ port' = [port EXCEPT ![l] = [n \in Name |-> "default"]]
  BY DEF Failed
<1> HIDE DEF s
<1>3. /\ at' \in [Launcher -> [step : Quiet \cup Busy, i : Nat]] /\ at'[l].step = s
      /\ \A k \in Launcher \ {l} : at'[k] = at[k]
  BY <1>1, <1>2, GoMoves DEF IInv
<1>4. /\ held' \in [Launcher -> Seq(Pid)] /\ Len(held'[l]) = 0
      /\ \A k \in Launcher \ {l} : held'[k] = held[k]
  BY <1>2 DEF IInv, TypeInv
<1>5. port' \in [Launcher -> [Name -> {"default"} \cup FreePort]]
  BY <1>2 DEF IInv, TypeInv
<1>6. \A p \in Pid : proc'[p] \in ProcType /\ ProcOK(proc'[p]) /\ proc'[p].owner = None
  BY FreeFacts DEF IInv, TypeInv, ProcInv
<1>7. TypeInv'
  <2>1. proc' \in [Pid -> ProcType]
    BY <1>6
  <2> QED BY <1>2, <1>3, <1>4, <1>5, <2>1 DEF IInv, TypeInv
<1>8. ProcInv' /\ OwnedInv'
  BY <1>6, LauncherAssumption DEF ProcInv, OwnedInv
<1>9. OrphansAccounted'
  <2> SUFFICES ASSUME NEW p \in Pid, proc'[p].state \in Running
               PROVE  file[proc'[p].name] = p \/ proc'[p].signalled \/ proc'[p].lost
    BY <1>6 DEF OrphansAccounted, Running
  <2>1. proc'[p] = proc[p] /\ proc[p].owner = None
    BY FreeFacts
  <2> QED BY <2>1 DEF IInv, OrphansAccounted, Running
<1>10. OnlyStaleSignalled'
  BY <1>6 DEF OnlyStaleSignalled, ProcOK
<1>11. LauncherOK(l)'
  BY <1>1, <1>3, <1>4, QuietOK
<1> QED BY <1>1, <1>2, <1>3, <1>4, <1>7, <1>8, <1>9, <1>10, <1>11, SoloStep

\* kill_on_drop: a launch that fails before or with antd, or after the last child.
LEMMA DroppedKeeps ==
  ASSUME IInv, NEW l \in Launcher, ClientFails(l) \/ (SpawnFails(l) /\ at[l].i = 1)
  PROVE  IInv'
<1>1. at[l].step \in {"ports", "serve", "spawn", "record"} /\ at[l].step \in Busy \ {"stop"}
  BY BusySteps DEF ClientFails, SpawnFails
<1>2. Dropped(l)
  <2>1. CASE ClientFails(l)
    BY <2>1 DEF ClientFails
  <2>2. CASE SpawnFails(l) /\ at[l].i = 1
    BY <2>2, Zenon DEF SpawnFails
  <2> QED BY <2>1, <2>2
<1>3. ASSUME NEW p \in Pid
      PROVE  proc'[p] = Free \/ (proc'[p] = proc[p] /\ proc[p].owner = None)
  <2>1. proc'[p] = IF Holds(l, p) THEN Free ELSE proc[p]
    BY <1>2 DEF Dropped
  <2>2. proc[p].owner = l => Holds(l, p)
    BY DEF IInv, OwnedInv, Live, Holds
  <2> QED BY <1>1, <2>1, <2>2, Alone
<1>4. proc' = [p \in Pid |-> proc'[p]]
  BY <1>2 DEF Dropped
<1> QED BY <1>1, <1>2, <1>3, <1>4, FailedKeeps DEF Dropped

\* stop_children has waited for every child.
LEMMA StopEndsKeeps ==
  ASSUME IInv, NEW l \in Launcher, StopEnds(l)
  PROVE  IInv'
<1>1. /\ at[l].step = "stop" /\ at[l].step \in Busy /\ at[l].i > Len(held[l])
      /\ Failed(l) /\ UNCHANGED <<proc, file>>
  BY BusySteps DEF StopEnds
<1>2. \A j : ~Live(l, j)
  BY <1>1 DEF Live, IInv, TypeInv
<1>3. \A p \in Pid : proc[p].owner = None
  <2>1. \A p \in Pid : proc[p].owner \in {l, None}
    BY <1>1, Alone
  <2> QED BY <1>2, <2>1 DEF IInv, OwnedInv
<1>4. proc' = [p \in Pid |-> proc'[p]]
  BY <1>1 DEF IInv, TypeInv
<1> QED BY <1>1, <1>3, <1>4, FailedKeeps

\* stop_children reaps a child and removes its pid file, which names no other sidecar.
LEMMA StopOneKeeps ==
  ASSUME IInv, NEW l \in Launcher, StopOne(l)
  PROVE  IInv'
<1> DEFINE i == at[l].i
           q == held[l][i]
<1>1. /\ at[l].step = "stop" /\ at[l].step \in Busy /\ i <= Len(held[l])
      /\ proc' = [proc EXCEPT ![q] = Free] /\ file' = [file EXCEPT ![Names[i]] = None]
      /\ Go(l, "stop", i + 1) /\ UNCHANGED <<lock, held, port>>
  BY BusySteps DEF StopOne
<1>2. LauncherOK(l) /\ i \in 1..N /\ Len(held[l]) \in 0..N /\ i \in 1..Len(held[l]) /\ i + 1 \in Nat
  BY <1>1, NameFacts DEF IInv, TypeInv, LauncherOK, StepOK
<1>3. q \in Pid /\ Names[i] \in Name
  BY <1>2, NameFacts DEF IInv, TypeInv
<1>4. /\ at' \in [Launcher -> [step : Quiet \cup Busy, i : Nat]]
      /\ at'[l].step = "stop" /\ at'[l].i = i + 1 /\ \A k \in Launcher \ {l} : at'[k] = at[k]
  BY <1>1, <1>2, BusySteps, GoMoves DEF IInv
<1>5. Live(l, i) /\ Named(l, i)
  BY <1>1, <1>2 DEF Live, Named
<1>6. proc[q].name = Names[i] /\ file[Names[i]] = q
  BY <1>2, <1>5 DEF LauncherOK, HeldOK, FileOK
<1>7. proc'[q] = Free /\ \A p \in Pid : p # q => proc'[p] = proc[p]
  BY <1>1, <1>3 DEF IInv, TypeInv
<1>8. /\ file'[Names[i]] = None /\ \A n \in Name : n # Names[i] => file'[n] = file[n]
  BY <1>1, <1>3 DEF IInv, TypeInv
<1>9. \A j \in 1..N : /\ Live(l, j)' <=> Live(l, j) /\ j # i
                      /\ Named(l, j)' <=> Named(l, j) /\ j # i
  <2> HIDE DEF q
  <2> QED BY <1>1, <1>2, <1>4, NameFacts DEF Live, Named
<1>10. TypeInv'
  <2>1. proc' \in [Pid -> ProcType] /\ file' \in [Name -> Pid \cup {None}]
    BY <1>1, <1>3, FreeFacts DEF IInv, TypeInv
  <2> QED BY <1>1, <1>4, <2>1 DEF IInv, TypeInv
<1>11. LauncherOK(l)'
  <2>1. StepOK(l)'
    <3> HIDE DEF q
    <3> QED BY <1>1, <1>2, <1>4, NameFacts DEF StepOK, Cleaning, Quiet
  <2>2. ASSUME NEW j \in 1..N, Live(l, j), j # i
        PROVE  /\ held[l][j] \in Pid /\ held[l][j] # q /\ Names[j] \in Name /\ Names[j] # Names[i]
    BY <1>2, <1>6, <2>2, NameFacts DEF LauncherOK, HeldOK, Live, IInv, TypeInv
  <2>3. HeldOK(l)'
    <3> HIDE DEF q
    <3> QED BY <1>1, <1>2, <1>7, <1>9, <2>2 DEF LauncherOK, HeldOK
  <2>4. FileOK(l)'
    <3> HIDE DEF q
    <3> QED BY <1>1, <1>2, <1>8, <1>9, <2>2 DEF LauncherOK, FileOK, Named
  <2> QED BY <1>4, <2>1, <2>3, <2>4 DEF LauncherOK, CleanOK, RemoveOK, PortOK, Cleaning, Launching
<1>12. ProcInv' /\ OwnedInv'
  <2> HIDE DEF q
  <2>1. ProcInv'
    BY <1>7, FreeFacts DEF IInv, ProcInv
  <2>2. ASSUME NEW p \in Pid, NEW k \in Launcher, proc'[p].owner = k
        PROVE  \E j \in 1..N : Live(k, j)' /\ held'[k][j] = p
    <3>1. p # q /\ proc[p].owner = k
      BY <1>7, <2>2, FreeFacts, LauncherAssumption
    <3>2. PICK j \in 1..N : Live(k, j) /\ held[k][j] = p
      BY <3>1 DEF IInv, OwnedInv
    <3>3. k = l
      BY <1>1, <3>1, Alone, LauncherAssumption
    <3>4. j # i
      BY <3>1, <3>2, <3>3 DEF q
    <3> QED BY <1>1, <1>9, <3>2, <3>3, <3>4
  <2> QED BY <2>1, <2>2 DEF OwnedInv
<1>13. OnlyStaleSignalled'
  <2> HIDE DEF q
  <2>1. ASSUME NEW p \in Pid, proc'[p].signalled
        PROVE  proc'[p].state # "other" /\ (proc'[p].owner # None => at'[proc'[p].owner].step = "stop")
    <3>1. p # q /\ proc'[p] = proc[p] /\ proc[p].owner \in {l, None}
      BY <1>1, <1>7, <2>1, FreeFacts, Alone
    <3> QED BY <1>4, <2>1, <3>1 DEF IInv, OnlyStaleSignalled
  <2> QED BY <2>1 DEF OnlyStaleSignalled
<1>14. OrphansAccounted'
  <2> HIDE DEF q
  <2>1. ASSUME NEW p \in Pid, proc'[p].state \in Running
        PROVE  (IF proc[p].owner # None THEN Holds(proc[p].owner, p)
                ELSE file[proc[p].name] = p \/ proc[p].signalled \/ proc[p].lost)'
    <3>1. p # q /\ proc'[p] = proc[p]
      BY <1>7, <2>1, FreeFacts
    <3>2. proc[p].name \in Name
      BY <2>1, <3>1 DEF IInv, ProcInv, ProcOK
    <3>3. IF proc[p].owner # None THEN Holds(proc[p].owner, p)
          ELSE file[proc[p].name] = p \/ proc[p].signalled \/ proc[p].lost
      BY <2>1, <3>1 DEF IInv, OrphansAccounted, Running
    <3>4. file[proc[p].name] = p => file'[proc[p].name] = p
      BY <1>6, <1>8, <3>1, <3>2
    <3> QED BY <1>1, <3>1, <3>3, <3>4 DEF Holds
  <2> QED BY <2>1 DEF OrphansAccounted, Running
<1>15. lock' = IF at'[l].step \in Busy THEN l ELSE None
  BY <1>1, <1>4, BusySteps, Alone
<1> QED BY <1>1, <1>4, <1>10, <1>11, <1>12, <1>13, <1>14, <1>15, SoloStep

\* A sidecar that has just been started.
LEMMA SidecarFacts ==
  ASSUME TypeInv, NEW l \in Launcher, NEW n \in Name
  PROVE  LET r == Sidecar(l, n) IN
         /\ r \in ProcType /\ ProcOK(r) /\ r.name = n /\ r.owner = l
         /\ r.state = "starting" /\ ~r.signalled
<1> DEFINE r == Sidecar(l, n)
<1>1. port[l][n] \in {"default"} \cup FreePort
  BY DEF TypeInv
<1>2. /\ r \in ProcType /\ r.name = n /\ r.owner = l
      /\ r.state = "starting" /\ ~r.signalled
  BY <1>1 DEF Sidecar, Free, ProcType, Running
<1> HIDE DEF r
<1>3. ProcOK(r)
  BY <1>2 DEF ProcOK
<1>4. QED
  BY <1>2, <1>3 DEF r

\* A sidecar is started with a free pid.
LEMMA SpawnKeeps ==
  ASSUME IInv, NEW l \in Launcher, Spawn(l)
  PROVE  IInv'
<1> DEFINE i == at[l].i
           r == Sidecar(l, Names[i])
<1>1. /\ at[l].step = "spawn" /\ at[l].step \in Busy \ {"stop"} /\ Go(l, "record", i)
      /\ UNCHANGED <<file, lock, port>>
  BY BusySteps DEF Spawn
<1>2. PICK q \in Pid : /\ proc[q] = Free
                       /\ proc' = [proc EXCEPT ![q] = r]
                       /\ held' = [held EXCEPT ![l] = Append(@, q)]
  BY DEF Spawn
<1>3. LauncherOK(l) /\ i \in 1..N /\ Len(held[l]) = i - 1 /\ Names[i] \in Name
  BY <1>1, NameFacts DEF IInv, LauncherOK, StepOK
<1>4. /\ at' \in [Launcher -> [step : Quiet \cup Busy, i : Nat]]
      /\ at'[l].step = "record" /\ at'[l].i = i /\ \A k \in Launcher \ {l} : at'[k] = at[k]
  BY <1>1, <1>3, BusySteps, GoMoves DEF IInv, TypeInv
<1>5. /\ held' \in [Launcher -> Seq(Pid)] /\ \A k \in Launcher \ {l} : held'[k] = held[k]
      /\ Len(held'[l]) = i /\ held'[l][i] = q
      /\ \A j \in 1..(i - 1) : held'[l][j] = held[l][j]
  <2>1. held'[l] = Append(held[l], q) /\ held[l] \in Seq(Pid)
    BY <1>2 DEF IInv, TypeInv
  <2>2. held' \in [Launcher -> Seq(Pid)] /\ \A k \in Launcher \ {l} : held'[k] = held[k]
    <3> HIDE DEF r, i
    <3> QED BY <1>2 DEF IInv, TypeInv
  <2> HIDE DEF r, i
  <2>3. /\ Len(held'[l]) = Len(held[l]) + 1 /\ held'[l][Len(held[l]) + 1] = q
        /\ \A j \in 1..Len(held[l]) : held'[l][j] = held[l][j]
    BY <2>1
  <2> QED BY <1>3, <2>2, <2>3, NameFacts
<1>6. /\ r \in ProcType /\ ProcOK(r) /\ r.name = Names[i] /\ r.owner = l
      /\ r.state = "starting" /\ ~r.signalled
  BY <1>3, SidecarFacts DEF IInv
<1> HIDE DEF r
<1>7. proc'[q] = r /\ \A p \in Pid : p # q => proc'[p] = proc[p]
  BY <1>2 DEF IInv, TypeInv
<1>8. TypeInv'
  <2>1. proc' \in [Pid -> ProcType]
    BY <1>2, <1>6 DEF IInv, TypeInv
  <2> QED BY <1>1, <1>4, <1>5, <2>1 DEF IInv, TypeInv
<1>9. \A j \in 1..N : /\ Live(l, j)' <=> j <= i
                      /\ Live(l, j) <=> j < i
                      /\ Named(l, j)' <=> j < i
                      /\ Named(l, j) <=> j < i
  BY <1>1, <1>3, <1>4, <1>5, NameFacts DEF Live, Named
<1>10. \A j \in 1..(i - 1) : held[l][j] \in Pid \ {q} /\ held'[l][j] = held[l][j]
  <2>1. ASSUME NEW j \in 1..(i - 1)
        PROVE  held[l][j] \in Pid \ {q}
    <3>1. proc[held[l][j]].state \in Running \cup {"zombie"} /\ held[l][j] \in Pid
      BY <1>3, <1>9, NameFacts DEF LauncherOK, HeldOK, IInv, TypeInv
    <3> QED BY <1>2, <3>1 DEF Free, Running
  <2> QED BY <1>5, <2>1
<1>11. LauncherOK(l)'
  <2>1. StepOK(l)'
    BY <1>1, <1>3, <1>4, <1>5, NameFacts DEF StepOK, Cleaning, Quiet
  <2>2. HeldOK(l)'
    <3> SUFFICES ASSUME NEW j \in 1..N, j <= i
                 PROVE  /\ proc'[held'[l][j]].owner = l
                        /\ proc'[held'[l][j]].name = Names[j]
                        /\ proc'[held'[l][j]].state \in Running \cup {"zombie"}
      BY <1>9 DEF HeldOK
    <3>1. CASE j = i
      BY <1>5, <1>6, <1>7, <3>1 DEF Running
    <3>2. CASE j # i
      <4>1. j \in 1..(i - 1) /\ Live(l, j)
        BY <1>3, <1>9, <3>2, NameFacts
      <4> QED BY <1>3, <1>7, <1>10, <4>1 DEF LauncherOK, HeldOK
    <3> QED BY <3>1, <3>2
  <2>3. FileOK(l)'
    BY <1>1, <1>3, <1>5, <1>9, NameFacts DEF LauncherOK, FileOK
  <2>4. CleanOK(l)'
    BY <1>1, <1>3, <1>4, <1>9 DEF LauncherOK, CleanOK, Launching, Cleaning
  <2>5. PortOK(l)'
    BY <1>1, <1>3, <1>6, <1>7 DEF LauncherOK, PortOK, Listens, Launching
  <2> QED BY <1>4, <2>1, <2>2, <2>3, <2>4, <2>5 DEF LauncherOK, RemoveOK
<1>12. ProcInv' /\ OwnedInv'
  <2>1. ProcInv'
    BY <1>6, <1>7 DEF IInv, ProcInv
  <2>2. ASSUME NEW p \in Pid, NEW k \in Launcher, proc'[p].owner = k
        PROVE  \E j \in 1..N : Live(k, j)' /\ held'[k][j] = p
    <3>1. CASE p = q
      BY <1>3, <1>5, <1>6, <1>7, <1>9, <2>2, <3>1
    <3>2. CASE p # q
      <4>1. proc[p].owner = k /\ k = l
        BY <1>1, <1>7, <2>2, <3>2, Alone, LauncherAssumption
      <4>2. PICK j \in 1..N : Live(k, j) /\ held[k][j] = p
        BY <4>1 DEF IInv, OwnedInv
      <4>3. j \in 1..(i - 1) /\ j <= i
        BY <1>3, <1>9, <4>1, <4>2, NameFacts
      <4> QED BY <1>9, <1>10, <4>1, <4>2, <4>3
    <3> QED BY <3>1, <3>2
  <2> QED BY <2>1, <2>2 DEF OwnedInv
<1>13. OnlyStaleSignalled'
  <2>1. ASSUME NEW p \in Pid, proc'[p].signalled
        PROVE  proc'[p].state # "other" /\ proc'[p].owner = None
    <3>1. p # q /\ proc'[p] = proc[p] /\ proc[p].owner \in {l, None}
      BY <1>1, <1>6, <1>7, <2>1, Alone
    <3> QED BY <1>1, <2>1, <3>1 DEF IInv, OnlyStaleSignalled
  <2> QED BY <2>1 DEF OnlyStaleSignalled
<1>14. OrphansAccounted'
  <2>1. ASSUME NEW p \in Pid, proc'[p].owner # None
        PROVE  proc'[p].owner = l /\ \E j \in 1..Len(held'[l]) : held'[l][j] = p
    <3>1. proc'[p].owner = l
      BY <1>1, <1>6, <1>7, <2>1, Alone
    <3>2. PICK j \in 1..N : Live(l, j)' /\ held'[l][j] = p
      BY <1>12, <3>1 DEF OwnedInv
    <3> QED BY <3>1, <3>2 DEF Live
  <2>2. ASSUME NEW p \in Pid, proc'[p].owner = None, proc'[p].state \in Running
        PROVE  file'[proc'[p].name] = p \/ proc'[p].signalled \/ proc'[p].lost
    <3>1. proc'[p] = proc[p]
      BY <1>6, <1>7, <2>2, LauncherAssumption
    <3> QED BY <1>1, <2>2, <3>1 DEF IInv, OrphansAccounted, Running
  <2>3. ASSUME NEW p \in Pid, proc'[p].state \in Running
        PROVE  (IF proc[p].owner # None THEN Holds(proc[p].owner, p)
                ELSE file[proc[p].name] = p \/ proc[p].signalled \/ proc[p].lost)'
    BY <2>1, <2>2, <2>3 DEF Holds
  <2> QED BY <2>3 DEF OrphansAccounted, Running
<1>15. lock' = IF at'[l].step \in Busy THEN l ELSE None
  BY <1>1, <1>4, BusySteps, Alone
<1> QED BY <1>1, <1>4, <1>5, <1>8, <1>11, <1>12, <1>13, <1>14, <1>15, SoloStep

-----------------------------------------------------------------------------
\* The steps of the processes.

\* A process changes its state: it keeps its owner, and an orphan that runs on its name.
LEMMA ProcMoves ==
  ASSUME IInv, NEW p \in Pid, NEW r \in ProcType, ProcOK(r),
         proc' = [proc EXCEPT ![p] = r], UNCHANGED <<file, lock, at, held, port>>,
         r.owner = proc[p].owner,
         r.owner # None => r.name = proc[p].name /\ r.state \in Running \cup {"zombie"},
         r.signalled => proc[p].signalled,
         Orphan(r) => /\ Orphan(proc[p]) /\ r.name = proc[p].name
                      /\ r.signalled = proc[p].signalled /\ r.lost = proc[p].lost,
         Orphan(r) /\ r.state = "listening" =>
           \/ proc[p].state = "listening" /\ r.port = proc[p].port
           \/ r.lost
           \/ \A l \in Launcher : at[l].step \notin Launching
  PROVE  IInv'
<1>1. proc'[p] = r /\ \A q \in Pid : q # p => proc'[q] = proc[q]
  BY DEF IInv, TypeInv
<1>2. TypeInv' /\ LockInv' /\ ProcInv'
  BY <1>1 DEF IInv, TypeInv, LockInv, ProcInv
<1>3. \A l \in Launcher : \A j \in 1..N :
        /\ Live(l, j)' <=> Live(l, j)
        /\ Named(l, j)' <=> Named(l, j)
        /\ Live(l, j) => held[l][j] \in Pid
  BY DEF Live, Named, IInv, TypeInv
<1>4. ASSUME NEW l \in Launcher
      PROVE  LauncherOK(l)'
  <2>1. LauncherOK(l)
    BY DEF IInv
  <2>2. StepOK(l)' /\ FileOK(l)' /\ CleanOK(l)'
    BY <1>3, <2>1 DEF LauncherOK, StepOK, FileOK, CleanOK
  <2>3. HeldOK(l)'
    <3> SUFFICES ASSUME NEW j \in 1..N, Live(l, j)
                 PROVE  /\ proc'[held[l][j]].owner = l
                        /\ proc'[held[l][j]].name = Names[j]
                        /\ proc'[held[l][j]].state \in Running \cup {"zombie"}
      BY <1>3 DEF HeldOK
    <3>1. /\ proc[held[l][j]].owner = l
          /\ proc[held[l][j]].name = Names[j]
          /\ proc[held[l][j]].state \in Running \cup {"zombie"}
      BY <2>1 DEF LauncherOK, HeldOK
    <3> QED BY <1>1, <1>3, <3>1, LauncherAssumption
  <2>4. RemoveOK(l)'
    <3> SUFFICES ASSUME at[l].step = "remove", NEW q \in Pid, file[Names[at[l].i]] = q,
                        Orphan(proc'[q]), proc'[q].name = Names[at[l].i]
                 PROVE  proc'[q].signalled
      BY DEF RemoveOK
    <3> QED BY <1>1, <2>1 DEF LauncherOK, RemoveOK
  <2>5. PortOK(l)'
    <3> SUFFICES ASSUME at[l].step \in Launching \ {"ports"}, NEW q \in Pid, NEW n \in Name,
                        proc'[q].state = "listening", proc'[q].name = n,
                        proc'[q].port = port[l][n], proc'[q].owner = None
                 PROVE  proc'[q].lost
      BY DEF PortOK, Listens
    <3>1. CASE q # p
      BY <1>1, <2>1, <3>1 DEF LauncherOK, PortOK, Listens
    <3>2. CASE q = p
      <4>1. Orphan(r)
        BY <1>1, <3>2 DEF Orphan, Running
      <4> QED BY <1>1, <2>1, <3>2, <4>1 DEF LauncherOK, PortOK, Listens
    <3> QED BY <3>1, <3>2
  <2> QED BY <2>2, <2>3, <2>4, <2>5 DEF LauncherOK
<1>5. OwnedInv'
  <2> SUFFICES ASSUME NEW q \in Pid, NEW l \in Launcher, proc'[q].owner = l
               PROVE  \E j \in 1..N : Live(l, j)' /\ held'[l][j] = q
    BY DEF OwnedInv
  <2>1. proc[q].owner = l
    BY <1>1
  <2> QED BY <1>3, <2>1 DEF IInv, OwnedInv
<1>6. OnlyStaleSignalled'
  <2> SUFFICES ASSUME NEW q \in Pid, proc'[q].signalled
               PROVE  /\ proc'[q].state # "other"
                      /\ proc'[q].owner # None => at[proc'[q].owner].step = "stop"
    BY DEF OnlyStaleSignalled
  <2>1. proc[q].signalled /\ proc'[q].owner = proc[q].owner
    BY <1>1
  <2> QED BY <1>2, <2>1 DEF IInv, OnlyStaleSignalled, ProcInv, ProcOK
<1>7. OrphansAccounted'
  <2>1. ASSUME NEW q \in Pid, proc'[q].owner # None
        PROVE  \E k \in 1..Len(held'[proc'[q].owner]) : held'[proc'[q].owner][k] = q
    <3>1. proc'[q].owner \in Launcher /\ proc[q].owner = proc'[q].owner
      BY <1>1, <1>2, <2>1 DEF TypeInv, ProcType
    <3>2. \E j \in 1..N : Live(proc[q].owner, j) /\ held[proc[q].owner][j] = q
      BY <3>1 DEF IInv, OwnedInv
    <3> QED BY <3>1, <3>2 DEF Live
  <2>2. ASSUME NEW q \in Pid, proc'[q].state \in Running, proc'[q].owner = None
        PROVE  file[proc'[q].name] = q \/ proc'[q].signalled \/ proc'[q].lost
    BY <1>1, <2>2 DEF IInv, OrphansAccounted, Running, Orphan
  <2>3. ASSUME NEW q \in Pid, proc'[q].state \in Running
        PROVE  (IF proc[q].owner # None THEN Holds(proc[q].owner, q)
                ELSE file[proc[q].name] = q \/ proc[q].signalled \/ proc[q].lost)'
    BY <2>1, <2>2, <2>3 DEF Holds
  <2> QED BY <2>3 DEF OrphansAccounted, Running
<1> QED BY <1>2, <1>4, <1>5, <1>6, <1>7 DEF IInv

\* An exit leaves a zombie to the owner, and nothing of an orphan.
LEMMA ExitedFacts ==
  ASSUME NEW r \in ProcType, ProcOK(r), r.state \in Running \cup {"other"}
  PROVE  /\ Exited(r) \in ProcType /\ ProcOK(Exited(r)) /\ Exited(r).owner = r.owner
         /\ r.owner # None => Exited(r).name = r.name /\ Exited(r).state = "zombie"
         /\ Exited(r).signalled => r.signalled
         /\ Exited(r).state \notin Running
<1>1. CASE r.owner = None
  BY <1>1, FreeFacts DEF Exited
<1>2. CASE r.owner # None
  <2> DEFINE z == [r EXCEPT !.state = "zombie"]
  <2>1. Exited(r) = z
    BY <1>2 DEF Exited
  <2>2. /\ z \in ProcType /\ z.owner = r.owner /\ z.name = r.name /\ z.state = "zombie"
        /\ z.signalled = r.signalled
    BY DEF ProcType
  <2> HIDE DEF z
  <2> QED BY <1>2, <2>1, <2>2 DEF ProcOK, Running
<1> QED BY <1>1, <1>2

\* A sidecar binds its port.  An orphan that does so late was not told to stop, so that no
\* launcher is past its cleanup, unless it is a lost one.
LEMMA ListenKeeps ==
  ASSUME IInv, NEW p \in Pid, Listen(p)
  PROVE  IInv'
<1> DEFINE r == proc[p]
           s == [r EXCEPT !.state = "listening"]
<1>1. /\ r.state = "starting" /\ r \in ProcType /\ ProcOK(r) /\ r.name \in Name
      /\ UNCHANGED <<file, lock, at, held, port>>
  BY DEF Listen, IInv, TypeInv, ProcInv, ProcOK, Running
<1>2. \/ proc' = [proc EXCEPT ![p] = Exited(r)]
      \/ proc' = [proc EXCEPT ![p] = s]
  BY Zenon DEF Listen
<1>3. /\ s \in ProcType /\ s.state = "listening" /\ s.owner = r.owner /\ s.name = r.name
      /\ s.signalled = r.signalled /\ s.lost = r.lost
  BY <1>1 DEF ProcType, Running
<1> HIDE DEF s
<1>4. CASE proc' = [proc EXCEPT ![p] = Exited(r)]
  <2> DEFINE e == Exited(r)
  <2>1. /\ e \in ProcType /\ ProcOK(e) /\ e.owner = r.owner
        /\ r.owner # None => e.name = r.name /\ e.state = "zombie"
        /\ e.signalled => r.signalled
        /\ ~Orphan(e)
    BY <1>1, ExitedFacts DEF Running, Orphan
  <2>2. proc' = [proc EXCEPT ![p] = e]
    BY <1>4
  <2> HIDE DEF e
  <2> QED BY <1>1, <2>1, <2>2, ProcMoves
<1>5. CASE proc' = [proc EXCEPT ![p] = s]
  <2>1. ProcOK(s)
    BY <1>1, <1>3 DEF ProcOK, Running
  <2>2. ASSUME Orphan(s), ~s.lost, NEW l \in Launcher, at[l].step \in Launching
        PROVE  FALSE
    <3>1. file[r.name] = p
      BY <1>1, <1>3, <2>2 DEF IInv, OrphansAccounted, Orphan, ProcOK
    <3>2. PICK j \in 1..N : Names[j] = r.name
      BY <1>1, NameFacts
    <3>3. LauncherOK(l)
      BY DEF IInv
    <3>4. CASE Named(l, j)
      <4>1. held[l][j] = p /\ proc[held[l][j]].owner = l
        BY <3>1, <3>2, <3>3, <3>4 DEF LauncherOK, FileOK, HeldOK, Named
      <4> QED BY <1>3, <2>2, <4>1, LauncherAssumption DEF Orphan
    <3>5. CASE ~Named(l, j)
      BY <2>2, <3>1, <3>2, <3>3, <3>5, LauncherAssumption DEF LauncherOK, CleanOK
    <3> QED BY <3>4, <3>5
  <2>3. Orphan(s) => Orphan(r)
    BY <1>1, <1>3 DEF Orphan, Running
  <2> QED BY <1>1, <1>3, <1>5, <2>1, <2>2, <2>3, ProcMoves DEF Running
<1> QED BY <1>2, <1>4, <1>5

\* A sidecar closes its listener, exits, or leaves its pid to a process of the system.
LEMMA ProcStepKeeps ==
  ASSUME IInv, NEW p \in Pid, Drain(p) \/ ProcExit(p) \/ Reuse(p)
  PROVE  IInv'
<1> DEFINE r == proc[p]
<1>1. r \in ProcType /\ ProcOK(r) /\ UNCHANGED <<file, lock, at, held, port>>
  BY DEF Drain, ProcExit, Reuse, IInv, TypeInv, ProcInv
<1>2. CASE Drain(p)
  <2> DEFINE s == [r EXCEPT !.state = "draining"]
  <2>1. proc' = [proc EXCEPT ![p] = s] /\ r.state = "listening"
    BY <1>2 DEF Drain
  <2>2. /\ s \in ProcType /\ s.state = "draining" /\ s.owner = r.owner /\ s.name = r.name
        /\ s.signalled = r.signalled /\ s.lost = r.lost
    BY <1>1 DEF ProcType, Running
  <2> HIDE DEF s
  <2>3. ProcOK(s) /\ (Orphan(s) => Orphan(r))
    BY <1>1, <2>1, <2>2 DEF ProcOK, Orphan, Running
  <2> QED BY <1>1, <2>1, <2>2, <2>3, ProcMoves DEF Running
<1>3. CASE ProcExit(p)
  <2> DEFINE e == Exited(r)
  <2>1. proc' = [proc EXCEPT ![p] = e] /\ r.state \in Running \cup {"other"}
    BY <1>3 DEF ProcExit, Alive, Running
  <2>2. /\ e \in ProcType /\ ProcOK(e) /\ e.owner = r.owner
        /\ r.owner # None => e.name = r.name /\ e.state = "zombie"
        /\ e.signalled => r.signalled
        /\ ~Orphan(e)
    BY <1>1, <2>1, ExitedFacts DEF Orphan
  <2> HIDE DEF e
  <2> QED BY <1>1, <2>1, <2>2, ProcMoves
<1>4. CASE Reuse(p)
  <2> DEFINE s == [r EXCEPT !.state = "other"]
  <2>1. proc' = [proc EXCEPT ![p] = s] /\ r = Free
    BY <1>4 DEF Reuse
  <2>2. /\ s \in ProcType /\ s.state = "other" /\ s.owner = None /\ s.name = "other"
        /\ ~s.signalled
    <3>1. /\ s \in ProcType /\ s.state = "other" /\ s.owner = r.owner /\ s.name = r.name
          /\ s.signalled = r.signalled
      BY <1>1 DEF ProcType
    <3>2. r.owner = None /\ r.name = "other" /\ ~r.signalled
      BY <2>1 DEF Free
    <3> HIDE DEF s, r
    <3> QED BY <3>1, <3>2
  <2>3. r.owner = None
    BY <2>1, FreeFacts
  <2> HIDE DEF s
  <2>4. ProcOK(s) /\ ~Orphan(s)
    BY <2>2 DEF ProcOK, Orphan, Running
  <2> QED BY <1>1, <2>1, <2>2, <2>3, <2>4, ProcMoves
<1> QED BY <1>2, <1>3, <1>4

-----------------------------------------------------------------------------
\* The invariant of the specification.

\* Nothing runs.
LEMMA InitIInv == Init => IInv
<1> SUFFICES ASSUME Init PROVE IInv
  OBVIOUS
<1>1. \A p \in Pid : proc[p] = Free
  BY DEF Init
<1>2. \A l \in Launcher : at[l].step = "off" /\ Len(held[l]) = 0
  BY DEF Init
<1>3. TypeInv
  <2>1. at \in [Launcher -> [step : Quiet \cup Busy, i : Nat]]
    BY DEF Init, Quiet
  <2>2. proc \in [Pid -> ProcType] /\ held \in [Launcher -> Seq(Pid)]
    BY FreeFacts DEF Init
  <2> QED BY <2>1, <2>2 DEF Init, TypeInv
<1>4. LockInv
  BY <1>2, QuietBusy, LauncherAssumption DEF Init, LockInv, Quiet
<1>5. ASSUME NEW l \in Launcher
      PROVE  LauncherOK(l)
  <2>1. \A j : ~Live(l, j)
    BY <1>2 DEF Live
  <2>2. at[l].step \notin Cleaning \cup Launching \cup {"running", "stop", "serve", "health"}
    BY <1>2 DEF Cleaning, Launching
  <2>3. StepOK(l)
    BY <1>2, <2>2 DEF StepOK
  <2> QED BY <1>2, <2>1, <2>2, <2>3 DEF LauncherOK, HeldOK, FileOK, CleanOK, RemoveOK, PortOK,
          Named
<1>6. ProcInv /\ OwnedInv
  BY <1>1, FreeFacts, LauncherAssumption DEF ProcInv, OwnedInv
<1>7. OrphansAccounted /\ OnlyStaleSignalled
  BY <1>1, FreeFacts DEF OrphansAccounted, OnlyStaleSignalled, Running
<1> QED BY <1>3, <1>4, <1>5, <1>6, <1>7 DEF IInv

\* Every step keeps it.
LEMMA NextIInv == IInv /\ [Next]_vars => IInv'
<1> SUFFICES ASSUME IInv, [Next]_vars
             PROVE  IInv'
  OBVIOUS
<1>1. ASSUME NEW l \in Launcher, LauncherStep(l)
      PROVE  IInv'
  <2>1. CASE Begin(l)
    BY <2>1, BeginKeeps
  <2>2. CASE SaveSetup(l) \/ Close(l) \/ NothingToStop(l)
    BY <2>2, AsideKeeps DEF SaveSetup, Close, NothingToStop
  <2>3. CASE StartStack(l)
    BY <2>3, StartStackKeeps
  <2>4. CASE Refused(l)
    BY <2>4, RefusedKeeps
  <2>5. CASE TakeStack(l) \/ LaunchFails(l)
    BY <2>5, StopAllKeeps
  <2>6. CASE Exit(l) \/ Crash(l)
    BY <2>6, OverKeeps DEF Exit, Crash
  <2>7. CASE SignalStale(l)
    BY <2>7, SignalStaleKeeps
  <2>8. CASE RemoveStale(l)
    BY <2>8, RemoveStaleKeeps
  <2>9. CASE ChoosePorts(l)
    BY <2>9, ChoosePortsKeeps
  <2>10. CASE Spawn(l)
    BY <2>10, SpawnKeeps
  <2>11. CASE Record(l)
    BY <2>11, RecordKeeps
  <2>12. CASE SpawnFails(l)
    BY <2>12, LaterFailsKeeps, DroppedKeeps
  <2>13. CASE Health(l) \/ Serve(l)
    BY <2>13, HealthServeKeeps
  <2>14. CASE ClientFails(l)
    BY <2>14, DroppedKeeps
  <2>15. CASE StopOne(l)
    BY <2>15, StopOneKeeps
  <2>16. CASE StopEnds(l)
    BY <2>16, StopEndsKeeps
  <2> QED BY <1>1, <2>1, <2>2, <2>3, <2>4, <2>5, <2>6, <2>7, <2>8, <2>9, <2>10, <2>11, <2>12,
          <2>13, <2>14, <2>15, <2>16 DEF LauncherStep
<1>2. ASSUME NEW p \in Pid, ProcStep(p)
      PROVE  IInv'
  BY <1>2, ListenKeeps, ProcStepKeeps DEF ProcStep
<1>3. CASE UNCHANGED vars
  BY <1>3, AsideKeeps DEF vars
<1> QED BY <1>1, <1>2, <1>3 DEF Next

\* The inductive invariant holds.
LEMMA Inductive == Spec => []IInv
  BY InitIInv, NextIInv, PTL DEF Spec

\* No sidecar is forgotten: a launcher holds its children, and an orphan is named by its pid
\* file, was told to stop, or is one that its launcher had no time to record
\* (launch_stack, stop_children and cleanup_stale_children).
THEOREM NoneForgotten == Spec => []OrphansAccounted
<1>1. IInv => OrphansAccounted
  BY DEF IInv
<1> QED BY <1>1, Inductive, PTL

\* cleanup_stale_children signals stale sidecars only, never a process of another name
\* that got the pid of a dead one or the children of a stack that starts or runs.
THEOREM OnlyOursSignalled == Spec => []OnlyStaleSignalled
<1>1. IInv => OnlyStaleSignalled
  BY DEF IInv
<1> QED BY <1>1, Inductive, PTL

\* The answer to wait_for_health comes from the launcher's own child, although it asks a
\* port: no sidecar of an earlier launch that is still stopping listens on a port that
\* env_port_or_available gave, unless it is one that no pid file ever named.
THEOREM OwnHealth == Spec => HealthIsOwn
<1> DEFINE Answered(l) ==
      LET n == Names[at[l].i]
          answering == {p \in Pid : Listens(p, n, port[l][n])}
      IN  at[l].step = "health" /\ at'[l].step \in {"spawn", "health", "serve"} /\ at'[l] # at[l]
          => \E p \in answering : Holds(l, p) \/ proc[p].lost
<1>1. ASSUME IInv, [Next]_vars, NEW l \in Launcher
      PROVE  Answered(l)
  <2> DEFINE n == Names[at[l].i]
  <2> SUFFICES ASSUME at[l].step = "health", at'[l].step \in {"spawn", "health", "serve"},
                      at'[l] # at[l]
               PROVE  \E p \in Pid : Listens(p, n, port[l][n]) /\ (Holds(l, p) \/ proc[p].lost)
    OBVIOUS
  <2>1. Health(l)
    <3>1. PICK k \in Launcher : LauncherStep(k)
      BY <1>1 DEF Next, vars, ProcStep, Listen, Drain, ProcExit, Reuse
    <3>2. k = l
      <4> SUFFICES ASSUME k # l PROVE FALSE
        OBVIOUS
      <4>1. at'[l] = at[l]
        BY <1>1, <3>1, Zenon DEF LauncherStep, Begin, SaveSetup, StartStack, Refused, Close,
           TakeStack, NothingToStop, Exit, Crash, SignalStale, RemoveStale, ChoosePorts, Spawn,
           Record, SpawnFails, Health, LaunchFails, ClientFails, Serve, StopOne, StopEnds,
           StopChildren, Dropped, Failed, Over, Go, IInv, TypeInv
      <4> QED BY <4>1
    <3>3. CASE UNCHANGED at
      BY <3>3
    <3>4. CASE Go(l, "off", 0) \/ Go(l, "stop", 1)
      BY <1>1, <3>4 DEF Go, IInv, TypeInv
    <3>5. UNCHANGED at \/ Go(l, "off", 0) \/ Go(l, "stop", 1) \/ Health(l)
      BY <3>1, <3>2 DEF LauncherStep, Begin, SaveSetup, StartStack, Refused, Close, TakeStack,
         NothingToStop, Exit, Crash, Over, SignalStale, RemoveStale, ChoosePorts, Spawn, Record,
         SpawnFails, LaunchFails, StopChildren, ClientFails, Serve, StopOne, StopEnds
    <3> QED BY <3>3, <3>4, <3>5
  <2>2. PICK p \in Pid : Listens(p, n, port[l][n])
    BY <2>1 DEF Health
  <2>3. n \in Name
    BY <1>1, NameFacts DEF IInv, LauncherOK, StepOK
  <2>4. CASE proc[p].owner = None
    BY <1>1, <2>2, <2>3, <2>4 DEF IInv, LauncherOK, PortOK, Launching
  <2>5. CASE proc[p].owner = l
    <3>1. Holds(l, p)
      BY <1>1, <2>5 DEF IInv, OwnedInv, Live, Holds
    <3> QED BY <2>2, <3>1
  <2>6. proc[p].owner \in {l, None}
    BY <1>1, BusySteps, Alone
  <2> QED BY <2>2, <2>4, <2>5, <2>6
<1>2. IInv /\ [Next]_vars => \A l \in Launcher : Answered(l)
  BY <1>1
<1> QED BY <1>2, Inductive, PTL DEF Spec, HealthIsOwn
=============================================================================
