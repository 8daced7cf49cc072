---------------------------- MODULE DaemonProofs ----------------------------
(***************************************************************************)
(* What a user who starts a process only when none is left can rely on,    *)
(* proved for any number of processes.                                     *)
(***************************************************************************)
EXTENDS Daemon, TLAPS

Stages == {"unborn", "started", "named", "listening", "serving", "leaving", "exiting", "gone"}

(* A process that holds the port listens; it lets go when it ends.         *)
PortHeld ==
    \A p \in Procs : port = p => proc[p] \in {"listening", "serving", "leaving", "exiting"}

(* At most one process is there: the one that is being forked or stopped,  *)
(* if there is one, and none after a command that said so.                 *)
Alone ==
    \A p \in Procs : Alive(p) =>
        /\ \A q \in Procs : Alive(q) => q = p
        /\ forking # NoProc => forking = p
        /\ stop # "idle" => stopping = p
        /\ answer \notin {"not running", "stopped"}

(* The PID file names it from its first step until it removes the file.    *)
Named ==
    \A p \in Procs :
        /\ proc[p] \in {"named", "listening", "serving", "leaving"} => pidFile = p
        /\ proc[p] = "exiting" => pidFile \in {NoProc, p}

Orders ==
    Orderly => Alone /\ Named /\ StatusTruthful

IInv == DaemonTypeOK /\ PortHeld /\ Orders

-----------------------------------------------------------------------------
(* Lemmas *)

LEMMA InitInv == Init => IInv
BY DaemonAssumption DEF Init, IInv, DaemonTypeOK, PortHeld, Orders, Alone, Named,
   StatusTruthful, Alive

(* A command may say that nothing runs only if nothing does.               *)
LEMMA NothingRuns ==
    ASSUME IInv, Orderly, Settled, IsRunning = "not running"
    PROVE  \A p \in Procs : ~Alive(p)
<1>1. pidFile \in Procs /\ ~Alive(pidFile)
  BY DEF IsRunning, IInv, DaemonTypeOK
<1> SUFFICES ASSUME NEW p \in Procs, Alive(p) PROVE FALSE
  OBVIOUS
<1>2. proc[p] \in {"started", "named", "listening", "serving", "leaving", "exiting"}
  BY DEF Alive, IInv, DaemonTypeOK
<1>3. pidFile \in {NoProc, p}
  BY <1>2 DEF Settled, IInv, Orders, Named
<1> QED
  BY <1>1, <1>3, DaemonAssumption

(* A process moves on or ends and nothing else of the user's changes.      *)
LEMMA CommandsKept ==
    ASSUME IInv, UNCHANGED <<forking, stop, stopping, answer, then>>,
           NEW p \in Procs, Alive(p), NEW to \in Stages \ {"unborn"},
           proc' = [proc EXCEPT ![p] = to]
    PROVE  /\ Orderly => Alone' /\ StatusTruthful'
           /\ proc' \in [Procs -> Stages]
<1>1. proc \in [Procs -> Stages]
  BY DEF IInv, DaemonTypeOK, Stages
<1>2. \A q \in Procs : Alive(q)' => Alive(q)
  BY <1>1 DEF Alive
<1> QED
  BY <1>1, <1>2 DEF IInv, Orders, Alone, StatusTruthful

LEMMA ProcessInv ==
    ASSUME IInv, NEW p \in Procs, Runs(p) \/ Interrupt(p) \/ Crash(p)
    PROVE  IInv'
<1>1. UNCHANGED <<forking, stop, stopping, answer, then>>
  BY DEF Runs, WritePID, Listen, Fatal, Serve, CloseListener, RemovePID, Exit, Interrupt, Crash
<1>2. proc \in [Procs -> Stages] /\ NoProc \notin Procs /\ port \in Procs \cup {NoProc}
  BY DaemonAssumption DEF IInv, DaemonTypeOK, Stages
<1>3. ASSUME NEW to \in Stages \ {"unborn"}, Alive(p), proc' = [proc EXCEPT ![p] = to],
             pidFile' \in Procs \cup {NoProc}, port' \in Procs \cup {NoProc},
             PortHeld', Orderly => Named'
      PROVE  IInv'
  <2>1. (Orderly => Alone' /\ StatusTruthful') /\ proc' \in [Procs -> Stages]
    BY <1>1, <1>3, CommandsKept
  <2>2. DaemonTypeOK'
    BY <1>1, <1>2, <1>3, <2>1 DEF IInv, DaemonTypeOK, PortHeld, Stages, Alive
  <2> QED
    BY <1>3, <2>1, <2>2 DEF IInv, Orders
<1>4. CASE WritePID(p)
  <2>1. proc' = [proc EXCEPT ![p] = "named"] /\ proc[p] = "started" /\ pidFile' = p /\ port' = port
    BY <1>4 DEF WritePID, Goto
  <2>2. PortHeld'
    BY <1>2, <2>1 DEF IInv, PortHeld
  <2>3. Orderly => Named'
    BY <1>2, <2>1 DEF IInv, Orders, Alone, Named, Alive, Stages
  <2> QED
    BY <1>2, <1>3, <2>1, <2>2, <2>3 DEF Stages, Alive
<1>5. CASE Listen(p)
  <2>1. /\ proc' = [proc EXCEPT ![p] = "listening"] /\ proc[p] = "named"
        /\ pidFile' = pidFile /\ port' = p
    BY <1>5 DEF Listen, Goto
  <2>2. PortHeld'
    BY <1>2, <2>1 DEF PortHeld
  <2>3. Orderly => Named'
    BY <1>2, <2>1 DEF IInv, Orders, Named
  <2> QED
    BY <1>2, <1>3, <2>1, <2>2, <2>3 DEF Stages, Alive, IInv, DaemonTypeOK
<1>6. CASE Serve(p)
  <2>1. /\ proc' = [proc EXCEPT ![p] = "serving"] /\ proc[p] = "listening"
        /\ pidFile' = pidFile /\ port' = port
    BY <1>6 DEF Serve, Goto
  <2>2. PortHeld'
    BY <1>2, <2>1 DEF IInv, PortHeld
  <2>3. Orderly => Named'
    BY <1>2, <2>1 DEF IInv, Orders, Named
  <2> QED
    BY <1>2, <1>3, <2>1, <2>2, <2>3 DEF Stages, Alive, IInv, DaemonTypeOK
<1>7. CASE RemovePID(p)
  <2>1. /\ proc' = [proc EXCEPT ![p] = "exiting"] /\ proc[p] = "leaving"
        /\ pidFile' = NoProc /\ port' = port
    BY <1>7 DEF RemovePID, Goto
  <2>2. PortHeld'
    BY <1>2, <2>1 DEF IInv, PortHeld
  <2>3. Orderly => Named'
    BY <1>2, <2>1 DEF IInv, Orders, Alone, Named, Alive, Stages
  <2> QED
    BY <1>2, <1>3, <2>1, <2>2, <2>3 DEF Stages, Alive
<1>8. CASE CloseListener(p)
  <2>1. UNCHANGED proc /\ UNCHANGED pidFile /\ port' = NoProc
    BY <1>8 DEF CloseListener
  <2>2. UNCHANGED <<forking, stop, stopping, answer, then>>
    BY <1>1
  <2>3. DaemonTypeOK' /\ PortHeld'
    BY <1>2, <2>1, <2>2 DEF IInv, DaemonTypeOK, PortHeld, Alive
  <2>4. \A q \in Procs : Alive(q)' <=> Alive(q)
    BY <2>1 DEF Alive
  <2>5. Orderly => Alone'
    BY <2>2, <2>4 DEF IInv, Orders, Alone
  <2>6. Orderly => Named' /\ StatusTruthful'
    BY <2>1, <2>2 DEF IInv, Orders, Named, StatusTruthful
  <2> QED
    BY <2>3, <2>5, <2>6 DEF IInv, Orders
<1>9. ASSUME Alive(p), Ends(p), UNCHANGED pidFile
      PROVE  IInv'
  <2>1. /\ proc' = [proc EXCEPT ![p] = "gone"]
        /\ port' = IF port = p THEN NoProc ELSE port
    BY <1>9 DEF Ends
  <2>2. PortHeld'
    BY <1>2, <2>1 DEF IInv, PortHeld
  <2>3. Orderly => Named'
    BY <1>2, <1>9, <2>1 DEF IInv, Orders, Named
  <2> QED
    BY <1>2, <1>3, <1>9, <2>1, <2>2, <2>3 DEF Stages, IInv, DaemonTypeOK
<1>10. CASE Interrupt(p)
  <2>1. CASE proc[p] = "serving"
    <3>1. proc' = [proc EXCEPT ![p] = "leaving"] /\ UNCHANGED <<pidFile, port>>
      BY <1>10, <2>1 DEF Interrupt, Receives
    <3>2. PortHeld'
      BY <1>2, <2>1, <3>1 DEF IInv, PortHeld
    <3>3. Orderly => Named'
      BY <1>2, <2>1, <3>1 DEF IInv, Orders, Named
    <3> QED
      BY <1>2, <1>3, <2>1, <3>1, <3>2, <3>3 DEF Stages, Alive, IInv, DaemonTypeOK
  <2>2. CASE proc[p] # "serving"
    BY <1>9, <1>10, <2>2 DEF Interrupt, Receives
  <2> QED
    BY <2>1, <2>2
<1>11. CASE Fatal(p) \/ Exit(p) \/ Crash(p)
  BY <1>9, <1>11 DEF Fatal, Exit, Crash, Alive
<1> QED
  BY <1>4, <1>5, <1>6, <1>7, <1>8, <1>10, <1>11 DEF Runs

LEMMA StartInv ==
    ASSUME IInv, NEW p \in Procs, StartForeground(p) \/ Daemonize(p)
    PROVE  IInv'
<1>1. /\ stop = "idle" /\ forking = NoProc /\ proc[p] = "unborn"
      /\ Orderly => answer \in {"not running", "stopped"}
      /\ proc' = [proc EXCEPT ![p] = "started"]
      /\ answer' = "started" /\ then' \subseteq Procs
      /\ UNCHANGED <<port, pidFile, stop, stopping>>
      /\ forking' \in {NoProc, p}
  BY DEF StartForeground, Daemonize, Start, Idle, Says
<1>2. proc \in [Procs -> Stages] /\ NoProc \notin Procs
  BY DaemonAssumption DEF IInv, DaemonTypeOK, Stages
<1>3. proc' \in [Procs -> Stages] /\ \A q \in Procs : q # p => proc'[q] = proc[q]
  BY <1>1, <1>2 DEF Stages
<1>4. DaemonTypeOK' /\ PortHeld'
  <2>1. proc'[p] = "started" /\ port # p
    BY <1>1, <1>2 DEF IInv, PortHeld
  <2>2. port' # NoProc => Alive(port)'
    <3>1. port' = port /\ port \in Procs \cup {NoProc}
      BY <1>1 DEF IInv, DaemonTypeOK
    <3>2. port # NoProc => Alive(port) /\ port # p
      BY <2>1 DEF IInv, DaemonTypeOK
    <3> QED
      BY <1>3, <3>1, <3>2 DEF Alive
  <2>3. DaemonTypeOK'
    BY <1>1, <1>3, <2>2 DEF IInv, DaemonTypeOK, Stages
  <2>4. PortHeld'
    BY <1>1, <1>3, <2>1 DEF IInv, PortHeld
  <2> QED
    BY <2>3, <2>4
<1>5. Orderly => \A q \in Procs : q # p => ~Alive(q)'
  BY <1>1, <1>2, <1>3 DEF IInv, Orders, Alone, Alive
<1>6. Orderly => Alone'
  BY <1>1, <1>5 DEF Alone
<1>7. Orderly => Named' /\ StatusTruthful'
  BY <1>1, <1>2, <1>5 DEF Named, StatusTruthful, Alive, Stages
<1> QED
  BY <1>4, <1>6, <1>7 DEF IInv, Orders

LEMMA CommandInv ==
    ASSUME IInv, Status \/ StopChecks \/ StopPolls \/ ParentWritesPID
    PROVE  IInv'
<1>1. proc' = proc /\ port' = port
  BY DEF Status, StopChecks, StopPolls, ParentWritesPID
<1>2. {p \in Procs : proc[p] = "serving"} \subseteq Procs /\ NoProc \notin Procs
  BY DaemonAssumption
<1>3. IsRunning \in {"no PID file", "running", "not running"}
  BY DEF IsRunning
<1>4. DaemonTypeOK' /\ PortHeld'
  <2>1. CASE Status
    BY <1>1, <1>2, <1>3, <2>1 DEF Status, Says, IInv, DaemonTypeOK, PortHeld, Alive
  <2>2. CASE StopChecks
    BY <1>1, <1>2, <1>3, <2>2 DEF StopChecks, Says, IsRunning, Idle, IInv, DaemonTypeOK,
       PortHeld, Alive
  <2>3. CASE StopPolls
    BY <1>1, <1>2, <2>3 DEF StopPolls, StopReturns, Says, IInv, DaemonTypeOK, PortHeld, Alive
  <2>4. CASE ParentWritesPID
    BY <1>1, <2>4 DEF ParentWritesPID, IInv, DaemonTypeOK, PortHeld, Alive
  <2> QED
    BY <2>1, <2>2, <2>3, <2>4
<1>5. ASSUME Orderly PROVE Alone' /\ Named' /\ StatusTruthful'
  <2>1. ASSUME Says(IsRunning), Settled, UNCHANGED <<pidFile, forking, stop, stopping>>
        PROVE  Alone' /\ Named' /\ StatusTruthful'
    <3>1. IsRunning = "not running" => \A p \in Procs : ~Alive(p)
      BY <1>5, <2>1, NothingRuns
    <3>2. answer' # "stopped" /\ (answer' = "not running" => \A p \in Procs : ~Alive(p))
      BY <1>3, <2>1, <3>1 DEF Says
    <3>3. Alone' /\ Named'
      BY <1>1, <1>5, <2>1, <3>2 DEF IInv, Orders, Alone, Named, Alive
    <3>4. StatusTruthful'
      BY <2>1, <3>2 DEF StatusTruthful, Says, Alive
    <3> QED
      BY <3>3, <3>4
  <2>2. CASE Status
    BY <2>1, <2>2 DEF Status
  <2>3. CASE StopChecks
    <3>1. CASE IsRunning = "running"
      <4>1. /\ Alive(pidFile) /\ pidFile \in Procs
            /\ stopping' = pidFile /\ UNCHANGED <<pidFile, forking, answer, then>>
        BY <2>3, <3>1 DEF StopChecks, IsRunning, IInv, DaemonTypeOK
      <4> QED
        BY <1>1, <1>5, <4>1 DEF IInv, Orders, Alone, Named, StatusTruthful, Alive
    <3>2. CASE IsRunning # "running"
      BY <2>1, <2>3, <3>2 DEF StopChecks
    <3> QED
      BY <3>1, <3>2
  <2>4. CASE StopPolls
    <3>1. /\ stop = "poll" /\ answer' \in {"stopped", "timed out"}
          /\ answer' = "stopped" => ~Alive(stopping)
          /\ stop' = "idle" /\ UNCHANGED <<pidFile, forking>>
      BY <2>4 DEF StopPolls, StopReturns, Says
    <3>2. answer' = "stopped" => \A p \in Procs : ~Alive(p)
      BY <1>5, <3>1 DEF IInv, Orders, Alone
    <3> QED
      BY <1>1, <1>5, <3>1, <3>2 DEF IInv, Orders, Alone, Named, StatusTruthful, Alive
  <2>5. CASE ParentWritesPID
    <3>1. /\ forking # NoProc /\ pidFile' = forking /\ forking' = NoProc
          /\ UNCHANGED <<stop, stopping, answer, then>>
      BY <2>5 DEF ParentWritesPID
    <3>2. \A p \in Procs : Alive(p) => p = forking
      BY <1>5, <3>1 DEF IInv, Orders, Alone
    <3>3. Alone' /\ StatusTruthful'
      BY <1>1, <1>5, <3>1 DEF IInv, Orders, Alone, StatusTruthful, Alive
    <3>4. Named'
      BY <1>1, <3>1, <3>2 DEF Named, Alive
    <3> QED
      BY <3>3, <3>4
  <2> QED
    BY <2>2, <2>3, <2>4, <2>5
<1> QED
  BY <1>4, <1>5 DEF IInv, Orders

LEMMA SignalInv ==
    ASSUME IInv, StopSignals
    PROVE  IInv'
<1>1. stopping \in Procs /\ NoProc \notin Procs /\ proc \in [Procs -> Stages]
  BY DaemonAssumption DEF StopSignals, IInv, DaemonTypeOK, Stages
<1>2. CASE Alive(stopping)
  <2>1. /\ stop' = "poll" /\ UNCHANGED <<stopping, answer, then, pidFile, forking>>
        /\ Receives(stopping)
    BY <1>2 DEF StopSignals
  <2>2. PICK to \in {"leaving", "gone"} :
           /\ proc' = [proc EXCEPT ![stopping] = to]
           /\ to = "leaving" => proc[stopping] = "serving" /\ port' = port
           /\ to = "gone" => port' = IF port = stopping THEN NoProc ELSE port
    BY <2>1 DEF Receives, Ends
  <2>3. PortHeld'
    BY <1>1, <2>2 DEF IInv, PortHeld
  <2>4. DaemonTypeOK'
    <3>1. proc' \in [Procs -> Stages] /\ port' \in Procs \cup {NoProc}
      BY <1>1, <2>2 DEF Stages, IInv, DaemonTypeOK
    <3>2. port' # NoProc => proc'[port'] \notin {"unborn", "gone"}
      BY <2>3, <3>1 DEF PortHeld
    <3>3. stop # "idle"
      BY DEF StopSignals
    <3> QED
      BY <1>1, <2>1, <3>1, <3>2, <3>3 DEF IInv, DaemonTypeOK, Stages, Alive
  <2>5. \A p \in Procs : Alive(p)' => Alive(p)
    BY <1>1, <1>2, <2>2 DEF Alive
  <2>6. stop # "idle"
    BY DEF StopSignals
  <2>7. ASSUME Orderly PROVE Alone' /\ Named' /\ StatusTruthful'
    <3>1. Alone' /\ StatusTruthful'
      BY <2>1, <2>5, <2>6, <2>7 DEF IInv, Orders, Alone, StatusTruthful, Alive
    <3>2. Named'
      <4>1. \A p \in Procs : proc'[p] = proc[p]
                               \/ proc'[p] = "gone"
                               \/ (proc'[p] = "leaving" /\ proc[p] = "serving")
        BY <1>1, <2>2
      <4> QED
        BY <2>1, <2>7, <4>1 DEF IInv, Orders, Named
    <3> QED
      BY <3>1, <3>2
  <2> QED
    BY <2>3, <2>4, <2>7 DEF IInv, Orders
<1>3. CASE ~Alive(stopping)
  <2>1. /\ UNCHANGED <<proc, port, pidFile, forking>>
        /\ stop' = "idle" /\ stopping' = NoProc /\ answer' = "not signalled"
        /\ then' \subseteq Procs
    BY <1>3 DEF StopSignals, StopReturns, Says
  <2> QED
    BY <2>1 DEF IInv, DaemonTypeOK, PortHeld, Orders, Alone, Named, StatusTruthful, Alive
<1> QED
  BY <1>2, <1>3

-----------------------------------------------------------------------------
(* Theorems *)

LEMMA Inductive == Spec => []IInv
<1>1. IInv /\ [Next]_vars => IInv'
  <2> SUFFICES ASSUME IInv, [Next]_vars PROVE IInv'
    OBVIOUS
  <2>1. CASE UNCHANGED vars
    BY <2>1 DEF vars, IInv, DaemonTypeOK, PortHeld, Orders, Alone, Named, StatusTruthful, Alive
  <2> QED
    BY <2>1, ProcessInv, StartInv, CommandInv, SignalInv DEF Next, StopCommand
<1> QED
  BY <1>1, InitInv, PTL DEF Spec

(* Every variable keeps its type, and the port is never held by a process  *)
(* that is gone, whatever the user does.                                   *)
THEOREM TypeCorrect == Spec => []DaemonTypeOK
<1>1. IInv => DaemonTypeOK
  BY DEF IInv
<1> QED
  BY <1>1, Inductive, PTL

(* -stop and -status reach the process that serves: the PID file names it, *)
(* whatever its predecessors and its own parent still write or remove      *)
(* (daemon.go:66-99, main.go).                                             *)
THEOREM ServerIsNamed == Spec => [](Orderly => FileNamesServer)
<1>1. IInv => (Orderly => FileNamesServer)
  BY DEF IInv, Orders, Named, FileNamesServer
<1> QED
  BY <1>1, Inductive, PTL

(* After a success of -stop nothing of a process is left, and no start     *)
(* after it finds the port taken (daemon.go:156).                          *)
THEOREM StopIsBelievable == Spec => [](Orderly => StopReleases)
<1>1. IInv => (Orderly => StopReleases)
  <2> SUFFICES ASSUME IInv, Orderly PROVE StopReleases
    OBVIOUS
  <2>1. /\ port \in Procs \cup {NoProc}
        /\ port # NoProc => Alive(port)
    BY DEF IInv, DaemonTypeOK
  <2>2. answer = "stopped" => port = NoProc /\ \A p \in Procs : ~Alive(p)
    BY <2>1 DEF IInv, Orders, Alone
  <2>3. \A p \in Procs : proc[p] = "named" => port = NoProc
    BY <2>1 DEF IInv, Orders, Alone, PortHeld, Alive
  <2> QED
    BY <2>2, <2>3 DEF StopReleases
<1> QED
  BY <1>1, Inductive, PTL

(* -status does not say that nothing runs while a process serves.          *)
THEOREM StatusIsBelievable == Spec => [](Orderly => StatusTruthful)
<1>1. IInv => (Orderly => StatusTruthful)
  BY DEF IInv, Orders
<1> QED
  BY <1>1, Inductive, PTL
=============================================================================
