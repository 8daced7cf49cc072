------------------------------- MODULE Daemon -------------------------------
(***************************************************************************)
(* The processes of one configuration: they share a PID file and a port    *)
(* (cmd/main.go, internal/daemon, the start of App.Run).  One user types   *)
(* one command after the other: start in the background or with -fg,       *)
(* -status, -stop.  Each process starts once, its PID is not given to      *)
(* another program, and the PID file can be written and removed.           *)
(*                                                                         *)
(* "leaving" is what App details: from the signal to the return of main.   *)
(***************************************************************************)
EXTENDS FiniteSets

CONSTANTS
    Procs,
    NoProc,     \* no PID file, or nobody on the port
    Orderly     \* TRUE: the user starts a process only when the last command
                \* said that none is left

ASSUME DaemonAssumption == NoProc \notin Procs /\ Orderly \in BOOLEAN

VARIABLES
    proc,       \* how far each process is
    port,       \* the process that listens on BIND_ADDR
    pidFile,    \* the process the PID file names
    forking,    \* the child whose parent has not written the PID file yet
    stop,       \* where the -stop command is
    stopping,   \* the process it has found
    answer,     \* what the last command said
    then        \* auxiliary: the processes that served when it did

vars == <<proc, port, pidFile, forking, stop, stopping, answer, then>>

Alive(p) == proc[p] \notin {"unborn", "gone"}

Init ==
    /\ proc = [p \in Procs |-> "unborn"]
    /\ port = NoProc
    /\ pidFile = NoProc
    /\ forking = NoProc
    /\ stop = "idle" /\ stopping = NoProc
    /\ answer = "not running" /\ then = {}

-----------------------------------------------------------------------------
(* The user's commands *)

Idle == stop = "idle" /\ forking = NoProc

(* A process that is coming up has written its PID.                        *)
Settled == Orderly => \A p \in Procs : proc[p] = "started" => pidFile = p

Says(what) == answer' = what /\ then' = {p \in Procs : proc[p] = "serving"}

Start(p) ==
    /\ Idle
    /\ Orderly => answer \in {"not running", "stopped"}
    /\ proc[p] = "unborn"
    /\ proc' = [proc EXCEPT ![p] = "started"]
    /\ Says("started")
    /\ UNCHANGED <<port, pidFile, stop, stopping>>

StartForeground(p) == Start(p) /\ UNCHANGED forking

(* Daemonize: the parent goes on beside its child.                         *)
Daemonize(p) == Start(p) /\ forking' = p

ParentWritesPID ==
    /\ forking # NoProc
    /\ pidFile' = forking
    /\ forking' = NoProc
    /\ UNCHANGED <<proc, port, stop, stopping, answer, then>>

(* -status; a process that is gone is told from a running one by signal 0. *)
IsRunning ==
    IF pidFile = NoProc THEN "no PID file"
    ELSE IF Alive(pidFile) THEN "running" ELSE "not running"

Status ==
    /\ Idle /\ Settled
    /\ Says(IsRunning)
    /\ UNCHANGED <<proc, port, pidFile, forking, stop, stopping>>

StopChecks ==
    /\ Idle /\ Settled
    /\ IF IsRunning = "running"
       THEN stop' = "signal" /\ stopping' = pidFile /\ UNCHANGED <<answer, then>>
       ELSE UNCHANGED <<stop, stopping>> /\ Says(IsRunning)
    /\ UNCHANGED <<proc, port, pidFile, forking>>

StopReturns(what) == stop' = "idle" /\ stopping' = NoProc /\ Says(what)

(* The end of a process frees its port; the PID file stays.                *)
Ends(p) ==
    /\ proc' = [proc EXCEPT ![p] = "gone"]
    /\ port' = IF port = p THEN NoProc ELSE port

(* SIGTERM or SIGINT: shut down once handleSignals listens, for the first  *)
(* signal only; otherwise the default action.                              *)
Receives(p) ==
    IF proc[p] = "serving"
    THEN proc' = [proc EXCEPT ![p] = "leaving"] /\ UNCHANGED port
    ELSE Ends(p)

(* Mutant: Stop takes the delivery of the signal for the end.              *)
StopSignalsOnly ==
    /\ stop = "signal"
    /\ IF Alive(stopping)
       THEN Receives(stopping) /\ StopReturns("stopped")
       ELSE StopReturns("not signalled") /\ UNCHANGED <<proc, port>>
    /\ UNCHANGED <<pidFile, forking>>

StopSignals ==
    /\ stop = "signal"
    /\ IF Alive(stopping)
       THEN Receives(stopping) /\ stop' = "poll" /\ UNCHANGED <<stopping, answer, then>>
       ELSE StopReturns("not signalled") /\ UNCHANGED <<proc, port>>
    /\ UNCHANGED <<pidFile, forking>>

(* Mutants: there is no deadline; the deadline passes for a success.       *)
StopPollsOn ==
    /\ stop = "poll"
    /\ ~Alive(stopping) /\ StopReturns("stopped")
    /\ UNCHANGED <<proc, port, pidFile, forking>>

StopGivesUpQuietly ==
    /\ stop = "poll"
    /\ StopReturns("stopped")
    /\ UNCHANGED <<proc, port, pidFile, forking>>

(* Every 100 ms for ten seconds.                                           *)
StopPolls ==
    /\ stop = "poll"
    /\ \/ ~Alive(stopping) /\ StopReturns("stopped")
       \/ Alive(stopping) /\ StopReturns("timed out")
    /\ UNCHANGED <<proc, port, pidFile, forking>>

-----------------------------------------------------------------------------
(* A process: main and App.Run *)

Goto(p, from, to) == proc[p] = from /\ proc' = [proc EXCEPT ![p] = to]

(* Mutant: the PID file is left to the parent of the process.              *)
WritePIDNot(p) ==
    /\ Goto(p, "started", "named")
    /\ UNCHANGED <<port, pidFile, forking, stop, stopping, answer, then>>

WritePID(p) ==
    /\ Goto(p, "started", "named")
    /\ pidFile' = p
    /\ UNCHANGED <<port, forking, stop, stopping, answer, then>>

Listen(p) ==
    /\ port = NoProc
    /\ Goto(p, "named", "listening")
    /\ port' = p
    /\ UNCHANGED <<pidFile, forking, stop, stopping, answer, then>>

(* log.Fatalf: the address is in use, by another program perhaps, or       *)
(* connectServers finds no server.  No deferred call runs.                 *)
Fatal(p) ==
    /\ proc[p] \in {"named", "listening"}
    /\ Ends(p)
    /\ UNCHANGED <<pidFile, forking, stop, stopping, answer, then>>

(* handleSignals follows connectServers.                                   *)
Serve(p) ==
    /\ Goto(p, "listening", "serving")
    /\ UNCHANGED <<port, pidFile, forking, stop, stopping, answer, then>>

CloseListener(p) ==
    /\ proc[p] = "leaving" /\ port = p
    /\ port' = NoProc
    /\ UNCHANGED <<proc, pidFile, forking, stop, stopping, answer, then>>

(* Whatever the file says; the listener may be open still.                 *)
RemovePID(p) ==
    /\ Goto(p, "leaving", "exiting")
    /\ pidFile' = NoProc
    /\ UNCHANGED <<port, forking, stop, stopping, answer, then>>

Exit(p) ==
    /\ proc[p] = "exiting"
    /\ Ends(p)
    /\ UNCHANGED <<pidFile, forking, stop, stopping, answer, then>>

-----------------------------------------------------------------------------
(* A signal that is not -stop's, for instance Ctrl-C, and a crash          *)

Interrupt(p) ==
    /\ Alive(p)
    /\ Receives(p)
    /\ UNCHANGED <<pidFile, forking, stop, stopping, answer, then>>

Crash(p) ==
    /\ Alive(p)
    /\ Ends(p)
    /\ UNCHANGED <<pidFile, forking, stop, stopping, answer, then>>

-----------------------------------------------------------------------------
StopCommand == StopSignals \/ StopPolls

Runs(p) == WritePID(p) \/ Listen(p) \/ Fatal(p) \/ Serve(p) \/ CloseListener(p)
           \/ RemovePID(p) \/ Exit(p)

Next ==
    \/ Status \/ StopChecks \/ StopCommand \/ ParentWritesPID
    \/ \E p \in Procs :
          StartForeground(p) \/ Daemonize(p) \/ Runs(p) \/ Interrupt(p) \/ Crash(p)

Spec == Init /\ [][Next]_vars

(* The commands run; a process may hang in a dial or in its shutdown.      *)
FairSpec == Spec /\ WF_vars(StopCommand)

-----------------------------------------------------------------------------
(* Properties *)

DaemonTypeOK ==
    /\ proc \in [Procs -> {"unborn", "started", "named", "listening", "serving", "leaving",
                           "exiting", "gone"}]
    /\ {port, pidFile, forking, stopping} \subseteq Procs \cup {NoProc}
    /\ stop \in {"idle", "signal", "poll"}
    /\ answer \in {"started", "no PID file", "running", "not running", "not signalled",
                   "stopped", "timed out"}
    /\ then \subseteq Procs
    /\ stop = "idle" <=> stopping = NoProc
    /\ port # NoProc => Alive(port)

(* -stop and -status can reach the process that serves: the PID file names *)
(* it, whatever the processes before it, its own parent included, still    *)
(* wrote or removed.                                                       *)
FileNamesServer == \A p \in Procs : proc[p] = "serving" => pidFile = p

(* daemon.go:156: -stop waits "for the process to actually exit so the     *)
(* port is released": after its success nothing of a process is left, and  *)
(* no start after it finds the port taken by one.                          *)
StopReleases ==
    /\ answer = "stopped" => port = NoProc /\ \A p \in Procs : ~Alive(p)
    /\ \A p \in Procs : proc[p] = "named" => port = NoProc

(* README.md:119: -status is to "Check daemon status": it does not say that *)
(* nothing runs while a process serves.                                     *)
StatusTruthful == answer = "not running" => then = {}

(* -stop ends, with an error if the process does not.                      *)
StopSettles == stop # "idle" ~> stop = "idle"
=============================================================================
