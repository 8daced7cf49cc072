----------------------------- MODULE PoolLocks ------------------------------
(***************************************************************************)
(* The pool of RoundRobin at the level of its locks and loops.  A caller   *)
(* takes rr.mu and keeps it over every SSH dial and keepalive of its call; *)
(* HealthCheck keeps c.mu over its keepalive as well.  Either may last for *)
(* ever: ssh.Dial bounds the TCP connect alone, a ProxyCommand and a       *)
(* keepalive have no deadline at all.                                      *)
(*                                                                         *)
(* The loops are the ones of the code, server by server.  What they write  *)
(* under rr.mu is written when rr.mu is released, since nobody can look    *)
(* before; connections change at once, since Client() needs c.mu only.     *)
(***************************************************************************)
EXTENDS RoundRobin

CONSTANTS
    Requesters, \* goroutines that select an upstream
    NoCall      \* rr.mu is free

VARIABLES
    pc,     \* "idle", "lock" (in rr.mu.Lock), "call" (holds rr.mu), or
            \* "client" (about to call Client() on what it selected)
    got,    \* the client a requester selected
    call,   \* the call that holds rr.mu and its locals
    shown   \* auxiliary: a connection as the last finished call left it,
            \* where that is not what it is now, else "same"

vars == <<poolVars, pc, got, call, shown>>

Procs == Requesters \cup {"health", "shutdown"}

(* at is where the loop of the call is, step its counter; seen are the     *)
(* addresses whose table entry was looked at, ok the slots that answered.  *)
Call == [by : Procs,
         at : {"active", "dialActive", "scan", "dial",
               "probe", "keepalive", "redial", "close"},
         step : Nat, t : Targets \cup {NoTarget}, exclude : SUBSET Addrs,
         seen : SUBSET Addrs, ok : SUBSET Nat]

ASSUME LocksAssumption == NoCall \notin Call

LocksInit ==
    /\ Init
    /\ pc = [p \in Procs |-> "idle"]
    /\ got = [p \in Requesters |-> NoClient]
    /\ call = NoCall
    /\ shown = [c \in Clients |-> "same"]

-----------------------------------------------------------------------------
(* Entering and leaving rr.mu *)

Goto(p, from, to) == pc[p] = from /\ pc' = [pc EXCEPT ![p] = to]

Want(p) ==
    /\ phase # "startup"
    /\ p = "shutdown" => phase = "running"
    /\ Goto(p, "idle", "lock")
    /\ UNCHANGED <<poolVars, got, call, shown>>

(* The auxiliary variable settles before the next call; see Settle.        *)
Enter(p, at, t, exclude) ==
    /\ call = NoCall
    /\ \A c \in Clients : shown[c] = "same"
    /\ Goto(p, "lock", "call")
    /\ call' = [by |-> p, at |-> at, step |-> 0, t |-> t, exclude |-> exclude,
                seen |-> {}, ok |-> {}]
    /\ UNCHANGED <<poolVars, got, shown>>

(* A call on an empty pool returns at once.                                *)
EnterEmpty(p) ==
    /\ call = NoCall
    /\ servers = <<>> /\ p # "shutdown"
    /\ Goto(p, "lock", "idle")
    /\ UNCHANGED <<poolVars, got, call, shown>>

(* Mutant: a call that gives up keeps rr.mu.                               *)
LeaveLocked(p, to) ==
    /\ Goto(p, "call", to)
    /\ call' = IF to = "idle" /\ p \in Requesters THEN call ELSE NoCall
    /\ shown' = [c \in Clients |-> "same"]

(* rr.mu is released.  A peer that died after it had answered this health  *)
(* check is one that died after the call.                                  *)
Leave(p, to) ==
    /\ Goto(p, "call", to)
    /\ call' = NoCall
    /\ shown' = [c \in Clients |->
           IF shown[c] = "alive" /\ conn'[c] = "dead" THEN "alive" ELSE "same"]

At(where) == call # NoCall /\ call.at \in where
Move(at, step) == [call EXCEPT !.at = at, !.step = step]

-----------------------------------------------------------------------------
(* GetForTarget *)

EnterGet(p, t, exclude) ==
    /\ servers # <<>>
    /\ Enter(p, IF Strategy = "failover" /\ hasActive THEN "active" ELSE "scan", t, exclude)

(* startIdx + checked, and the server it designates.                       *)
LoopSlot ==
    IF Strategy = "loadbalance"
    THEN ((index + call.step) % IndexSize) % Len(servers)
    ELSE ((IF hasActive THEN (activeIdx + 1) % Len(servers) ELSE index % Len(servers))
          + call.step) % Len(servers)

Slot == CASE At({"active", "dialActive"}) -> activeIdx
          [] At({"scan", "dial"}) -> LoopSlot
          [] OTHER -> call.step

Current == servers[Slot + 1]

(* The next server, after the active one the first of the scan.            *)
Continue(seen) ==
    [Move("scan", IF At({"active", "dialActive"}) THEN 0 ELSE call.step + 1)
        EXCEPT !.seen = seen]

(* The scan does not return to the active server.                          *)
PassedOver ==
    \/ call.at = "scan" /\ Strategy = "failover" /\ hasActive /\ Slot = activeIdx
    \/ AddrOf[Current] \in call.exclude

Looked == call.seen \cup {AddrOf[Current]}

InLoop == At({"active"}) \/ (At({"scan"}) /\ call.step < Len(servers))

(* Mutant: the loop is left at a server that may not be dialled.           *)
SkipBreaks ==
    /\ InLoop
    /\ \/ PassedOver /\ call' = Continue(call.seen)
       \/ /\ ~PassedOver /\ IsTargetBlocked(Current, call.t)
          /\ call' = Continue(Looked)
       \/ /\ ~PassedOver /\ ~Connected(Current) /\ ~MayDial
          /\ call' = [Move("scan", Len(servers)) EXCEPT !.seen = Looked]
    /\ UNCHANGED <<poolVars, pc, got, shown>>

Skip ==
    /\ InLoop
    /\ \/ PassedOver /\ call' = Continue(call.seen)
       \/ /\ ~PassedOver
          /\ \/ IsTargetBlocked(Current, call.t)
             \/ ~Connected(Current) /\ ~MayDial
          /\ call' = Continue(Looked)
    /\ UNCHANGED <<poolVars, pc, got, shown>>

Suitable == InLoop /\ ~PassedOver /\ ~IsTargetBlocked(Current, call.t)

StartDial ==
    /\ Suitable /\ ~Connected(Current) /\ MayDial
    /\ call' = [Move(IF call.at = "active" THEN "dialActive" ELSE "dial", call.step)
                   EXCEPT !.seen = Looked]
    /\ UNCHANGED <<poolVars, pc, got, shown>>

(* OnConnectionError hands the address on and the loop continues.          *)
DialFails ==
    /\ At({"dialActive", "dial"})
    /\ call' = Continue(call.seen)
    /\ UNCHANGED <<poolVars, pc, got, shown>>

(* The call returns the current server.                                    *)
Return(seen) ==
    /\ Dialed(Current)
    /\ IF Strategy = "failover" THEN Activate(Slot) ELSE KeepActive
    /\ AdvanceIndex
    /\ targetFailures' = DropStale(call.t, seen)
    /\ UNCHANGED <<phase, servers>>
    /\ got' = [got EXCEPT ![call.by] = Current]
    /\ Leave(call.by, "client")

Found == Suitable /\ Connected(Current) /\ Return(Looked)
DialSucceeds == At({"dialActive", "dial"}) /\ Return(call.seen)

NoServer ==
    /\ At({"scan"}) /\ call.step = Len(servers)
    /\ IF Strategy = "failover" THEN Deactivate ELSE KeepActive
    /\ AdvanceIndex
    /\ targetFailures' = DropStale(call.t, call.seen)
    /\ UNCHANGED <<phase, servers, conn, healthy, got>>
    /\ Leave(call.by, "idle")

-----------------------------------------------------------------------------
(* RunHealthChecks *)

EnterHealth == servers # <<>> /\ Enter("health", "probe", NoTarget, {})

Probe ==
    /\ At({"probe"}) /\ call.step < Len(servers)
    /\ call' = IF Connected(Current) THEN Move("keepalive", call.step)
                                     ELSE Move("probe", call.step + 1)
    /\ UNCHANGED <<poolVars, pc, got, shown>>

(* Mutant: a connection is closed and its client stays healthy.            *)
CutUnmarked(c) == /\ conn' = [conn EXCEPT ![c] = "none"]
                  /\ UNCHANGED healthy

Cut(c) == /\ conn' = [conn EXCEPT ![c] = "none"]
          /\ healthy' = [healthy EXCEPT ![c] = FALSE]

KeepaliveReturns ==
    /\ At({"keepalive"})
    /\ UNCHANGED <<phase, servers, index, hasActive, activeIdx, targetFailures, pc, got>>
    /\ \/ /\ conn[Current] = "alive"
          /\ call' = [Move("probe", call.step + 1) EXCEPT !.ok = @ \cup {call.step}]
          /\ UNCHANGED <<conn, healthy, shown>>
       \/ /\ conn[Current] = "dead"
          /\ Cut(Current)
          /\ shown' = [shown EXCEPT ![Current] = "dead"]
          /\ call' = Move("probe", call.step + 1)

LeaveHealth == /\ UNCHANGED <<phase, servers, index, targetFailures, got>>
               /\ Leave("health", "idle")

(* Mutant: the strategy is not looked at.                                  *)
JudgeAny ==
    /\ At({"probe"}) /\ call.step = Len(servers)
    /\ IF hasActive /\ activeIdx \in call.ok THEN KeepActive
       ELSE call.ok # {} /\ Activate(Min(call.ok))
    /\ UNCHANGED <<conn, healthy>>
    /\ LeaveHealth

(* The active server answered, or is replaced by the first that did.       *)
Judge ==
    /\ At({"probe"}) /\ call.step = Len(servers)
    /\ IF Strategy = "loadbalance" \/ (hasActive /\ activeIdx \in call.ok) THEN KeepActive
       ELSE call.ok # {} /\ Activate(Min(call.ok))
    /\ UNCHANGED <<conn, healthy>>
    /\ LeaveHealth

StartRedial ==
    /\ At({"probe"}) /\ call.step = Len(servers)
    /\ Strategy = "failover" /\ call.ok = {}
    /\ call' = Move("redial", 0)
    /\ UNCHANGED <<poolVars, pc, got, shown>>

RedialFails ==
    /\ At({"redial"}) /\ call.step < Len(servers)
    /\ call' = Move("redial", call.step + 1)
    /\ UNCHANGED <<poolVars, pc, got, shown>>

RedialSucceeds ==
    /\ At({"redial"}) /\ call.step < Len(servers)
    /\ Dialed(Current)
    /\ Activate(Slot)
    /\ LeaveHealth

NoneAlive ==
    /\ At({"redial"}) /\ call.step = Len(servers)
    /\ Deactivate
    /\ UNCHANGED <<conn, healthy>>
    /\ LeaveHealth

-----------------------------------------------------------------------------
(* CloseAll *)

EnterClose == Enter("shutdown", "close", NoTarget, {})

CloseNext ==
    /\ At({"close"}) /\ call.step < Len(servers)
    /\ Cut(Current)
    /\ shown' = IF Connected(Current) THEN [shown EXCEPT ![Current] = conn[Current]] ELSE shown
    /\ call' = Move("close", call.step + 1)
    /\ UNCHANGED <<phase, servers, index, hasActive, activeIdx, targetFailures, pc, got>>

CloseDone ==
    /\ At({"close"}) /\ call.step = Len(servers)
    /\ phase' = "closed"
    /\ servers' = <<>>
    /\ Deactivate
    /\ UNCHANGED <<index, conn, healthy, targetFailures, got>>
    /\ Leave("shutdown", "idle")

-----------------------------------------------------------------------------
(* The others *)

(* A dial, or a keepalive, that has not returned yet.                      *)
Dialing == At({"dialActive", "dial"}) \/ (At({"redial"}) /\ call.step < Len(servers))
Probing == At({"keepalive"})

(* Mutant: Reconnect keeps the mutex of the client over the dial.          *)
ReadClientAfterDial(p) ==
    /\ ~((Probing \/ Dialing) /\ Current = got[p])
    /\ Goto(p, "client", "idle")
    /\ got' = [got EXCEPT ![p] = NoClient]
    /\ UNCHANGED <<poolVars, call, shown>>

(* Client() waits while a keepalive holds the mutex of this client.        *)
ReadClient(p) ==
    /\ ~(Probing /\ Current = got[p])
    /\ Goto(p, "client", "idle")
    /\ got' = [got EXCEPT ![p] = NoClient]
    /\ UNCHANGED <<poolVars, call, shown>>

(* Calls that neither loop nor wait while they hold rr.mu.                 *)
Brief ==
    /\ call = NoCall
    /\ Startup \/ Report \/ Cleanup
    /\ UNCHANGED <<pc, got, call, shown>>

(* Auxiliary: the death of a peer during a call becomes visible after it.  *)
Settle(c) ==
    /\ call = NoCall /\ shown[c] # "same"
    /\ shown' = [shown EXCEPT ![c] = "same"]
    /\ UNCHANGED <<poolVars, pc, got, call>>

(* A selection reads the clock once, after it has taken rr.mu: an entry    *)
(* that expires during it does so after it.                                *)
Environs ==
    /\ \/ \E c \in Clients :
             /\ PeerDies(c)
             /\ shown' = IF call # NoCall /\ \E i \in call.ok : servers[i + 1] = c
                         THEN [shown EXCEPT ![c] = "alive"] ELSE shown
       \/ \E p \in Addrs \X Targets :
             /\ At({"probe", "keepalive", "redial", "close"}) \/ call = NoCall
             /\ Expire(p[1], p[2])
             /\ UNCHANGED shown
    /\ UNCHANGED <<pc, got, call>>

Enters(p) ==
    \/ EnterEmpty(p)
    \/ /\ p \in Requesters
       /\ \E t \in Targets \cup {NoTarget}, exclude \in SUBSET Addrs : EnterGet(p, t, exclude)
    \/ p = "health" /\ EnterHealth
    \/ p = "shutdown" /\ EnterClose

(* What the holder of rr.mu does without waiting for the network.          *)
Works == Skip \/ StartDial \/ Found \/ NoServer \/ Probe \/ Judge \/ StartRedial
         \/ NoneAlive \/ CloseNext \/ CloseDone

NetworkReturns == DialFails \/ DialSucceeds \/ KeepaliveReturns \/ RedialFails
                  \/ RedialSucceeds

LocksNext ==
    \/ \E p \in Procs : Want(p) \/ Enters(p)
    \/ \E p \in Requesters : ReadClient(p)
    \/ \E c \in Clients : Settle(c)
    \/ Works \/ NetworkReturns \/ Brief \/ Environs

LocksSpec == LocksInit /\ [][LocksNext]_vars

(* Goroutines are scheduled, and sync.RWMutex and sync.Mutex starve no one *)
(* (a waiter of more than 1 ms is served first).  Nothing obliges the      *)
(* network to answer.                                                      *)
LocksFairSpec ==
    /\ LocksSpec
    /\ WF_vars(Works)
    /\ WF_vars(\E c \in Clients : Settle(c))
    /\ \A p \in Procs : SF_vars(Enters(p))
    /\ \A p \in Requesters : SF_vars(ReadClient(p))

-----------------------------------------------------------------------------
(* Properties *)

LocksTypeOK ==
    /\ TypeOK
    /\ pc \in [Procs -> {"idle", "lock", "call", "client"}]
    /\ got \in [Requesters -> Clients \cup {NoClient}]
    /\ call \in Call \cup {NoCall}
    /\ shown \in [Clients -> {"same", "alive", "dead"}]

(* A selection that is about to return an error has looked at every server *)
(* its request may use, and none of them has a connection: what the loop   *)
(* skips, dials in vain or meets first (strategy.go:14-60,88-114) hides no *)
(* upstream that would do, except at the wrap-around (see ScanWraps).      *)
NoneLeftOut ==
    At({"scan"}) /\ call.step = Len(servers) /\ ~ScanWraps =>
        \A c \in ToSet(servers) :
            Eligible(c, call.t, call.exclude) => ~Connected(c) /\ AddrOf[c] \in call.seen

(* The pool as it shows between the calls.                                 *)
connShown == [c \in Clients |-> IF shown[c] = "same" THEN conn[c] ELSE shown[c]]
healthyShown == [c \in Clients |-> shown[c] # "same" \/ healthy[c]]

(* The loops under rr.mu implement the atomic calls of RoundRobin, dying   *)
(* peers and readers in the middle of a call included.                     *)
Pool == INSTANCE RoundRobin WITH conn <- connShown, healthy <- healthyShown

AtomicCalls == Pool!Spec

(* Every call gets rr.mu and returns, unless one dial or keepalive lasts   *)
(* for ever: a silent peer stops every request, but the locks by           *)
(* themselves stop none.                                                   *)
CallsReturn ==
    \/ <>[](Dialing \/ Probing)
    \/ \A p \in Procs : pc[p] # "idle" ~> pc[p] = "idle"

(* A request that has its upstream gets on with it while others dial, even *)
(* if their dial lasts for ever; only a silent keepalive can stop it.      *)
ReadsReturn ==
    \/ <>[]Probing
    \/ \A p \in Requesters : pc[p] = "client" ~> pc[p] = "idle"
=============================================================================
