----------------------------- MODULE RoundRobin -----------------------------
(***************************************************************************)
(* The upstream pool of internal/sshroundrobin: the RoundRobin object, the *)
(* SSHClient objects it owns and the table of failed (upstream, target)    *)
(* pairs.                                                                  *)
(*                                                                         *)
(* Every method of RoundRobin that writes holds rr.mu from its first       *)
(* statement to its return, the SSH dials and keepalive requests included, *)
(* and no SSHClient changes its connection outside such a method, so one   *)
(* call is one action.  The connection of a client is only replaced when   *)
(* c.client is nil (EnsureConnected), hence the window in which Reconnect  *)
(* has released c.mu shows a reader the same nil it saw before the call.   *)
(*                                                                         *)
(* Time is abstract: BlockedUntil is its zero value, in the future or in   *)
(* the past, and Expire lets it pass.                                      *)
(***************************************************************************)
EXTENDS Integers, FiniteSets, SequencesExt

CONSTANTS
    Clients,    \* the SSHClient objects, one per line of the servers file
    AddrOf,     \* Clients -> ServerAddr(); two lines may name one address
    Targets,    \* the target addresses requested
    NoTarget,   \* the empty target of Get and GetWithRetry
    NoClient,   \* the nil client returned with an error
    Strategy,   \* rr.strategy
    MaxActive,  \* rr.maxActive
    Threshold,  \* the failThreshold passed to ReportTargetFailure
    IndexSize   \* the values of rr.index: 2^32 in the code

ASSUME PoolAssumption ==
    /\ IsFiniteSet(Clients)
    /\ NoTarget \notin Targets
    /\ NoClient \notin Clients
    /\ Strategy \in {"failover", "loadbalance"}
    /\ MaxActive \in Nat \ {0}
    /\ Threshold \in Nat \ {0}
    /\ IndexSize \in Nat \ {0}

VARIABLES
    phase,          \* "startup" (connectServers), "running", "closed"
    servers,        \* rr.servers
    index,          \* rr.index
    hasActive,      \* rr.hasActive
    activeIdx,      \* rr.activeIdx, 0-based
    conn,           \* c.client: "absent" before the SSHClient is built,
                    \* "none" for nil, else the peer is "alive" or "dead"
    healthy,        \* c.healthy
    targetFailures  \* rr.targetFailures

poolVars == <<phase, servers, index, hasActive, activeIdx, conn, healthy,
              targetFailures>>

Addrs == {AddrOf[c] : c \in Clients}

(***************************************************************************)
(* targetFailureState.  FailCount is only ever compared with the threshold *)
(* and therefore saturates there.  A missing map entry is NoFailure.       *)
(***************************************************************************)
Failure == [count : 0..Threshold, until : {"zero", "future", "past"}]
NoFailure == [count |-> 0, until |-> "zero"]

-----------------------------------------------------------------------------
(* Reading the pool *)

Connected(c) == conn[c] \in {"alive", "dead"}

(* No client is in the pool twice, hence counting clients counts servers.  *)
ConnectedClients == {c \in ToSet(servers) : Connected(c)}
ConnectedCount == Cardinality(ConnectedClients)

IsTargetBlocked(c, t) ==
    /\ t \in Targets
    /\ targetFailures[AddrOf[c], t].until = "future"

(* The k-th server a selection looks at.  The failover scan starts at the  *)
(* active server if there is one; both scans wrap around, the load         *)
(* balancing one after a uint32 addition.                                  *)
ScanSlot(k) ==
    IF Strategy = "loadbalance"
    THEN ((index + k) % IndexSize) % Len(servers)
    ELSE ((IF hasActive THEN activeIdx ELSE index) + k) % Len(servers)

Scanned(k) == servers[ScanSlot(k) + 1]

(* Mutant: the scan stops one server short.                                *)
ScanStepsShort == 0 .. Len(servers) - 2

ScanSteps == 0 .. Len(servers) - 1

(* Mutant: the excluded addresses are not skipped.                         *)
EligibleAgain(c, t, exclude) == ~IsTargetBlocked(c, t)

Eligible(c, t, exclude) == AddrOf[c] \notin exclude /\ ~IsTargetBlocked(c, t)

(* Mutant: one connection too many.                                        *)
MayDialOneMore == Strategy = "failover" \/ ConnectedCount <= MaxActive

MayDial == Strategy = "failover" \/ ConnectedCount < MaxActive

(* The scan gets past its first k steps: it stops only at an eligible      *)
(* server that is connected or whose dial succeeds.                        *)
Passes(t, exclude, k) ==
    \A j \in ScanSteps :
        j < k /\ Eligible(Scanned(j), t, exclude) => ~Connected(Scanned(j))

Hit(t, exclude, k) ==
    /\ Eligible(Scanned(k), t, exclude)
    /\ Connected(Scanned(k)) \/ MayDial

(* What the scan has looked at when it ends with step k, the addresses     *)
(* dialled in vain and handed to OnConnectionError, and the outcome.       *)
SeenAddrs(exclude, k) ==
    {AddrOf[Scanned(j)] : j \in {j \in ScanSteps : j <= k}} \ exclude

DialErrors(t, exclude, k) ==
    {AddrOf[Scanned(j)] : j \in {j \in ScanSteps :
        j < k /\ MayDial /\ Eligible(Scanned(j), t, exclude)}}

Result(k) == IF k \in ScanSteps THEN Scanned(k) ELSE NoClient

-----------------------------------------------------------------------------
(* The table of target failures *)

Forget(p) == [targetFailures EXCEPT ![p] = NoFailure]

(* Mutant: the deadline of an entry is not looked at.                      *)
DropStaleAny(t, seen) ==
    [p \in DOMAIN targetFailures |->
        IF p[2] = t /\ p[1] \in seen THEN NoFailure ELSE targetFailures[p]]

(* isTargetBlockedLocked drops every entry it looks at that is not in      *)
(* force, one that has not reached the threshold included.                 *)
DropStale(t, seen) ==
    [p \in DOMAIN targetFailures |->
        IF p[2] = t /\ p[1] \in seen /\ targetFailures[p].until # "future"
        THEN NoFailure ELSE targetFailures[p]]

Counted(f) ==
    LET count == IF f.count < Threshold THEN f.count + 1 ELSE Threshold IN
    [count |-> count,
     until |-> IF count >= Threshold THEN "future" ELSE f.until]

ReportTargetFailure(c, t) ==
    /\ targetFailures' = [targetFailures EXCEPT ![<<AddrOf[c], t>>] = Counted(@)]
    /\ UNCHANGED <<phase, servers, index, hasActive, activeIdx, conn, healthy>>

ReportTargetSuccess(c, t) ==
    /\ targetFailures' = Forget(<<AddrOf[c], t>>)
    /\ UNCHANGED <<phase, servers, index, hasActive, activeIdx, conn, healthy>>

CleanupExpiredTargets ==
    /\ targetFailures' = [p \in DOMAIN targetFailures |->
           IF targetFailures[p].until # "future"
           THEN NoFailure ELSE targetFailures[p]]
    /\ UNCHANGED <<phase, servers, index, hasActive, activeIdx, conn, healthy>>

(* The clock passes BlockedUntil.                                          *)
Expire(a, t) ==
    /\ targetFailures[a, t].until = "future"
    /\ targetFailures' = [targetFailures EXCEPT ![<<a, t>>].until = "past"]
    /\ UNCHANGED <<phase, servers, index, hasActive, activeIdx, conn, healthy>>

-----------------------------------------------------------------------------
(* Filling the pool: connectServers, before any other goroutine exists *)

EagerLimit == IF Strategy = "failover" THEN 1 ELSE MaxActive

(* One line of the servers file: the dial of an eager client succeeds or   *)
(* fails, and beyond the limit the client stays lazy.                      *)
ConnectServer(c, outcome) ==
    /\ phase = "startup"
    /\ conn[c] = "absent"
    /\ outcome = "lazy" <=> ConnectedCount >= EagerLimit
    /\ servers' = Append(servers, c)
    /\ conn' = [conn EXCEPT ![c] = IF outcome = "connected" THEN "alive" ELSE "none"]
    /\ healthy' = [healthy EXCEPT ![c] = outcome = "connected"]
    /\ UNCHANGED <<phase, index, hasActive, activeIdx, targetFailures>>

Start ==
    /\ phase = "startup"
    /\ servers # <<>>
    /\ phase' = "running"
    /\ UNCHANGED <<servers, index, hasActive, activeIdx, conn, healthy, targetFailures>>

-----------------------------------------------------------------------------
(* Selecting an upstream *)

Activate(i) == hasActive' = TRUE /\ activeIdx' = i
(* Mutant: the flag is left standing.                                      *)
DeactivateIdxOnly == activeIdx' = 0 /\ UNCHANGED hasActive

Deactivate == hasActive' = FALSE /\ activeIdx' = 0

KeepActive == UNCHANGED <<hasActive, activeIdx>>

(* Mutant: the client is reconnected although it has a connection.         *)
RedialsAlways(c) == TRUE

(* EnsureConnected calls Reconnect, which closes the connection there is   *)
(* before it dials, only for a client without one.                         *)
Redials(c) == ~Connected(c)

Dialed(c) ==
    /\ conn' = [conn EXCEPT ![c] = IF Redials(c) THEN "alive" ELSE @]
    /\ healthy' = [healthy EXCEPT ![c] = @ \/ Redials(c)]

(* Mutant: the counter does not wrap.                                      *)
AdvanceIndexUnbounded ==
    index' = IF Strategy = "failover" /\ hasActive THEN index ELSE index + 1

(* Failover takes a new start only when it has no active server.           *)
AdvanceIndex ==
    index' = IF Strategy = "failover" /\ hasActive
             THEN index ELSE (index + 1) % IndexSize

(* The scan ends with the server at step k.                                *)
Select(t, exclude, k) ==
    /\ k \in ScanSteps
    /\ Hit(t, exclude, k)
    /\ Dialed(Scanned(k))
    /\ IF Strategy = "failover" THEN Activate(ScanSlot(k)) ELSE KeepActive

(* No server will do; a failover pool then has no active server any more.  *)
SelectNone(k) ==
    /\ k = Len(servers)
    /\ UNCHANGED <<conn, healthy>>
    /\ IF Strategy = "failover" THEN Deactivate ELSE KeepActive

(* A selection that passes over k servers and returns Result(k).           *)
GetForTarget(t, exclude, k) ==
    IF servers = <<>> THEN k = 0 /\ UNCHANGED poolVars
    ELSE /\ Passes(t, exclude, k)
         /\ Select(t, exclude, k) \/ SelectNone(k)
         /\ AdvanceIndex
         /\ targetFailures' = DropStale(t, SeenAddrs(exclude, k))
         /\ UNCHANGED <<phase, servers>>

-----------------------------------------------------------------------------
(* The other operations of the pool *)

Alive(i) == conn[servers[i + 1]] = "alive"

(* Mutant: only the active server is probed.                               *)
ProbedActive == [c \in Clients |->
    IF hasActive /\ c = servers[activeIdx + 1] /\ conn[c] = "dead" THEN "none" ELSE conn[c]]

(* RunHealthChecks probes every connected client and drops the dead ones.  *)
Probed == [c \in Clients |->
    IF c \in ToSet(servers) /\ conn[c] = "dead" THEN "none" ELSE conn[c]]

(* Mutants: no dial when every connection is gone; the first server that   *)
(* answers is preferred to the active one.                                 *)
ReactivateNoDial ==
    IF hasActive /\ Alive(activeIdx) THEN KeepActive /\ conn' = Probed
    ELSE \/ \E i \in ScanSteps :
               /\ Alive(i) /\ \A j \in ScanSteps : Alive(j) => i <= j
               /\ Activate(i) /\ conn' = Probed
         \/ (\A j \in ScanSteps : ~Alive(j)) /\ Deactivate /\ conn' = Probed
ReactivateFirst ==
    \/ \E i \in ScanSteps :
          /\ Alive(i) /\ \A j \in ScanSteps : Alive(j) => i <= j
          /\ Activate(i) /\ conn' = Probed
    \/ (\A j \in ScanSteps : ~Alive(j)) /\ Deactivate /\ conn' = Probed

(* A failover pool whose active server is gone moves to the first one that *)
(* answered; if none did, to one that can be dialled, or to none.  The     *)
(* dials that fail before do not reach OnConnectionError.                  *)
Reactivate ==
    IF hasActive /\ Alive(activeIdx) THEN KeepActive /\ conn' = Probed
    ELSE \/ \E i \in ScanSteps :
               /\ Alive(i) /\ \A j \in ScanSteps : Alive(j) => i <= j
               /\ Activate(i) /\ conn' = Probed
         \/ /\ \A j \in ScanSteps : ~Alive(j)
            /\ \/ \E i \in ScanSteps : /\ Activate(i)
                                        /\ conn' = [Probed EXCEPT ![servers[i + 1]] = "alive"]
               \/ Deactivate /\ conn' = Probed

RunHealthChecks ==
    /\ servers # <<>>
    /\ IF Strategy = "failover" THEN Reactivate
                                ELSE KeepActive /\ conn' = Probed
    /\ healthy' = [c \in Clients |-> IF c \in ToSet(servers)
                                     THEN conn'[c] = "alive" ELSE healthy[c]]
    /\ UNCHANGED <<phase, servers, index, targetFailures>>

(* Mutants: healthy is not reset; a dead connection is not closed.         *)
ClosedHealthy(cs) ==
    /\ conn' = [c \in Clients |-> IF c \in cs THEN "none" ELSE conn[c]]
    /\ UNCHANGED healthy
ClosedAlive(cs) ==
    /\ conn' = [c \in Clients |-> IF c \in cs /\ conn[c] = "alive" THEN "none" ELSE conn[c]]
    /\ healthy' = [c \in Clients |-> c \notin cs /\ healthy[c]]

Closed(cs) ==
    /\ conn' = [c \in Clients |-> IF c \in cs THEN "none" ELSE conn[c]]
    /\ healthy' = [c \in Clients |-> c \notin cs /\ healthy[c]]

(* Mutant: the active slot does not follow its server.                     *)
ShiftedByNone(i) == activeIdx

(* activeIdx once slot i is gone.                                          *)
ShiftedBy(i) == IF hasActive /\ i < activeIdx THEN activeIdx - 1 ELSE activeIdx

(* Remove: part of the pool's interface, without a caller in the program.  *)
RemoveClient(c) ==
    \E i \in DOMAIN servers :
        /\ servers[i] = c
        /\ Closed({c})
        /\ servers' = RemoveAt(servers, i)
        /\ IF Len(servers) = 1 \/ (hasActive /\ i - 1 = activeIdx) THEN Deactivate
           ELSE UNCHANGED hasActive /\ activeIdx' = ShiftedBy(i - 1)
        /\ UNCHANGED <<phase, index, targetFailures>>

CloseAll ==
    /\ phase = "running"
    /\ phase' = "closed"
    /\ Closed(ToSet(servers))
    /\ servers' = <<>>
    /\ Deactivate
    /\ UNCHANGED <<index, targetFailures>>

(* The remote end or the network of a connection goes away; nothing in the *)
(* process notices by itself.                                              *)
PeerDies(c) ==
    /\ conn[c] = "alive"
    /\ conn' = [conn EXCEPT ![c] = "dead"]
    /\ UNCHANGED <<phase, servers, index, hasActive, activeIdx, healthy, targetFailures>>

-----------------------------------------------------------------------------
(* The pool with callers that use its interface in any order *)

Init ==
    /\ phase = "startup"
    /\ servers = <<>>
    /\ index = 0
    /\ hasActive = FALSE /\ activeIdx = 0
    /\ conn = [c \in Clients |-> "absent"]
    /\ healthy = [c \in Clients |-> FALSE]
    /\ targetFailures = [p \in Addrs \X Targets |-> NoFailure]

Startup ==
    \/ \E c \in Clients, outcome \in {"connected", "failed", "lazy"} :
          ConnectServer(c, outcome)
    \/ Start

Request ==
    /\ phase # "startup"
    /\ \E t \in Targets \cup {NoTarget}, exclude \in SUBSET Addrs, k \in 0 .. Len(servers) :
          GetForTarget(t, exclude, k)

(* A client is reported by a caller that was handed it, so it was built.   *)
Report ==
    /\ phase # "startup"
    /\ \E c \in Clients, t \in Targets :
          /\ conn[c] # "absent"
          /\ ReportTargetFailure(c, t) \/ ReportTargetSuccess(c, t)

HealthCheck == phase # "startup" /\ RunHealthChecks

Cleanup == phase # "startup" /\ CleanupExpiredTargets

Removal == phase = "running" /\ \E c \in Clients : RemoveClient(c)

Environment ==
    \/ \E c \in Clients : PeerDies(c)
    \/ \E p \in Addrs \X Targets : Expire(p[1], p[2])

Next == Startup \/ Request \/ Report \/ HealthCheck \/ Cleanup \/ Removal
        \/ CloseAll \/ Environment

Spec == Init /\ [][Next]_poolVars

(* The ticker of startHealthCheck fires for ever (HEALTH_CHECK=true) and   *)
(* every keepalive and dial returns.  The second conjunct is a promise of  *)
(* the network: dials of the health check do not all fail for ever.        *)
HealthCheckFinds == HealthCheck /\ hasActive'

FairSpec == Spec /\ WF_poolVars(HealthCheck) /\ WF_poolVars(HealthCheckFinds)

-----------------------------------------------------------------------------
(* Properties *)

TypeOK ==
    /\ phase \in {"startup", "running", "closed"}
    /\ servers \in Seq(Clients)
    /\ index \in 0 .. IndexSize - 1
    /\ hasActive \in BOOLEAN
    /\ activeIdx \in Nat
    /\ conn \in [Clients -> {"absent", "none", "alive", "dead"}]
    /\ healthy \in [Clients -> BOOLEAN]
    /\ targetFailures \in [Addrs \X Targets -> Failure]

(* A client is in the pool at most once, and only after it was built.      *)
NoneTwice ==
    /\ \A i, j \in DOMAIN servers : servers[i] = servers[j] => i = j
    /\ \A i \in DOMAIN servers : conn[servers[i]] # "absent"

(* In loadbalance mode there are never more than MAX_ACTIVE_UPSTREAMS SSH  *)
(* connections, whatever startup, selections, health checks and removals   *)
(* do in between (strategy.go:10,34 and connect.go:34-43 count apart).     *)
MaxActiveBound == Strategy = "loadbalance" => ConnectedCount <= MaxActive

(* A scan looks at every server, unless the uint32 addition of the load     *)
(* balancing one wraps around in the middle of it (strategy.go:16): then it *)
(* meets one server twice and another not at all, except where the number  *)
(* of servers divides 2^32.                                                *)
ScanWraps ==
    /\ Strategy = "loadbalance"
    /\ index + Len(servers) > IndexSize
    /\ IndexSize % Len(servers) # 0
ScanCovers ==
    servers # <<>> /\ ~ScanWraps =>
        {Scanned(k) : k \in ScanSteps} = ToSet(servers)

(* activeIdx of a failover pool always designates a server of the pool     *)
(* that has a connection, through switches, health checks and removals;    *)
(* in loadbalance mode there is never an active server.                    *)
ActiveConnected ==
    IF hasActive
    THEN /\ Strategy = "failover"
         /\ activeIdx < Len(servers)
         /\ Connected(servers[activeIdx + 1])
    ELSE activeIdx = 0

(* Between two calls c.healthy says exactly whether c.client is non-nil,   *)
(* so a "recovered" upstream (healthcheck.go:104-106) is never reported.   *)
HealthyIffConnected == \A c \in Clients : healthy[c] <=> Connected(c)

(* No SSH connection outlives its place in the pool: Remove and CloseAll   *)
(* close what they drop, and nobody can dial a client that was dropped,    *)
(* although handlers still hold it.                                        *)
OrphansClosed == \A c \in Clients : Connected(c) => c \in ToSet(servers)

ActiveClient == servers[activeIdx + 1]

(* Removing one server never makes another one active.                     *)
RemoveKeepsActive ==
    [][Len(servers') < Len(servers) /\ hasActive'
        => /\ hasActive /\ activeIdx' < Len(servers')
           /\ ActiveClient' = ActiveClient]_poolVars

(* A connection whose peer is gone is found and dropped.                   *)
DeadDropped ==
    \A c \in Clients : (phase # "startup" /\ conn[c] = "dead") ~> conn[c] # "dead"

(* A failover pool that lost its active server finds one again without     *)
(* any request, unless it is shut down.                                    *)
ActiveRestored ==
    Strategy = "failover" /\ phase = "running" ~> hasActive \/ servers = <<>>
=============================================================================
