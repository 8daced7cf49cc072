------------------------------- MODULE Proxy --------------------------------
(***************************************************************************)
(* The pool at work: the connection handlers of internal/proxy, the health *)
(* check goroutine of internal/app, the status of every upstream in the    *)
(* tracker, and the shutdown that closes the pool under them.              *)
(*                                                                         *)
(* A handler takes rr.mu, the client's mutex and the tracker's mutex one   *)
(* after the other and holds none of them in between: its steps are the    *)
(* calls that take one of them, and the target dial.  HandleConnection and *)
(* HandleSocks5Connection differ only in how the target becomes known.     *)
(***************************************************************************)
EXTENDS RoundRobin

CONSTANTS
    Handlers,       \* connections served at a time, see app.go:113-126
    MaxUpstreams    \* TARGET_RETRY_UPSTREAMS, 0 to try every upstream

ASSUME ProxyAssumption == MaxUpstreams \in Nat

VARIABLES
    pc,         \* where DialTargetWithRetries or its caller is
    target,     \* targetAddr
    excluded,   \* excluded, the addresses tried for this request
    attempts,   \* i, counted when a client has been selected
    limit,      \* maxUpstreams after its default is filled in
    sel,        \* client
    held,       \* sshConn: "none", "live", or "broken" once the connection
                \* it names was lost or closed, even if another replaces it
    status,     \* the tracker's Status of an address, "none" without entry
    cycle       \* what runHealthCheckCycle does next: "cleanup" or "probe"

handlerVars == <<pc, target, excluded, attempts, limit, sel, held>>
vars == <<poolVars, handlerVars, status, cycle>>

ProxyInit ==
    /\ Init
    /\ pc = [h \in Handlers |-> "idle"]
    /\ target = [h \in Handlers |-> NoTarget]
    /\ excluded = [h \in Handlers |-> {}]
    /\ attempts = [h \in Handlers |-> 0]
    /\ limit = [h \in Handlers |-> 0]
    /\ sel = [h \in Handlers |-> NoClient]
    /\ held = [h \in Handlers |-> "none"]
    /\ status = [a \in Addrs |-> "none"]
    /\ cycle = "cleanup"

-----------------------------------------------------------------------------
(* Moving a handler *)

Goto(h, from, to) == pc[h] = from /\ pc' = [pc EXCEPT ![h] = to]

(* What becomes of the connections that handlers hold when the pool's      *)
(* change: an ssh.Client whose peer goes away, that is closed, or in whose *)
(* place another was dialled never works again.                            *)
HeldAfter(redialed) ==
    [h \in Handlers |->
        IF held[h] = "live" /\ (conn'[sel[h]] # "alive" \/ sel[h] \in redialed)
        THEN "broken" ELSE held[h]]

Idle(h) ==
    /\ target' = [target EXCEPT ![h] = NoTarget]
    /\ excluded' = [excluded EXCEPT ![h] = {}]
    /\ attempts' = [attempts EXCEPT ![h] = 0]
    /\ limit' = [limit EXCEPT ![h] = 0]
    /\ sel' = [sel EXCEPT ![h] = NoClient]
    /\ held' = [held EXCEPT ![h] = "none"]

(* An accepted connection whose target is known asks for the pool's size.  *)
Begin(h, t) ==
    /\ phase # "startup"
    /\ Goto(h, "idle", "get")
    /\ target' = [target EXCEPT ![h] = t]
    /\ limit' = [limit EXCEPT ![h] =
           IF MaxUpstreams > 0 THEN MaxUpstreams
           ELSE IF servers = <<>> THEN 1 ELSE Len(servers)]
    /\ UNCHANGED <<poolVars, excluded, attempts, sel, held, status, cycle>>

(* OnConnectionError runs inside the selection, with rr.mu held.           *)
RecordFails(as) ==
    status' = [a \in Addrs |-> IF a \in as THEN "fail" ELSE status[a]]

Get(h, k) ==
    /\ pc[h] = "get"
    /\ GetForTarget(target[h], excluded[h], k)
    /\ RecordFails(DialErrors(target[h], excluded[h], k))
    /\ LET c == Result(k) IN
       IF c = NoClient
       THEN /\ Goto(h, "get", "idle")
            /\ Idle(h)
       ELSE /\ Goto(h, "get", "client")
            /\ excluded' = [excluded EXCEPT ![h] = @ \cup {AddrOf[c]}]
            /\ attempts' = [attempts EXCEPT ![h] = @ + 1]
            /\ sel' = [sel EXCEPT ![h] = c]
            /\ held' = HeldAfter(IF Redials(c) THEN {c} ELSE {})
            /\ UNCHANGED <<target, limit>>
    /\ UNCHANGED cycle

(* Mutant: a client found closed is retried without being counted.         *)
TakeClientAgain(h) ==
    /\ pc[h] = "client"
    /\ IF Connected(sel[h])
       THEN /\ Goto(h, "client", "dial")
            /\ held' = [held EXCEPT ![h] =
                   IF conn[sel[h]] = "alive" THEN "live" ELSE "broken"]
            /\ UNCHANGED <<excluded, attempts>>
       ELSE /\ Goto(h, "client", "get") /\ UNCHANGED held
            /\ excluded' = [excluded EXCEPT ![h] = @ \ {AddrOf[sel[h]]}]
            /\ attempts' = [attempts EXCEPT ![h] = @ - 1]
    /\ UNCHANGED <<poolVars, target, limit, sel, status, cycle>>

(* Mutant: a client found closed is dialled, without asking the pool.      *)
TakeClientDials(h) ==
    /\ Goto(h, "client", "dial")
    /\ conn' = [conn EXCEPT ![sel[h]] = IF @ = "none" THEN "alive" ELSE @]
    /\ healthy' = [healthy EXCEPT ![sel[h]] = TRUE]
    /\ held' = [held EXCEPT ![h] = IF conn[sel[h]] = "dead" THEN "broken" ELSE "live"]
    /\ UNCHANGED <<phase, servers, index, hasActive, activeIdx, targetFailures,
                   target, excluded, attempts, limit, sel, status, cycle>>

(* client.Client(): rr.mu has been released since the selection, so the    *)
(* connection may be gone by now, or be another one.                       *)
TakeClient(h) ==
    /\ pc[h] = "client"
    /\ IF Connected(sel[h])
       THEN /\ Goto(h, "client", "dial")
            /\ held' = [held EXCEPT ![h] =
                   IF conn[sel[h]] = "alive" THEN "live" ELSE "broken"]
       ELSE Goto(h, "client", "blame") /\ UNCHANGED held
    /\ UNCHANGED <<poolVars, target, excluded, attempts, limit, sel, status, cycle>>

(* sshConn.Dial: a connection in order may open the channel or not.        *)
DialTarget(h, opened) ==
    /\ opened => held[h] = "live"
    /\ Goto(h, "dial", IF opened THEN "opened" ELSE "refused")
    /\ UNCHANGED <<poolVars, target, excluded, attempts, limit, sel, held, status, cycle>>

RecordSuccess(h) ==
    /\ Goto(h, "opened", "tunnel")
    /\ status' = [status EXCEPT ![AddrOf[sel[h]]] = "success"]
    /\ UNCHANGED <<poolVars, target, excluded, attempts, limit, sel, held, cycle>>

RecordFail(h) ==
    /\ Goto(h, "refused", "blame")
    /\ RecordFails({AddrOf[sel[h]]})
    /\ UNCHANGED <<poolVars, target, excluded, attempts, limit, sel, held, cycle>>

(* The upstream is blamed for this target and the loop goes on or is over. *)
Blame(h) ==
    /\ pc[h] = "blame"
    /\ ReportTargetFailure(sel[h], target[h])
    /\ IF attempts[h] < limit[h]
       THEN /\ Goto(h, "blame", "get")
            /\ sel' = [sel EXCEPT ![h] = NoClient]
            /\ held' = [held EXCEPT ![h] = "none"]
            /\ UNCHANGED <<target, excluded, attempts, limit>>
       ELSE Goto(h, "blame", "idle") /\ Idle(h)
    /\ UNCHANGED <<status, cycle>>

(* TunnelBidirectional returned.  IsLikelyTargetBlocked decides on the     *)
(* bytes and the time that passed, which may be anything.                  *)
EndTunnel(h) ==
    /\ Goto(h, "tunnel", "idle")
    /\ ReportTargetFailure(sel[h], target[h]) \/ ReportTargetSuccess(sel[h], target[h])
    /\ Idle(h)
    /\ UNCHANGED <<status, cycle>>

DialSteps(h) ==
    \/ \E k \in 0 .. Len(servers) : Get(h, k)
    \/ TakeClient(h)
    \/ \E opened \in BOOLEAN : DialTarget(h, opened)
    \/ RecordSuccess(h)
    \/ RecordFail(h)
    \/ Blame(h)

-----------------------------------------------------------------------------
(* The others *)

ProxyStartup ==
    /\ \/ Start /\ UNCHANGED status
       \/ \E c \in Clients, outcome \in {"connected", "failed", "lazy"} :
             /\ ConnectServer(c, outcome)
             /\ RecordFails(IF outcome = "failed" THEN {AddrOf[c]} ELSE {})
    /\ UNCHANGED <<handlerVars, cycle>>

(* runHealthCheckCycle.  The ticker's select may let another cycle begin   *)
(* after healthStop is closed.  It redials only clients it found without a *)
(* connection, whom no handler holds live.                                 *)
HealthCycle ==
    /\ phase # "startup"
    /\ \/ cycle = "cleanup" /\ cycle' = "probe" /\ CleanupExpiredTargets
       \/ /\ cycle = "probe" /\ cycle' = "cleanup"
          /\ RunHealthChecks \/ (servers = <<>> /\ UNCHANGED poolVars)
    /\ held' = HeldAfter({})
    /\ UNCHANGED <<pc, target, excluded, attempts, limit, sel, status>>

Shutdown ==
    /\ CloseAll
    /\ held' = HeldAfter({})
    /\ UNCHANGED <<pc, target, excluded, attempts, limit, sel, status, cycle>>

World ==
    /\ Environment
    /\ held' = HeldAfter({})
    /\ UNCHANGED <<pc, target, excluded, attempts, limit, sel, status, cycle>>

ProxyNext ==
    \/ \E h \in Handlers, t \in Targets : Begin(h, t)
    \/ \E h \in Handlers : DialSteps(h) \/ EndTunnel(h)
    \/ ProxyStartup \/ HealthCycle \/ Shutdown \/ World

ProxySpec == ProxyInit /\ [][ProxyNext]_vars

(* A handler's goroutine is scheduled and the dial it waits for returns;   *)
(* nothing obliges a tunnel to end.  The health check keeps running.       *)
ProxyFairSpec ==
    /\ ProxySpec
    /\ \A h \in Handlers : WF_vars(DialSteps(h))
    /\ WF_vars(HealthCycle)

-----------------------------------------------------------------------------
(* Properties *)

ProxyTypeOK ==
    /\ TypeOK
    /\ pc \in [Handlers -> {"idle", "get", "client", "dial", "opened", "refused",
                            "blame", "tunnel"}]
    /\ target \in [Handlers -> Targets \cup {NoTarget}]
    /\ excluded \in [Handlers -> SUBSET Addrs]
    /\ attempts \in [Handlers -> Nat]
    /\ limit \in [Handlers -> Nat]
    /\ sel \in [Handlers -> Clients \cup {NoClient}]
    /\ held \in [Handlers -> {"none", "live", "broken"}]
    /\ status \in [Addrs -> {"none", "success", "fail"}]
    /\ cycle \in {"cleanup", "probe"}

(* No request is ever sent twice to one upstream, and none makes more      *)
(* attempts than it may (dial.go:29,38-39).                                *)
FreshUpstream ==
    \A h \in Handlers :
        /\ Cardinality(excluded[h]) = attempts[h]
        /\ attempts[h] <= limit[h]

(* What c.client held when a handler was handed its client is not closed   *)
(* under it while it works, and neither is the connection it dials or      *)
(* tunnels through, nor replaced by another: selections, health checks and *)
(* other handlers share that client (lifecycle.go:107-130,161-166,         *)
(* healthcheck.go:86-103) and leave alone what answers; only the network   *)
(* and the shutdown end it.                                                *)
LiveKept ==
    [][\A h \in Handlers :
         /\ pc[h] = "client" /\ conn[sel[h]] = "alive" =>
                conn'[sel[h]] # "none" \/ phase' = "closed"
         /\ held[h] = "live" /\ held'[h] = "broken" =>
                conn'[sel[h]] = "dead" \/ phase' = "closed"]_vars

(* The selection of h that is going on dials c in vain, and records it.    *)
TriedInVain(h, c) ==
    /\ pc[h] = "get"
    /\ AddrOf[c] \in DialErrors(target[h], excluded[h], Len(servers))
    /\ status'[AddrOf[c]] = "fail"

(* Why a request that gives up may leave c out.                            *)
RuledOut(h, c) ==
    \/ AddrOf[c] \in excluded[h]
    \/ IsTargetBlocked(c, target[h])
    \/ ~Connected(c) /\ ~MayDial
    \/ TriedInVain(h, c)

Refused(h) == pc[h] \in {"get", "blame"} /\ pc'[h] = "idle"

(* config.go:112, "0 = try all available": a request that gives up has     *)
(* tried every server of the pool, as an upstream for its target or by an  *)
(* SSH dial of its last selection that was recorded as failed, except      *)
(* where the pair is blocked, where a load balancing pool may not open one *)
(* more connection, or at the wrap-around of its counter, where one server *)
(* is met twice and another not at all (ScanWraps, strategy.go:16).        *)
TryAll ==
    [][MaxUpstreams = 0 =>
         \A h \in Handlers, c \in ToSet(servers) :
             Refused(h) => RuledOut(h, c) \/ ScanWraps]_vars

(* A block in force ends when its time is up or by a tunnel that ran       *)
(* through that upstream to that target, and in no other way.              *)
BlockStands ==
    [][\A p \in Addrs \X Targets :
         targetFailures[p].until = "future" /\ targetFailures'[p].until # "future" =>
            \/ targetFailures'[p].until = "past"
            \/ \E h \in Handlers : /\ pc[h] = "tunnel" /\ pc'[h] = "idle"
                                   /\ p = <<AddrOf[sel[h]], target[h]>>]_vars

(* A failover pool leaves an active server that works only for a request   *)
(* that has tried it already or for whose target it is blocked, never by a *)
(* health check.                                                           *)
ActiveKept ==
    [][hasActive /\ conn[ActiveClient] = "alive" /\ servers' = servers
         => \/ hasActive' /\ activeIdx' = activeIdx
            \/ \E h \in Handlers :
                  /\ pc[h] = "get" /\ pc'[h] # "get"
                  /\ \/ AddrOf[ActiveClient] \in excluded[h]
                     \/ IsTargetBlocked(ActiveClient, target[h])]_vars

(* The handlers, the health goroutine and the shutdown use the pool as its *)
(* interface allows: whatever they do between them is a behaviour of       *)
(* RoundRobin, so that what holds of the pool holds in the program.        *)
UsesPool == Spec

(* Every request ends its dialling: with a tunnel, or refused.             *)
RequestSettles ==
    \A h \in Handlers : pc[h] = "get" ~> pc[h] \in {"tunnel", "idle"}
=============================================================================
