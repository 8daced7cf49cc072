---------------------------- MODULE ProxyProofs -----------------------------
(***************************************************************************)
(* That Proxy implements RoundRobin, and what its handlers can rely on,    *)
(* proved for any numbers of handlers, servers and targets.                *)
(***************************************************************************)
EXTENDS Proxy, RoundRobinProofs

LOCAL INSTANCE SequenceTheorems

(* A handler at work is past the startup and has a target; once it has a   *)
(* client, that client was built.                                          *)
Working ==
    \A h \in Handlers :
        /\ pc[h] # "idle" => phase # "startup" /\ target[h] \in Targets
        /\ pc[h] \notin {"idle", "get"} => sel[h] \in Clients /\ conn[sel[h]] # "absent"
        /\ pc[h] \in {"idle", "get", "client"} => held[h] = "none"

(* A handler that asks for one more upstream may have one.                 *)
MayAsk ==
    \A h \in Handlers :
        /\ IsFiniteSet(excluded[h])
        /\ pc[h] = "get" => attempts[h] < limit[h]
        /\ pc[h] = "idle" => attempts[h] = 0

(* A connection that a handler uses and that works is that of a server of  *)
(* the pool.                                                               *)
HeldInPool ==
    \A h \in Handlers : held[h] = "live" =>
        sel[h] \in ToSet(servers) /\ conn[sel[h]] = "alive"

PInv ==
    /\ IInv
    /\ ProxyTypeOK
    /\ Working
    /\ MayAsk /\ FreshUpstream
    /\ HeldInPool

-----------------------------------------------------------------------------
(* What the operations of the pool keep *)

(* A client that was built stays built, and the startup does not return.   *)
LEMMA BuiltStays ==
    ASSUME IInv, [Next]_poolVars
    PROVE  /\ phase # "startup" => phase' # "startup"
           /\ \A c \in Clients : conn[c] # "absent" => conn'[c] # "absent"
<1>1. conn \in [Clients -> {"absent", "none", "alive", "dead"}] /\ TypeOK
  BY DEF IInv, TypeOK
<1>2. CASE Startup
  BY <1>1, <1>2 DEF Startup, ConnectServer, Start
<1>3. CASE Request
  <2>1. PICK t, exclude, k : GetForTarget(t, exclude, k)
    BY <1>3 DEF Request
  <2>2. phase' = phase /\ (UNCHANGED conn \/ Dialed(Scanned(k)))
    BY <2>1 DEF GetForTarget, Select, SelectNone, poolVars
  <2> QED
    BY <1>1, <2>2 DEF Dialed, Redials
<1>4. CASE Report \/ Cleanup
  BY <1>4 DEF Report, Cleanup, ReportTargetFailure, ReportTargetSuccess, CleanupExpiredTargets
<1>5. CASE HealthCheck
  <2>1. phase' = phase
    BY <1>5 DEF HealthCheck, RunHealthChecks
  <2>2. \/ conn' = Probed
        \/ \E i \in ScanSteps : conn' = [Probed EXCEPT ![servers[i + 1]] = "alive"]
    BY <1>5 DEF HealthCheck, RunHealthChecks, Reactivate
  <2> QED
    BY <1>1, <2>1, <2>2 DEF Probed
<1>6. CASE Removal \/ CloseAll
  BY <1>6 DEF Removal, RemoveClient, CloseAll, Closed
<1>7. CASE Environment
  BY <1>1, <1>7 DEF Environment, PeerDies, Expire
<1> QED
  BY <1>2, <1>3, <1>4, <1>5, <1>6, <1>7 DEF Next, poolVars

(* A selection touches no connection that there is.                        *)
LEMMA SelectionKeeps ==
    ASSUME IInv, NEW t, NEW exclude, NEW k \in 0 .. Len(servers), GetForTarget(t, exclude, k)
    PROVE  /\ servers' = servers /\ phase' = phase
           /\ \A c \in Clients : Connected(c) => conn'[c] = conn[c]
<1>1. conn \in [Clients -> {"absent", "none", "alive", "dead"}] /\ TypeOK
  BY DEF IInv, TypeOK
<1>2. servers' = servers /\ phase' = phase /\ (UNCHANGED conn \/ Dialed(Scanned(k)))
  BY DEF GetForTarget, Select, SelectNone, poolVars
<1> QED
  BY <1>1, <1>2 DEF Dialed, Redials, Connected

(* The client that a selection returns is a server of the pool that the    *)
(* request has not tried.                                                  *)
LEMMA SelectionReturns ==
    ASSUME IInv, NEW t, NEW exclude, NEW k \in 0 .. Len(servers), GetForTarget(t, exclude, k),
           Result(k) # NoClient
    PROVE  /\ Result(k) \in Clients /\ conn'[Result(k)] # "absent"
           /\ AddrOf[Result(k)] \in Addrs \ exclude
<1>1. k \in ScanSteps /\ Result(k) = Scanned(k)
  BY DEF Result
<1>2. /\ Scanned(k) \in Clients /\ Scanned(k) \in ToSet(servers)
      /\ ScanSlot(k) + 1 \in DOMAIN servers
  BY <1>1, ScanSlotInRange DEF IInv
<1>3. Len(servers) \in Nat
  BY LenProperties DEF IInv, TypeOK
<1>4. servers # <<>>
  BY <1>1, EmptySeq DEF ScanSteps
<1>5. Select(t, exclude, k)
  BY <1>1, <1>3, <1>4 DEF GetForTarget, SelectNone, ScanSteps
<1>6. AddrOf[Scanned(k)] \notin exclude
  BY <1>5 DEF Select, Hit, Eligible
<1>7. conn[Scanned(k)] # "absent"
  BY <1>2 DEF Scanned, IInv, NoneTwice
<1>8. conn'[Scanned(k)] # "absent"
  BY <1>2, <1>5, <1>7 DEF Select, Dialed, Redials, IInv, TypeOK
<1> QED
  BY <1>1, <1>2, <1>6, <1>8 DEF Addrs

-----------------------------------------------------------------------------
(* Every step is a step of the pool *)

LEMMA StepOfPool ==
    ASSUME PInv, [ProxyNext]_vars
    PROVE  [Next]_poolVars
<1>1. CASE UNCHANGED vars
  BY <1>1 DEF vars
<1>2. ASSUME NEW h \in Handlers,
             \/ \E t \in Targets : Begin(h, t)
             \/ TakeClient(h) \/ \E opened \in BOOLEAN : DialTarget(h, opened)
             \/ RecordSuccess(h) \/ RecordFail(h)
      PROVE  UNCHANGED poolVars
  BY <1>2 DEF Begin, TakeClient, DialTarget, RecordSuccess, RecordFail
<1>3. ASSUME NEW h \in Handlers, NEW k \in 0 .. Len(servers), Get(h, k)
      PROVE  Request
  <2>1. phase # "startup" /\ target[h] \in Targets /\ excluded[h] \in SUBSET Addrs
    BY <1>3 DEF Get, PInv, Working, ProxyTypeOK
  <2> QED
    BY <1>3, <2>1 DEF Get, Request
<1>4. ASSUME NEW h \in Handlers, Blame(h) \/ EndTunnel(h)
      PROVE  Report
  <2>1. /\ phase # "startup" /\ target[h] \in Targets
        /\ sel[h] \in Clients /\ conn[sel[h]] # "absent"
    BY <1>4 DEF Blame, EndTunnel, Goto, PInv, Working
  <2> QED
    BY <1>4, <2>1 DEF Blame, EndTunnel, Report
<1>5. CASE ProxyStartup
  BY <1>5 DEF ProxyStartup, Startup, Next
<1>6. CASE HealthCycle
  BY <1>6 DEF HealthCycle, HealthCheck, Cleanup, Next
<1>7. CASE Shutdown \/ World
  BY <1>7 DEF Shutdown, World, Next
<1> QED
  BY <1>1, <1>2, <1>3, <1>4, <1>5, <1>6, <1>7 DEF ProxyNext, DialSteps, Next

-----------------------------------------------------------------------------
(* The invariant *)

LEMMA InitPInv == ProxyInit => PInv
<1> SUFFICES ASSUME ProxyInit PROVE PInv
  OBVIOUS
<1>1. IInv
  BY InitIInv DEF ProxyInit
<1>2. ProxyTypeOK
  BY <1>1 DEF ProxyInit, ProxyTypeOK, IInv
<1>3. Working /\ HeldInPool
  BY DEF ProxyInit, Working, HeldInPool
<1>4. MayAsk /\ FreshUpstream
  BY FS_EmptySet DEF ProxyInit, MayAsk, FreshUpstream
<1> QED
  BY <1>1, <1>2, <1>3, <1>4 DEF PInv

(* The steps of the health check, the shutdown, the startup and the        *)
(* network move no handler.                                                *)
LEMMA OthersPInv ==
    ASSUME PInv, ProxyStartup \/ HealthCycle \/ Shutdown \/ World
    PROVE  PInv'
<1>1. [Next]_poolVars /\ IInv'
  BY StepOfPool, NextIInv DEF ProxyNext, PInv
<1>2. UNCHANGED <<pc, target, excluded, attempts, limit, sel>>
  BY DEF ProxyStartup, HealthCycle, Shutdown, World, handlerVars
<1>3. held' = HeldAfter({}) \/ (ProxyStartup /\ held' = held)
  BY DEF ProxyStartup, HealthCycle, Shutdown, World, handlerVars
<1>4. held' \in [Handlers -> {"none", "live", "broken"}]
      /\ \A h \in Handlers : held[h] = "none" => held'[h] = "none"
  BY <1>3 DEF HeldAfter, PInv, ProxyTypeOK
<1>5. ProxyTypeOK'
  <2>1. status' \in [Addrs -> {"none", "success", "fail"}] /\ cycle' \in {"cleanup", "probe"}
    BY DEF ProxyStartup, HealthCycle, Shutdown, World, RecordFails, PInv, ProxyTypeOK
  <2> QED
    BY <1>1, <1>2, <1>4, <2>1 DEF IInv, PInv, ProxyTypeOK
<1>6. Working'
  BY <1>1, <1>2, <1>4, BuiltStays DEF PInv, Working
<1>7. MayAsk' /\ FreshUpstream'
  BY <1>2 DEF PInv, MayAsk, FreshUpstream
<1>8. HeldInPool'
  <2> SUFFICES ASSUME NEW h \in Handlers, held'[h] = "live"
               PROVE  sel[h] \in ToSet(servers') /\ conn'[sel[h]] = "alive"
    BY <1>2 DEF HeldInPool
  <2>1. held[h] = "live"
    BY <1>3 DEF HeldAfter
  <2>2. sel[h] \in ToSet(servers) /\ sel[h] \in Clients /\ conn[sel[h]] = "alive"
    BY <2>1, PoolFinite DEF PInv, HeldInPool, IInv
  <2>3. conn'[sel[h]] = "alive"
    <3>1. CASE held' = HeldAfter({})
      BY <2>1, <3>1 DEF HeldAfter
    <3>2. CASE ProxyStartup
      BY <2>2, <3>2 DEF ProxyStartup, ConnectServer, Start, PInv, IInv, TypeOK
    <3> QED
      BY <1>3, <3>1, <3>2
  <2>4. sel[h] \in ToSet(servers')
    BY <1>1, <2>2, <2>3 DEF IInv, OrphansClosed, Connected
  <2> QED
    BY <2>3, <2>4
<1> QED
  BY <1>1, <1>5, <1>6, <1>7, <1>8 DEF PInv

-----------------------------------------------------------------------------
(* The steps of a handler *)

SameHandler(g) ==
    /\ pc'[g] = pc[g] /\ target'[g] = target[g] /\ excluded'[g] = excluded[g]
    /\ attempts'[g] = attempts[g] /\ limit'[g] = limit[g]
    /\ sel'[g] = sel[g] /\ held'[g] = held[g]

(* Working, MayAsk, FreshUpstream and HeldInPool of one handler.           *)
HandlerOK(h) ==
    /\ pc[h] # "idle" => phase # "startup" /\ target[h] \in Targets
    /\ pc[h] \notin {"idle", "get"} => sel[h] \in Clients /\ conn[sel[h]] # "absent"
    /\ pc[h] \in {"idle", "get", "client"} => held[h] = "none"
    /\ IsFiniteSet(excluded[h]) /\ Cardinality(excluded[h]) = attempts[h]
    /\ attempts[h] <= limit[h] /\ (pc[h] = "get" => attempts[h] < limit[h])
    /\ pc[h] = "idle" => attempts[h] = 0
    /\ held[h] = "live" => sel[h] \in ToSet(servers) /\ conn[sel[h]] = "alive"

LEMMA HandlersOK ==
    ASSUME PInv, NEW h \in Handlers
    PROVE  HandlerOK(h)
BY DEF PInv, HandlerOK, Working, MayAsk, FreshUpstream, HeldInPool

(* A handler that moves keeps the others as they are, because its step of  *)
(* the pool takes nobody a connection.                                     *)
LEMMA HandlerMoves ==
    ASSUME PInv, [Next]_poolVars, ProxyTypeOK', NEW h \in Handlers,
           \A g \in Handlers \ {h} : SameHandler(g),
           servers' = servers,
           \A c \in Clients : Connected(c) => conn'[c] = conn[c],
           HandlerOK(h)'
    PROVE  PInv'
<1>1. IInv'
  BY NextIInv DEF PInv
<1>2. ASSUME NEW g \in Handlers PROVE HandlerOK(g)'
  <2>1. CASE g = h
    BY <2>1
  <2>2. CASE g # h
    <3>1. SameHandler(g) /\ HandlerOK(g)
      BY <2>2, HandlersOK
    <3>2. sel[g] \in Clients /\ conn[sel[g]] # "absent" => conn'[sel[g]] # "absent"
      BY BuiltStays DEF PInv
    <3>3. phase # "startup" => phase' # "startup"
      BY BuiltStays DEF PInv
    <3>4. held[g] = "live" => sel[g] \in Clients /\ Connected(sel[g])
      BY <3>1, PoolFinite DEF HandlerOK, Connected, PInv, IInv
    <3> QED
      BY <3>1, <3>2, <3>3, <3>4 DEF SameHandler, HandlerOK
  <2> QED
    BY <2>1, <2>2
<1> QED
  BY <1>1, <1>2 DEF PInv, HandlerOK, Working, MayAsk, FreshUpstream, HeldInPool

(* A handler whose request is over.                                        *)
LEMMA IdleOK ==
    ASSUME PInv, NEW h \in Handlers, pc' = [pc EXCEPT ![h] = "idle"], Idle(h)
    PROVE  /\ HandlerOK(h)'
           /\ \A g \in Handlers \ {h} : SameHandler(g)
           /\ (/\ TypeOK' /\ UNCHANGED cycle
               /\ status' \in [Addrs -> {"none", "success", "fail"}]) => ProxyTypeOK'
<1>1. IsFiniteSet({}) /\ Cardinality({}) = 0
  BY FS_EmptySet
<1>2. /\ pc'[h] = "idle" /\ held'[h] = "none" /\ excluded'[h] = {}
      /\ attempts'[h] = 0 /\ limit'[h] = 0
  BY DEF Idle, PInv, ProxyTypeOK
<1>3. HandlerOK(h)'
  BY <1>1, <1>2 DEF HandlerOK
<1>4. \A g \in Handlers \ {h} : SameHandler(g)
  BY DEF Idle, SameHandler, PInv, ProxyTypeOK
<1>5. (/\ TypeOK' /\ UNCHANGED cycle
       /\ status' \in [Addrs -> {"none", "success", "fail"}]) => ProxyTypeOK'
  BY DEF Idle, PInv, ProxyTypeOK
<1> QED
  BY <1>3, <1>4, <1>5

(* A selection breaks nothing that a handler holds: it redials nobody who  *)
(* has a connection.                                                       *)
LEMMA SelectionBreaksNone ==
    ASSUME PInv, NEW c \in Clients, \A d \in Clients : Connected(d) => conn'[d] = conn[d]
    PROVE  HeldAfter(IF Redials(c) THEN {c} ELSE {}) = held
<1>1. ASSUME NEW h \in Handlers, held[h] = "live"
      PROVE  conn'[sel[h]] = "alive" /\ sel[h] \notin (IF Redials(c) THEN {c} ELSE {})
  <2>1. sel[h] \in Clients /\ conn[sel[h]] = "alive"
    BY <1>1, PoolFinite DEF PInv, HeldInPool, IInv
  <2> QED
    BY <2>1 DEF Connected, Redials
<1>2. held = [h \in Handlers |-> held[h]]
  BY DEF PInv, ProxyTypeOK
<1>3. \A h \in Handlers :
         (IF held[h] = "live" /\ (conn'[sel[h]] # "alive"
                                   \/ sel[h] \in (IF Redials(c) THEN {c} ELSE {}))
          THEN "broken" ELSE held[h]) = held[h]
  BY <1>1
<1> QED
  BY <1>2, <1>3 DEF HeldAfter

LEMMA GetPInv ==
    ASSUME PInv, NEW h \in Handlers, NEW k \in 0 .. Len(servers), Get(h, k)
    PROVE  PInv'
<1>1. [Next]_poolVars /\ IInv /\ GetForTarget(target[h], excluded[h], k)
  BY StepOfPool DEF ProxyNext, DialSteps, PInv, Get
<1>2. /\ servers' = servers /\ phase' = phase
      /\ \A c \in Clients : Connected(c) => conn'[c] = conn[c]
  BY <1>1, SelectionKeeps
<1>3. TypeOK' /\ UNCHANGED cycle /\ status' \in [Addrs -> {"none", "success", "fail"}]
  BY <1>1, NextIInv DEF IInv, Get, RecordFails, PInv, ProxyTypeOK
<1>4. HandlerOK(h) /\ pc[h] = "get"
  BY HandlersOK DEF Get
<1>5. CASE Result(k) = NoClient
  <2>1. pc' = [pc EXCEPT ![h] = "idle"] /\ Idle(h)
    BY <1>5 DEF Get, Goto
  <2> QED
    BY <1>1, <1>2, <1>3, <2>1, IdleOK, HandlerMoves
<1>6. CASE Result(k) # NoClient
  <2>1. /\ pc' = [pc EXCEPT ![h] = "client"]
        /\ excluded' = [excluded EXCEPT ![h] = excluded[h] \cup {AddrOf[Result(k)]}]
        /\ attempts' = [attempts EXCEPT ![h] = attempts[h] + 1]
        /\ sel' = [sel EXCEPT ![h] = Result(k)]
        /\ UNCHANGED <<target, limit>>
    BY <1>6 DEF Get, Goto
  <2>2. /\ Result(k) \in Clients /\ conn'[Result(k)] # "absent"
        /\ AddrOf[Result(k)] \in Addrs \ excluded[h]
    BY <1>1, <1>6, SelectionReturns
  <2>3. held' = held
    <3>1. held' = HeldAfter(IF Redials(Result(k)) THEN {Result(k)} ELSE {})
      BY <1>6 DEF Get
    <3> QED
      BY <1>2, <2>2, <3>1, SelectionBreaksNone
  <2>4. ProxyTypeOK'
    BY <1>3, <2>1, <2>2, <2>3 DEF PInv, ProxyTypeOK
  <2>5. /\ IsFiniteSet(excluded[h] \cup {AddrOf[Result(k)]})
        /\ Cardinality(excluded[h] \cup {AddrOf[Result(k)]}) = attempts[h] + 1
    BY <1>4, <2>2, FS_AddElement DEF HandlerOK
  <2>6. /\ pc'[h] = "client" /\ excluded'[h] = excluded[h] \cup {AddrOf[Result(k)]}
        /\ attempts'[h] = attempts[h] + 1 /\ sel'[h] = Result(k)
        /\ target'[h] = target[h] /\ limit'[h] = limit[h] /\ held'[h] = held[h]
        /\ attempts[h] \in Nat /\ limit[h] \in Nat
    BY <2>1, <2>3 DEF PInv, ProxyTypeOK
  <2>7. HandlerOK(h)'
    BY <1>2, <1>4, <2>2, <2>5, <2>6 DEF HandlerOK
  <2>8. \A g \in Handlers \ {h} : SameHandler(g)
    BY <2>1, <2>3 DEF SameHandler, PInv, ProxyTypeOK
  <2> QED
    BY <1>1, <1>2, <2>4, <2>7, <2>8, HandlerMoves
<1> QED
  BY <1>5, <1>6

(* Beginning, and the steps between a selection and a report.              *)
LEMMA BeginPInv ==
    ASSUME PInv, NEW h \in Handlers, NEW t \in Targets, Begin(h, t)
    PROVE  PInv'
<1>1. [Next]_poolVars /\ UNCHANGED poolVars
  BY StepOfPool DEF ProxyNext, Begin
<1>2. Len(servers) \in Nat /\ (servers # <<>> => Len(servers) > 0)
  BY EmptySeq, LenProperties DEF PInv, IInv, TypeOK
<1> DEFINE n == IF MaxUpstreams > 0 THEN MaxUpstreams
                ELSE IF servers = <<>> THEN 1 ELSE Len(servers)
<1>3. n \in Nat \ {0} /\ limit' = [limit EXCEPT ![h] = n]
  BY <1>2, ProxyAssumption DEF Begin
<1> HIDE DEF n
<1>4. /\ phase # "startup" /\ pc[h] = "idle" /\ pc' = [pc EXCEPT ![h] = "get"]
      /\ target' = [target EXCEPT ![h] = t]
      /\ UNCHANGED <<excluded, attempts, sel, held, status, cycle>>
  BY DEF Begin, Goto
<1>5. ProxyTypeOK'
  BY <1>1, <1>3, <1>4 DEF PInv, ProxyTypeOK, poolVars, TypeOK
<1>6. \A g \in Handlers \ {h} : SameHandler(g)
  BY <1>3, <1>4 DEF SameHandler, PInv, ProxyTypeOK
<1>7. HandlerOK(h)'
  <2>1. HandlerOK(h)
    BY HandlersOK
  <2>2. /\ pc'[h] = "get" /\ target'[h] = t /\ limit'[h] = n
        /\ excluded'[h] = excluded[h] /\ attempts'[h] = attempts[h]
        /\ held'[h] = held[h] /\ sel'[h] = sel[h]
    BY <1>3, <1>4 DEF PInv, ProxyTypeOK
  <2> QED
    BY <1>1, <1>3, <1>4, <2>1, <2>2 DEF HandlerOK, poolVars
<1> QED
  BY <1>1, <1>5, <1>6, <1>7, HandlerMoves DEF poolVars, Connected

LEMMA BetweenPInv ==
    ASSUME PInv, NEW h \in Handlers,
           \/ TakeClient(h) \/ \E opened \in BOOLEAN : DialTarget(h, opened)
           \/ RecordSuccess(h) \/ RecordFail(h)
    PROVE  PInv'
<1>1. [Next]_poolVars /\ UNCHANGED poolVars
  BY StepOfPool DEF ProxyNext, DialSteps, TakeClient, DialTarget, RecordSuccess, RecordFail
<1>2. PICK to \in {"dial", "opened", "refused", "blame", "tunnel"} :
         pc[h] \in {"client", "dial", "opened", "refused"} /\ pc' = [pc EXCEPT ![h] = to]
  BY DEF TakeClient, DialTarget, RecordSuccess, RecordFail, Goto
<1>3. UNCHANGED <<target, excluded, attempts, limit, sel, cycle>>
  BY DEF TakeClient, DialTarget, RecordSuccess, RecordFail
<1>4. HandlerOK(h) /\ sel[h] \in Clients /\ AddrOf[sel[h]] \in Addrs
  BY <1>2, HandlersOK DEF HandlerOK, Addrs
<1>5. PICK new \in {"none", "live", "broken"} :
         /\ held' = [held EXCEPT ![h] = new]
         /\ new = "live" => held[h] = "live" \/ conn[sel[h]] = "alive"
  BY DEF TakeClient, DialTarget, RecordSuccess, RecordFail, PInv, ProxyTypeOK
<1>6. status' \in [Addrs -> {"none", "success", "fail"}]
  BY <1>4 DEF TakeClient, DialTarget, RecordSuccess, RecordFail, RecordFails, PInv, ProxyTypeOK
<1>7. ProxyTypeOK'
  BY <1>1, <1>2, <1>3, <1>5, <1>6 DEF PInv, ProxyTypeOK, poolVars, TypeOK
<1>8. \A g \in Handlers \ {h} : SameHandler(g)
  BY <1>2, <1>3, <1>5 DEF SameHandler, PInv, ProxyTypeOK
<1>9. HandlerOK(h)'
  <2>1. pc'[h] = to /\ held'[h] = new
    BY <1>2, <1>5 DEF PInv, ProxyTypeOK
  <2>2. conn[sel[h]] = "alive" => sel[h] \in ToSet(servers)
    BY <1>4 DEF PInv, IInv, OrphansClosed, Connected
  <2> QED
    BY <1>1, <1>2, <1>3, <1>4, <1>5, <2>1, <2>2 DEF HandlerOK, poolVars
<1> QED
  BY <1>1, <1>7, <1>8, <1>9, HandlerMoves DEF poolVars

LEMMA ReportPInv ==
    ASSUME PInv, NEW h \in Handlers, Blame(h) \/ EndTunnel(h)
    PROVE  PInv'
<1>1. [Next]_poolVars
  BY StepOfPool DEF ProxyNext, DialSteps
<1>2. /\ UNCHANGED <<phase, servers, conn>> /\ UNCHANGED <<status, cycle>>
      /\ pc[h] \in {"blame", "tunnel"}
  BY DEF Blame, EndTunnel, Goto, ReportTargetFailure, ReportTargetSuccess
<1>3. TypeOK' /\ status' \in [Addrs -> {"none", "success", "fail"}]
  BY <1>1, <1>2, NextIInv DEF IInv, PInv, ProxyTypeOK
<1>4. CASE pc' = [pc EXCEPT ![h] = "idle"] /\ Idle(h)
  BY <1>1, <1>2, <1>3, <1>4, IdleOK, HandlerMoves
<1>5. CASE /\ attempts[h] < limit[h] /\ pc' = [pc EXCEPT ![h] = "get"]
           /\ sel' = [sel EXCEPT ![h] = NoClient] /\ held' = [held EXCEPT ![h] = "none"]
           /\ UNCHANGED <<target, excluded, attempts, limit>>
  <2>1. ProxyTypeOK'
    BY <1>2, <1>3, <1>5 DEF PInv, ProxyTypeOK
  <2>2. \A g \in Handlers \ {h} : SameHandler(g)
    BY <1>5 DEF SameHandler, PInv, ProxyTypeOK
  <2>3. HandlerOK(h) /\ pc'[h] = "get" /\ held'[h] = "none"
    BY <1>5, HandlersOK DEF PInv, ProxyTypeOK
  <2>4. HandlerOK(h)'
    BY <1>2, <1>5, <2>3 DEF HandlerOK
  <2> QED
    BY <1>1, <1>2, <2>1, <2>2, <2>4, HandlerMoves
<1> QED
  BY <1>4, <1>5 DEF Blame, EndTunnel, Goto

-----------------------------------------------------------------------------
(* Theorems *)

LEMMA PInvariance == ProxySpec => []PInv
<1>1. PInv /\ [ProxyNext]_vars => PInv'
  <2> SUFFICES ASSUME PInv, [ProxyNext]_vars PROVE PInv'
    OBVIOUS
  <2>1. CASE UNCHANGED vars
    <3>1. IInv'
      BY <2>1, StepOfPool, NextIInv DEF PInv
    <3> QED
      BY <2>1, <3>1 DEF vars, poolVars, handlerVars, PInv, ProxyTypeOK, IInv, Working, MayAsk,
         FreshUpstream, HeldInPool
  <2> QED
    BY <2>1, OthersPInv, GetPInv, BeginPInv, BetweenPInv, ReportPInv DEF ProxyNext, DialSteps
<1> QED
  BY <1>1, InitPInv, PTL DEF ProxySpec

(* The program uses the pool as its interface allows: every behaviour of   *)
(* the handlers, the health check and the shutdown is one of the pool, and *)
(* what RoundRobinProofs proves holds in it (dial.go, healthcheck.go).     *)
THEOREM ImplementsPool == ProxySpec => UsesPool
<1>1. ProxyInit => Init
  BY DEF ProxyInit
<1>2. PInv /\ [ProxyNext]_vars => [Next]_poolVars
  BY StepOfPool
<1> QED
  BY <1>1, <1>2, PInvariance, PTL DEF ProxySpec, UsesPool, Spec

(* Every variable of the handlers keeps its type.                          *)
THEOREM ProxyTypeCorrect == ProxySpec => []ProxyTypeOK
<1>1. PInv => ProxyTypeOK
  BY DEF PInv
<1> QED
  BY <1>1, PInvariance, PTL

(* No request tries an upstream twice or makes more attempts than it may   *)
(* (dial.go:29-39).                                                        *)
THEOREM UpstreamsAreFresh == ProxySpec => []FreshUpstream
<1>1. PInv => FreshUpstream
  BY DEF PInv
<1> QED
  BY <1>1, PInvariance, PTL

-----------------------------------------------------------------------------
(* What a single step may never do *)

(* The steps by which a handler leaves the pool as it is.                  *)
Aside(h) ==
    \/ \E t \in Targets : Begin(h, t)
    \/ TakeClient(h) \/ \E opened \in BOOLEAN : DialTarget(h, opened)
    \/ RecordSuccess(h) \/ RecordFail(h)

(* Every step is one of these.                                             *)
LEMMA Steps ==
    ASSUME [ProxyNext]_vars
    PROVE  \/ UNCHANGED vars \/ \E h \in Handlers : Aside(h)
           \/ \E h \in Handlers, k \in 0 .. Len(servers) : Get(h, k)
           \/ \E h \in Handlers : Blame(h) \/ EndTunnel(h)
           \/ ProxyStartup \/ HealthCycle \/ Shutdown \/ World
BY DEF ProxyNext, DialSteps, Aside

LEMMA AsideKeepsPool ==
    ASSUME NEW h \in Handlers, Aside(h)
    PROVE  UNCHANGED poolVars
BY DEF Aside, Begin, TakeClient, DialTarget, RecordSuccess, RecordFail

(* A connection that works is closed or replaced by nobody but CloseAll.   *)
LEMMA AliveStays ==
    ASSUME PInv, [ProxyNext]_vars, NEW c \in Clients, conn[c] = "alive"
    PROVE  conn'[c] \in {"alive", "dead"} \/ phase' = "closed"
<1>1. conn \in [Clients -> {"absent", "none", "alive", "dead"}] /\ IInv
  BY DEF PInv, IInv, TypeOK
<1>2. CASE UNCHANGED vars \/ \E h \in Handlers : Aside(h)
  BY <1>2, AsideKeepsPool DEF vars, poolVars
<1>3. ASSUME NEW h \in Handlers, NEW k \in 0 .. Len(servers), Get(h, k)
      PROVE  conn'[c] = "alive"
  <2>1. GetForTarget(target[h], excluded[h], k) /\ Connected(c)
    BY <1>3 DEF Get, Connected
  <2> QED
    BY <1>1, <2>1, SelectionKeeps
<1>4. ASSUME NEW h \in Handlers, Blame(h) \/ EndTunnel(h)
      PROVE  UNCHANGED conn
  BY <1>4 DEF Blame, EndTunnel, ReportTargetFailure, ReportTargetSuccess
<1>5. CASE ProxyStartup
  BY <1>1, <1>5 DEF ProxyStartup, Start, ConnectServer
<1>6. CASE HealthCycle
  <2>1. \/ UNCHANGED conn \/ conn' = Probed
        \/ \E i \in ScanSteps : conn' = [Probed EXCEPT ![servers[i + 1]] = "alive"]
    BY <1>6 DEF HealthCycle, CleanupExpiredTargets, RunHealthChecks, Reactivate, poolVars
  <2>2. Probed[c] = "alive" /\ c \in DOMAIN Probed
    BY DEF Probed
  <2> QED
    BY <2>1, <2>2
<1>7. CASE Shutdown
  BY <1>7 DEF Shutdown, CloseAll
<1>8. CASE World
  BY <1>1, <1>8 DEF World, Environment, PeerDies, Expire
<1> QED
  BY <1>2, <1>3, <1>4, <1>5, <1>6, <1>7, <1>8, Steps

(* A handler that loses the connection it holds loses it because it died   *)
(* or because the pool is closed.                                          *)
LEMMA HeldBreaks ==
    ASSUME PInv, [ProxyNext]_vars, NEW h \in Handlers, held[h] = "live", held'[h] = "broken"
    PROVE  conn'[sel[h]] = "dead" \/ phase' = "closed"
<1>1. /\ held \in [Handlers -> {"none", "live", "broken"}]
      /\ sel[h] \in Clients /\ conn[sel[h]] = "alive" /\ IInv
  BY PoolFinite DEF PInv, ProxyTypeOK, HeldInPool, IInv
<1>2. conn'[sel[h]] \in {"alive", "dead"} \/ phase' = "closed"
  BY <1>1, AliveStays
<1>3. ~UNCHANGED vars
  BY DEF vars, handlerVars
<1>4. ASSUME NEW g \in Handlers, Aside(g)
      PROVE  FALSE
  <2>1. CASE TakeClient(g)
    <3>1. g # h
      BY <2>1 DEF TakeClient, PInv, Working
    <3> QED
      BY <1>1, <2>1, <3>1 DEF TakeClient
  <2>2. CASE ~TakeClient(g)
    BY <1>4, <2>2 DEF Aside, Begin, DialTarget, RecordSuccess, RecordFail
  <2> QED
    BY <2>1, <2>2
<1>5. ASSUME NEW g \in Handlers, Idle(g) \/ held' = [held EXCEPT ![g] = "none"]
      PROVE  FALSE
  BY <1>1, <1>5 DEF Idle
<1>6. ASSUME NEW g \in Handlers, NEW k \in 0 .. Len(servers), Get(g, k)
      PROVE  FALSE
  <2>1. /\ GetForTarget(target[g], excluded[g], k)
        /\ \A c \in Clients : Connected(c) => conn'[c] = conn[c]
    BY <1>1, <1>6, SelectionKeeps DEF Get
  <2>2. CASE Result(k) = NoClient
    BY <1>5, <1>6, <2>2 DEF Get
  <2>3. CASE Result(k) # NoClient
    BY <1>1, <1>6, <2>1, <2>3, SelectionReturns, SelectionBreaksNone DEF Get
  <2> QED
    BY <2>2, <2>3
<1>7. ASSUME NEW g \in Handlers, Blame(g) \/ EndTunnel(g)
      PROVE  FALSE
  BY <1>5, <1>7 DEF Blame, EndTunnel
<1>8. ~ProxyStartup
  BY DEF ProxyStartup, handlerVars
<1>9. CASE HealthCycle \/ Shutdown \/ World
  <2>1. held'[h] = IF conn'[sel[h]] # "alive" THEN "broken" ELSE "live"
    BY <1>9 DEF HealthCycle, Shutdown, World, HeldAfter
  <2> QED
    BY <1>2, <2>1
<1> QED
  BY <1>3, <1>4, <1>6, <1>7, <1>8, <1>9, Steps

(* Neither a selection nor a health check nor another handler closes or    *)
(* replaces a connection that works under the handler that was given it    *)
(* (lifecycle.go:107-130,161-166).                                         *)
THEOREM LiveIsKept == ProxySpec => LiveKept
<1> DEFINE Kept ==
       \A h \in Handlers :
         /\ pc[h] = "client" /\ conn[sel[h]] = "alive" =>
                conn'[sel[h]] # "none" \/ phase' = "closed"
         /\ held[h] = "live" /\ held'[h] = "broken" =>
                conn'[sel[h]] = "dead" \/ phase' = "closed"
<1>1. PInv /\ [ProxyNext]_vars => Kept
  <2> SUFFICES ASSUME PInv, [ProxyNext]_vars, NEW h \in Handlers
               PROVE  /\ pc[h] = "client" /\ conn[sel[h]] = "alive" =>
                            conn'[sel[h]] # "none" \/ phase' = "closed"
                      /\ held[h] = "live" /\ held'[h] = "broken" =>
                            conn'[sel[h]] = "dead" \/ phase' = "closed"
    OBVIOUS
  <2>1. pc[h] = "client" => sel[h] \in Clients
    BY DEF PInv, Working
  <2> QED
    BY <2>1, AliveStays, HeldBreaks
<1>2. ProxySpec => [][Kept]_vars
  BY <1>1, PInvariance, PTL DEF ProxySpec
<1> QED
  BY <1>2 DEF LiveKept

(* A block in force survives the step, or it runs out, or a tunnel through *)
(* that upstream to that target has ended.                                 *)
LEMMA BlockSurvives ==
    ASSUME PInv, [ProxyNext]_vars, NEW p \in Addrs \X Targets,
           targetFailures[p].until = "future", targetFailures'[p].until # "future"
    PROVE  \/ targetFailures'[p].until = "past"
           \/ \E h \in Handlers : /\ pc[h] = "tunnel" /\ pc'[h] = "idle"
                                  /\ p = <<AddrOf[sel[h]], target[h]>>
<1>1. /\ targetFailures \in [Addrs \X Targets -> Failure]
      /\ pc \in [Handlers -> {"idle", "get", "client", "dial", "opened", "refused",
                              "blame", "tunnel"}]
  BY DEF PInv, IInv, TypeOK, ProxyTypeOK
<1>2. targetFailures' # targetFailures
  OBVIOUS
<1>3. ~UNCHANGED vars /\ \A h \in Handlers : ~Aside(h)
  BY <1>2, AsideKeepsPool DEF vars, poolVars
<1>4. ASSUME NEW h \in Handlers, NEW k \in 0 .. Len(servers), Get(h, k)
      PROVE  FALSE
  <2>1. targetFailures' = DropStale(target[h], SeenAddrs(excluded[h], k))
    BY <1>2, <1>4 DEF Get, GetForTarget, poolVars
  <2> QED
    BY <1>1, <2>1 DEF DropStale
<1>5. ASSUME NEW c, NEW t, ReportTargetFailure(c, t)
      PROVE  FALSE
  <2>1. targetFailures'[p] \in {targetFailures[p], Counted(targetFailures[p])}
    BY <1>1, <1>5 DEF ReportTargetFailure
  <2>2. Counted(targetFailures[p]).until = "future"
    BY DEF Counted
  <2> QED
    BY <2>1, <2>2
<1>6. ASSUME NEW h \in Handlers, EndTunnel(h)
      PROVE  /\ pc[h] = "tunnel" /\ pc'[h] = "idle"
             /\ p = <<AddrOf[sel[h]], target[h]>>
  <2>1. pc[h] = "tunnel" /\ pc'[h] = "idle"
    BY <1>1, <1>6 DEF EndTunnel, Goto
  <2>2. targetFailures' = Forget(<<AddrOf[sel[h]], target[h]>>)
    BY <1>5, <1>6 DEF EndTunnel, ReportTargetSuccess
  <2>3. p = <<AddrOf[sel[h]], target[h]>>
    BY <1>1, <2>2 DEF Forget
  <2> QED
    BY <2>1, <2>3
<1>7. ~ProxyStartup
  BY <1>2 DEF ProxyStartup, Start, ConnectServer
<1>8. ~HealthCycle
  BY <1>1, <1>2 DEF HealthCycle, CleanupExpiredTargets, RunHealthChecks, poolVars
<1>9. ~Shutdown
  BY <1>2 DEF Shutdown, CloseAll
<1>10. ASSUME World PROVE targetFailures'[p].until = "past"
  <2>1. PICK q \in Addrs \X Targets : Expire(q[1], q[2])
    BY <1>2, <1>10 DEF World, Environment, PeerDies
  <2>2. <<q[1], q[2]>> \in Addrs \X Targets
    OBVIOUS
  <2>3. targetFailures[<<q[1], q[2]>>] \in [count : 0 .. Threshold, until : {"zero", "future", "past"}]
    BY <1>1, <2>2 DEF Failure
  <2>4. targetFailures'[p] \in {targetFailures[p], [targetFailures[<<q[1], q[2]>>] EXCEPT !.until = "past"]}
    BY <1>1, <2>1, <2>2 DEF Expire
  <2>5. [targetFailures[<<q[1], q[2]>>] EXCEPT !.until = "past"].until = "past"
    BY <2>3
  <2> QED
    BY <2>4, <2>5
<1> QED
  BY <1>3, <1>4, <1>5, <1>6, <1>7, <1>8, <1>9, <1>10, Steps DEF Blame

(* A block is lifted by its time or by a tunnel that got through, and in   *)
(* no other way (targetfailure.go:9-61).                                   *)
THEOREM BlocksStand == ProxySpec => BlockStands
<1> DEFINE Stands ==
       \A p \in Addrs \X Targets :
         targetFailures[p].until = "future" /\ targetFailures'[p].until # "future" =>
            \/ targetFailures'[p].until = "past"
            \/ \E h \in Handlers : /\ pc[h] = "tunnel" /\ pc'[h] = "idle"
                                   /\ p = <<AddrOf[sel[h]], target[h]>>
<1>1. PInv /\ [ProxyNext]_vars => Stands
  BY BlockSurvives
<1>2. ProxySpec => [][Stands]_vars
  BY <1>1, PInvariance, PTL DEF ProxySpec
<1> QED
  BY <1>2 DEF BlockStands

(* A step leaves a working active server in place, unless it is that of a  *)
(* handler whose request may not use it.                                   *)
LEMMA ActiveStays ==
    ASSUME PInv, [ProxyNext]_vars,
           hasActive, conn[ActiveClient] = "alive", servers' = servers
    PROVE  \/ hasActive' /\ activeIdx' = activeIdx
           \/ \E h \in Handlers :
                 /\ pc[h] = "get" /\ pc'[h] # "get"
                 /\ \/ AddrOf[ActiveClient] \in excluded[h]
                    \/ IsTargetBlocked(ActiveClient, target[h])
<1>1. /\ TypeOK /\ Strategy = "failover" /\ activeIdx \in Nat /\ Len(servers) \in Nat
      /\ activeIdx < Len(servers) /\ ActiveClient = servers[activeIdx + 1]
      /\ pc \in [Handlers -> {"idle", "get", "client", "dial", "opened", "refused",
                              "blame", "tunnel"}]
  BY LenProperties DEF PInv, IInv, TypeOK, ActiveConnected, ActiveClient, ProxyTypeOK
<1>2. servers # <<>> /\ 0 \in ScanSteps
  BY <1>1 DEF ScanSteps
<1>3. CASE UNCHANGED <<hasActive, activeIdx>>
  BY <1>3
<1>4. ASSUME NEW h \in Handlers, NEW k \in 0 .. Len(servers), Get(h, k)
      PROVE  \/ hasActive' /\ activeIdx' = activeIdx
             \/ /\ pc[h] = "get" /\ pc'[h] # "get"
                /\ \/ AddrOf[ActiveClient] \in excluded[h]
                   \/ IsTargetBlocked(ActiveClient, target[h])
  <2>1. pc[h] = "get" /\ pc'[h] # "get"
    BY <1>1, <1>4 DEF Get, Goto
  <2>2. ScanSlot(0) = activeIdx
    <3>1. (activeIdx + 0) % Len(servers) = activeIdx
      BY <1>1
    <3> QED
      BY <1>1, <3>1 DEF ScanSlot
  <2>3. Scanned(0) = ActiveClient /\ Connected(Scanned(0))
    BY <1>1, <2>2 DEF Scanned, Connected
  <2>4. CASE Eligible(ActiveClient, target[h], excluded[h])
    <3>1. Passes(target[h], excluded[h], k)
      BY <1>2, <1>4 DEF Get, GetForTarget
    <3>2. k = 0
      BY <1>2, <2>3, <2>4, <3>1 DEF Passes
    <3>3. Select(target[h], excluded[h], 0)
      BY <1>1, <1>2, <1>4, <3>2 DEF Get, GetForTarget, SelectNone
    <3> QED
      BY <1>1, <2>2, <3>3 DEF Select, Activate
  <2> QED
    BY <2>1, <2>4 DEF Eligible
<1>5. ASSUME NEW h \in Handlers, Blame(h) \/ EndTunnel(h)
      PROVE  UNCHANGED <<hasActive, activeIdx>>
  BY <1>5 DEF Blame, EndTunnel, ReportTargetFailure, ReportTargetSuccess
<1>6. ASSUME ProxyStartup \/ World PROVE UNCHANGED <<hasActive, activeIdx>>
  BY <1>6 DEF ProxyStartup, Start, ConnectServer, World, Environment, PeerDies, Expire
<1>7. ASSUME HealthCycle PROVE UNCHANGED <<hasActive, activeIdx>>
  <2>1. Alive(activeIdx)
    BY <1>1 DEF Alive
  <2> QED
    BY <1>1, <1>7, <2>1 DEF HealthCycle, CleanupExpiredTargets, RunHealthChecks, Reactivate,
       KeepActive, poolVars
<1>8. ~Shutdown
  BY <1>2 DEF Shutdown, CloseAll
<1> QED
  BY <1>3, <1>4, <1>5, <1>6, <1>7, <1>8, Steps, AsideKeepsPool DEF vars, poolVars

(* A failover pool leaves an active server that works only for a request   *)
(* that may not use it (strategy.go:76-114, healthcheck.go:112-146).       *)
THEOREM ActiveIsKept == ProxySpec => ActiveKept
<1> DEFINE Kept ==
       hasActive /\ conn[ActiveClient] = "alive" /\ servers' = servers
         => \/ hasActive' /\ activeIdx' = activeIdx
            \/ \E h \in Handlers :
                  /\ pc[h] = "get" /\ pc'[h] # "get"
                  /\ \/ AddrOf[ActiveClient] \in excluded[h]
                     \/ IsTargetBlocked(ActiveClient, target[h])
<1>1. PInv /\ [ProxyNext]_vars => Kept
  BY ActiveStays
<1>2. ProxySpec => [][Kept]_vars
  BY <1>1, PInvariance, PTL DEF ProxySpec
<1> QED
  BY <1>2 DEF ActiveKept

-----------------------------------------------------------------------------
(* A request that may try every upstream *)

PoolAddrs == {AddrOf[c] : c \in ToSet(servers)}

(* Such a request counts on as many upstreams as the pool has servers, and *)
(* the addresses it has tried are theirs.                                  *)
AskOK(h) ==
    /\ pc[h] = "idle" => excluded[h] = {}
    /\ pc[h] # "idle" /\ servers # <<>> =>
          limit[h] = Len(servers) /\ excluded[h] \subseteq PoolAddrs

AsksAll == MaxUpstreams = 0 => \A h \in Handlers : AskOK(h)

(* A handler that does not move asks for what it asked for before.         *)
LEMMA AskKept ==
    ASSUME NEW h \in Handlers, AskOK(h), servers' \in {servers, <<>>},
           (pc[h] = "idle") <=> (pc'[h] = "idle"),
           excluded'[h] = excluded[h], limit'[h] = limit[h]
    PROVE  AskOK(h)'
BY DEF AskOK, PoolAddrs

LEMMA StepAsks ==
    ASSUME PInv, AsksAll, MaxUpstreams = 0, [ProxyNext]_vars, NEW h \in Handlers
    PROVE  AskOK(h)'
<1>1. AskOK(h)
  BY DEF AsksAll
<1>2. /\ pc \in [Handlers -> {"idle", "get", "client", "dial", "opened", "refused",
                              "blame", "tunnel"}]
      /\ excluded \in [Handlers -> SUBSET Addrs] /\ limit \in [Handlers -> Nat]
      /\ TypeOK
  BY DEF PInv, ProxyTypeOK
<1>3. ASSUME NEW g \in Handlers, Idle(g), pc' = [pc EXCEPT ![g] = "idle"], servers' = servers
      PROVE  AskOK(h)'
  <2>1. CASE g = h
    BY <1>2, <1>3, <2>1 DEF Idle, AskOK
  <2>2. CASE g # h
    BY <1>1, <1>2, <1>3, <2>2, AskKept DEF Idle
  <2> QED
    BY <2>1, <2>2
<1>4. CASE UNCHANGED vars
  BY <1>1, <1>4, AskKept DEF vars, poolVars, handlerVars
<1>5. ASSUME NEW g \in Handlers, NEW t \in Targets, Begin(g, t)
      PROVE  AskOK(h)'
  <2>1. /\ UNCHANGED <<servers, excluded>> /\ pc[g] = "idle" /\ pc' = [pc EXCEPT ![g] = "get"]
        /\ limit' = [limit EXCEPT ![g] = IF servers = <<>> THEN 1 ELSE Len(servers)]
    BY <1>5 DEF Begin, Goto, poolVars
  <2>2. CASE g = h
    BY <1>1, <1>2, <2>1, <2>2 DEF AskOK
  <2>3. CASE g # h
    BY <1>1, <1>2, <2>1, <2>3, AskKept
  <2> QED
    BY <2>2, <2>3
<1>6. ASSUME NEW g \in Handlers,
             \/ TakeClient(g) \/ \E opened \in BOOLEAN : DialTarget(g, opened)
             \/ RecordSuccess(g) \/ RecordFail(g)
      PROVE  AskOK(h)'
  <2>1. /\ UNCHANGED <<servers, excluded, limit>>
        /\ (pc[h] = "idle") <=> (pc'[h] = "idle")
    BY <1>2, <1>6 DEF TakeClient, DialTarget, RecordSuccess, RecordFail, Goto, poolVars
  <2> QED
    BY <1>1, <2>1, AskKept
<1>7. ASSUME NEW g \in Handlers, NEW k \in 0 .. Len(servers), Get(g, k)
      PROVE  AskOK(h)'
  <2>1. servers' = servers /\ pc[g] = "get"
    BY <1>7 DEF Get, GetForTarget, poolVars
  <2>2. CASE Result(k) = NoClient
    BY <1>3, <1>7, <2>1, <2>2 DEF Get, Goto
  <2>3. CASE Result(k) # NoClient
    <3>1. /\ pc' = [pc EXCEPT ![g] = "client"] /\ limit' = limit
          /\ excluded' = [excluded EXCEPT ![g] = excluded[g] \cup {AddrOf[Result(k)]}]
      BY <1>7, <2>3 DEF Get, Goto
    <3>2. AddrOf[Result(k)] \in PoolAddrs
      BY <1>2, <2>3, ScanSlotInRange DEF Result, PoolAddrs
    <3>3. CASE g = h
      BY <1>1, <1>2, <2>1, <3>1, <3>2, <3>3 DEF AskOK, PoolAddrs
    <3>4. CASE g # h
      BY <1>1, <1>2, <2>1, <3>1, <3>4, AskKept
    <3> QED
      BY <3>3, <3>4
  <2> QED
    BY <2>2, <2>3
<1>8. ASSUME NEW g \in Handlers, Blame(g) \/ EndTunnel(g)
      PROVE  AskOK(h)'
  <2>1. servers' = servers
    BY <1>8 DEF Blame, EndTunnel, ReportTargetFailure, ReportTargetSuccess
  <2>2. CASE pc' = [pc EXCEPT ![g] = "idle"] /\ Idle(g)
    BY <1>3, <2>1, <2>2
  <2>3. CASE /\ pc[g] = "blame" /\ pc' = [pc EXCEPT ![g] = "get"]
             /\ UNCHANGED <<excluded, limit>>
    BY <1>1, <1>2, <2>1, <2>3, AskKept
  <2> QED
    BY <1>8, <2>2, <2>3 DEF Blame, EndTunnel, Goto
<1>9. CASE ProxyStartup
  <2>1. phase = "startup" /\ UNCHANGED <<pc, excluded, limit>>
    BY <1>9 DEF ProxyStartup, Start, ConnectServer, handlerVars
  <2>2. pc[h] = "idle"
    BY <2>1 DEF PInv, Working
  <2> QED
    BY <1>1, <2>1, <2>2 DEF AskOK
<1>10. CASE HealthCycle \/ Shutdown \/ World
  <2>1. servers' \in {servers, <<>>} /\ UNCHANGED <<pc, excluded, limit>>
    BY <1>10 DEF HealthCycle, CleanupExpiredTargets, RunHealthChecks, Shutdown, CloseAll,
       World, Environment, PeerDies, Expire, poolVars
  <2> QED
    BY <1>1, <2>1, AskKept
<1> QED
  BY <1>4, <1>5, <1>6, <1>7, <1>8, <1>9, <1>10 DEF ProxyNext, DialSteps

LEMMA AsksInvariance == ProxySpec => []AsksAll
<1>1. ProxyInit => AsksAll
  BY DEF ProxyInit, AsksAll, AskOK
<1>2. PInv /\ AsksAll /\ [ProxyNext]_vars => AsksAll'
  BY StepAsks DEF AsksAll
<1> QED
  BY <1>1, <1>2, PInvariance, PTL DEF ProxySpec

(* A pool has at most as many addresses as servers.                        *)
LEMMA AddrsCounted ==
    ASSUME TypeOK
    PROVE  /\ IsFiniteSet(PoolAddrs) /\ Cardinality(PoolAddrs) \in Nat
           /\ Cardinality(PoolAddrs) <= Len(servers)
<1> DEFINE n == Len(servers)
           f == [i \in 1 .. n |-> AddrOf[servers[i]]]
<1>1. n \in Nat /\ DOMAIN servers = 1 .. n
  BY LenProperties DEF TypeOK
<1>2. PoolAddrs = {f[i] : i \in 1 .. n}
  BY <1>1 DEF PoolAddrs, ToSet
<1>3. f = [i \in 1 .. n |-> f[i]]
  OBVIOUS
<1> HIDE DEF f
<1> QED
  BY <1>1, <1>2, <1>3, ValuesCounted, FS_CardinalityType

(* A request that has used up its attempts has tried every address.        *)
LEMMA AllExcluded ==
    ASSUME PInv, AsksAll, MaxUpstreams = 0, NEW h \in Handlers, NEW c \in ToSet(servers),
           pc[h] = "blame", ~(attempts[h] < limit[h])
    PROVE  AddrOf[c] \in excluded[h]
<1>1. servers # <<>>
  BY DEF ToSet
<1>2. limit[h] = Len(servers) /\ excluded[h] \subseteq PoolAddrs
  BY <1>1 DEF AsksAll, AskOK
<1>3. /\ IsFiniteSet(PoolAddrs) /\ Cardinality(PoolAddrs) \in Nat
      /\ Cardinality(PoolAddrs) <= Len(servers) /\ Len(servers) \in Nat
  BY AddrsCounted, LenProperties DEF PInv, IInv, TypeOK
<1>4. /\ IsFiniteSet(excluded[h]) /\ Cardinality(excluded[h]) = attempts[h]
      /\ attempts[h] \in Nat /\ limit[h] \in Nat
  BY DEF PInv, MayAsk, FreshUpstream, ProxyTypeOK
<1>5. Cardinality(excluded[h]) <= Cardinality(PoolAddrs)
  BY <1>2, <1>3, FS_Subset
<1>6. Cardinality(excluded[h]) = Cardinality(PoolAddrs)
  BY <1>2, <1>3, <1>4, <1>5
<1>7. excluded[h] = PoolAddrs
  BY <1>2, <1>3, <1>6, FS_Subset
<1> QED
  BY <1>7 DEF PoolAddrs

(* A selection that returns nobody has ruled out every server, or its dial *)
(* failed, unless the scan wrapped around.                                 *)
LEMMA NobodyLeft ==
    ASSUME IInv, NEW t, NEW exclude, NEW k \in 0 .. Len(servers), GetForTarget(t, exclude, k),
           Result(k) = NoClient, NEW c \in ToSet(servers)
    PROVE  \/ AddrOf[c] \in exclude \/ IsTargetBlocked(c, t)
           \/ ~Connected(c) /\ ~MayDial
           \/ ScanWraps
           \/ AddrOf[c] \in DialErrors(t, exclude, k)
<1>1. servers # <<>> /\ TypeOK /\ Len(servers) \in Nat
  BY LenProperties DEF ToSet, IInv, TypeOK
<1>2. k \notin ScanSteps
  BY <1>1, ScanSlotInRange, PoolAssumption DEF Result
<1>3. \A j \in ScanSteps : j < k
  BY <1>1, <1>2 DEF ScanSteps
<1>4. Passes(t, exclude, k)
  BY <1>1 DEF GetForTarget
<1>5. CASE ~ScanWraps
  <2>1. PICK j \in ScanSteps : Scanned(j) = c
    BY <1>1, <1>5, TypeOKCovers DEF ScanCovers
  <2>2. CASE Eligible(c, t, exclude)
    <3>1. ~Connected(c)
      BY <1>3, <1>4, <2>1, <2>2 DEF Passes
    <3>2. MayDial => AddrOf[c] \in DialErrors(t, exclude, k)
      BY <1>3, <2>1, <2>2 DEF DialErrors
    <3> QED
      BY <3>1, <3>2
  <2> QED
    BY <2>2 DEF Eligible
<1> QED
  BY <1>5

(* How a handler that looks for an upstream gives up.                      *)
LEMMA GivesUp ==
    ASSUME PInv, [ProxyNext]_vars, NEW h \in Handlers,
           pc[h] \in {"get", "blame"}, pc'[h] = "idle"
    PROVE  \/ \E k \in 0 .. Len(servers) : Get(h, k) /\ Result(k) = NoClient
           \/ pc[h] = "blame" /\ ~(attempts[h] < limit[h])
<1>1. pc \in [Handlers -> {"idle", "get", "client", "dial", "opened", "refused",
                           "blame", "tunnel"}]
  BY DEF PInv, ProxyTypeOK
<1>2. \A g \in Handlers : ~Aside(g)
  BY <1>1 DEF Aside, Begin, TakeClient, DialTarget, RecordSuccess, RecordFail, Goto
<1>3. ASSUME NEW g \in Handlers, NEW k \in 0 .. Len(servers), Get(g, k)
      PROVE  g = h /\ Result(k) = NoClient
  BY <1>1, <1>3 DEF Get, Goto
<1>4. ASSUME NEW g \in Handlers, Blame(g) \/ EndTunnel(g)
      PROVE  pc[h] = "blame" /\ ~(attempts[h] < limit[h])
  BY <1>1, <1>4 DEF Blame, EndTunnel, Goto
<1>5. ~UNCHANGED vars /\ ~ProxyStartup /\ ~HealthCycle /\ ~Shutdown /\ ~World
  BY DEF vars, handlerVars, ProxyStartup, HealthCycle, Shutdown, World
<1> QED
  BY <1>2, <1>3, <1>4, <1>5, Steps

(* A request that may try every upstream and gives up has tried them all,  *)
(* but those that were blocked, could not be opened or were wrapped past   *)
(* (dial.go:29-41, strategy.go).                                           *)
THEOREM AllAreTried == ProxySpec => TryAll
<1>1. ASSUME PInv, AsksAll, [ProxyNext]_vars, MaxUpstreams = 0,
             NEW h \in Handlers, NEW c \in ToSet(servers), Refused(h)
      PROVE  RuledOut(h, c) \/ ScanWraps
  <2>1. CASE pc[h] = "blame" /\ ~(attempts[h] < limit[h])
    BY <1>1, <2>1, AllExcluded DEF RuledOut
  <2>2. ASSUME NEW k \in 0 .. Len(servers), Get(h, k), Result(k) = NoClient
        PROVE  RuledOut(h, c) \/ ScanWraps
    <3>1. /\ IInv /\ GetForTarget(target[h], excluded[h], k) /\ pc[h] = "get"
          /\ AddrOf[c] \in Addrs
      BY <1>1, <2>2, PoolFinite DEF PInv, Get, IInv, Addrs
    <3>2. k = Len(servers)
      <4>1. TypeOK /\ servers # <<>> /\ Len(servers) \in Nat
        BY <3>1, LenProperties DEF ToSet, IInv, TypeOK
      <4>2. k \notin ScanSteps
        BY <2>2, <4>1, ScanSlotInRange, PoolAssumption DEF Result
      <4> QED
        BY <4>1, <4>2 DEF ScanSteps
    <3>3. AddrOf[c] \in DialErrors(target[h], excluded[h], k) => TriedInVain(h, c)
      BY <2>2, <3>1, <3>2 DEF Get, RecordFails, TriedInVain
    <3> QED
      BY <2>2, <3>1, <3>3, NobodyLeft DEF RuledOut
  <2> QED
    BY <1>1, <2>1, <2>2, GivesUp DEF Refused
<1> DEFINE Tried ==
       MaxUpstreams = 0 =>
         \A h \in Handlers, c \in ToSet(servers) :
             Refused(h) => RuledOut(h, c) \/ ScanWraps
<1>2. PInv /\ AsksAll /\ [ProxyNext]_vars => Tried
  BY <1>1
<1>3. ProxySpec => [][Tried]_vars
  BY <1>2, PInvariance, AsksInvariance, PTL DEF ProxySpec
<1> QED
  BY <1>3 DEF TryAll
=============================================================================
