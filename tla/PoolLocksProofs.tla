-------------------------- MODULE PoolLocksProofs ---------------------------
(***************************************************************************)
(* The loops of the pool stay within it, and within the cap, at every      *)
(* moment of every call, proved for any pool and any number of requesters. *)
(***************************************************************************)
EXTENDS PoolLocks, RoundRobinProofs, WellFoundedInduction

LOCAL INSTANCE SequenceTheorems

(* What the call that holds rr.mu may rely on, wherever it is.  A dial was *)
(* begun below the cap, and nobody else opens a connection meanwhile.      *)
Ranged ==
    /\ hasActive => activeIdx < Len(servers)
    /\ call # NoCall =>
        /\ call.step <= Len(servers)
        /\ call.at # "close" => servers # <<>>
        /\ call.at \in {"keepalive", "dial"} => call.step < Len(servers)
        /\ call.at \in {"active", "dialActive"} => hasActive
        /\ call.at \in {"dialActive", "dial"} => MayDial
        /\ call.at = "redial" => Strategy = "failover"
        /\ call.ok \subseteq 0 .. Len(servers) - 1

LInv == LocksTypeOK /\ Ranged /\ MaxActiveBound

Places == {"active", "dialActive", "scan", "dial", "probe", "keepalive", "redial", "close"}

-----------------------------------------------------------------------------
(* Lemmas *)

LEMMA MinOf ==
    ASSUME NEW S \in SUBSET Nat, S # {}
    PROVE  Min(S) \in S /\ \A y \in S : Min(S) <= y
<1> DEFINE Less == OpToRel(<, Nat)
<1>1. IsWellFoundedOn(Less, Nat)
  BY NatLessThanWellFounded
<1>2. \A x, y \in Nat : x < y => <<x, y>> \in Less
  BY DEF OpToRel
<1> HIDE DEF Less
<1>3. PICK x \in S : \A y \in S : ~(<<y, x>> \in Less)
  BY <1>1, WFMin
<1>4. ASSUME NEW y \in S PROVE x <= y
  <2>1. x \in Nat /\ y \in Nat
    OBVIOUS
  <2>2. ~(<<y, x>> \in Less)
    BY <1>3
  <2>3. ~(y < x)
    BY <1>2, <2>1, <2>2
  <2> QED
    BY <2>1, <2>3
<1> QED
  BY <1>4 DEF Min

LEMMA ServersLength ==
    ASSUME TypeOK
    PROVE  /\ Len(servers) \in Nat /\ DOMAIN servers = 1 .. Len(servers)
           /\ servers # <<>> <=> Len(servers) > 0
           /\ \A i \in 0 .. Len(servers) - 1 : /\ servers[i + 1] \in Clients
                                               /\ servers[i + 1] \in ToSet(servers)
<1>1. Len(servers) \in Nat /\ DOMAIN servers = 1 .. Len(servers)
  BY LenProperties DEF TypeOK
<1>2. servers # <<>> <=> Len(servers) > 0
  BY <1>1, EmptySeq DEF TypeOK
<1>3. \A i \in 0 .. Len(servers) - 1 : i + 1 \in 1 .. Len(servers)
  BY <1>1
<1> QED
  BY <1>1, <1>2, <1>3, ElementOfSeq DEF TypeOK, ToSet

(* The place and the counter of a call move within their ranges.           *)
LEMMA MoveType ==
    ASSUME call \in Call, NEW at \in Places, NEW step \in Nat
    PROVE  /\ Move(at, step) \in Call
           /\ Move(at, step).at = at /\ Move(at, step).step = step
           /\ Move(at, step).ok = call.ok /\ Move(at, step).seen = call.seen
BY DEF Move, Call, Places

(* Where the loops look there is a server.                                 *)
LEMMA CurrentInPool ==
    ASSUME LInv, call # NoCall, servers # <<>>,
           call.at \in {"probe", "keepalive", "redial", "close"} => call.step < Len(servers)
    PROVE  /\ Slot \in 0 .. Len(servers) - 1
           /\ Current \in Clients /\ Current \in ToSet(servers)
           /\ AddrOf[Current] \in Addrs
<1>1. /\ Len(servers) \in Nat \ {0} /\ call \in Call /\ call.step \in Nat
      /\ index \in Nat /\ activeIdx \in Nat /\ IndexSize \in Nat \ {0}
  BY ServersLength, PoolAssumption DEF LInv, LocksTypeOK, TypeOK, Call
<1>2. LoopSlot \in 0 .. Len(servers) - 1
  <2> DEFINE next == (activeIdx + 1) % Len(servers)
             first == index % Len(servers)
             wrapped == (index + call.step) % IndexSize
  <2>1. index + call.step \in Nat /\ activeIdx + 1 \in Nat
    BY <1>1
  <2>2. wrapped \in Nat /\ next \in Nat /\ first \in Nat
    <3>1. wrapped \in 0 .. IndexSize - 1
      BY <1>1, <2>1, ModRange DEF wrapped
    <3>2. next \in 0 .. Len(servers) - 1
      BY <1>1, <2>1, ModRange DEF next
    <3>3. first \in 0 .. Len(servers) - 1
      BY <1>1, ModRange DEF first
    <3> QED
      BY <1>1, <3>1, <3>2, <3>3
  <2> HIDE DEF next, first, wrapped
  <2>3. next + call.step \in Nat /\ first + call.step \in Nat
    BY <1>1, <2>2
  <2>4. /\ wrapped % Len(servers) \in 0 .. Len(servers) - 1
        /\ (next + call.step) % Len(servers) \in 0 .. Len(servers) - 1
        /\ (first + call.step) % Len(servers) \in 0 .. Len(servers) - 1
    BY <1>1, <2>2, <2>3, ModRange
  <2> QED
    BY <2>4 DEF LoopSlot, next, first, wrapped
<1>3. Slot \in 0 .. Len(servers) - 1
  <2>1. CASE call.at \in {"active", "dialActive"}
    BY <1>1, <2>1 DEF Slot, At, LInv, Ranged
  <2>2. CASE call.at \in {"scan", "dial"}
    BY <1>2, <2>2 DEF Slot, At
  <2>3. CASE call.at \in {"probe", "keepalive", "redial", "close"}
    BY <1>1, <2>3 DEF Slot, At
  <2> QED
    BY <1>1, <2>1, <2>2, <2>3 DEF Call
<1> QED
  BY <1>3, ServersLength DEF Current, LInv, LocksTypeOK, Addrs

(* The same connections are the pool's before and after.                   *)
LEMMA SameCount ==
    ASSUME MaxActiveBound, servers' = servers, \A c \in Clients : Connected(c)' <=> Connected(c),
           TypeOK
    PROVE  MaxActiveBound' /\ (MayDial => MayDial')
<1>1. ConnectedClients' = ConnectedClients
  BY PoolFinite DEF ConnectedClients
<1> QED
  BY <1>1 DEF MaxActiveBound, MayDial, ConnectedCount

LEMMA FewerConnections ==
    ASSUME LInv, ConnectedClients' \subseteq ConnectedClients
    PROVE  MaxActiveBound'
BY CountShrinks, PoolFinite, PoolAssumption DEF LInv, LocksTypeOK, MaxActiveBound

(* A dial that was begun below the cap does not break it.                  *)
LEMMA DialKeepsCap ==
    ASSUME LInv, NEW c \in ToSet(servers), Dialed(c), servers' = servers, Connected(c) \/ MayDial
    PROVE  /\ MaxActiveBound'
           /\ conn' \in [Clients -> {"absent", "none", "alive", "dead"}]
           /\ healthy' \in [Clients -> BOOLEAN]
<1>1. TypeOK /\ c \in Clients
  BY PoolFinite DEF LInv, LocksTypeOK
<1>2. /\ conn' \in [Clients -> {"absent", "none", "alive", "dead"}]
      /\ healthy' \in [Clients -> BOOLEAN]
  BY <1>1 DEF Dialed, Redials, TypeOK
<1>3. MaxActiveBound'
  <2>1. CASE Connected(c)
    <3>1. conn' = conn
      BY <1>1, <2>1 DEF Dialed, Redials, TypeOK
    <3> QED
      BY <1>1, <3>1, SameCount DEF LInv, Connected
  <2>2. CASE ~Connected(c)
    <3>1. ConnectedClients' \subseteq ConnectedClients \cup {c}
      BY <1>1, PoolFinite DEF ConnectedClients, Connected, Dialed, Redials, TypeOK
    <3>2. ConnectedCount' \in Nat /\ ConnectedCount \in Nat /\ ConnectedCount' <= ConnectedCount + 1
      BY <1>1, <3>1, CountGrows, PoolFinite
    <3> QED
      BY <2>2, <3>2, PoolAssumption DEF MayDial, MaxActiveBound
  <2> QED
    BY <2>1, <2>2
<1> QED
  BY <1>2, <1>3

-----------------------------------------------------------------------------
(* Entering *)

LEMMA InitLInv == LocksInit => LInv
<1> SUFFICES ASSUME LocksInit PROVE LInv
  OBVIOUS
<1>1. TypeOK /\ MaxActiveBound /\ hasActive = FALSE
  BY InitIInv DEF LocksInit, IInv, Init
<1> QED
  BY <1>1 DEF LocksInit, LInv, LocksTypeOK, Ranged

LEMMA EntersLInv ==
    ASSUME LInv, NEW p \in Procs, Want(p) \/ Enters(p)
    PROVE  LInv'
<1>1. UNCHANGED poolVars /\ UNCHANGED <<got, shown>>
  BY DEF Want, Enters, EnterEmpty, EnterGet, EnterHealth, EnterClose, Enter
<1>2. TypeOK' /\ MaxActiveBound' /\ (MayDial => MayDial')
  <2>1. TypeOK'
    BY <1>1 DEF poolVars, LInv, LocksTypeOK, TypeOK
  <2> QED
    BY <1>1, <2>1, SameCount DEF poolVars, LInv, LocksTypeOK, Connected
<1>3. pc' \in [Procs -> {"idle", "lock", "call", "client"}]
  BY DEF Want, Enters, EnterEmpty, EnterGet, EnterHealth, EnterClose, Enter, Goto, LInv, LocksTypeOK
<1>4. CASE call' = call
  BY <1>1, <1>2, <1>3, <1>4 DEF LInv, LocksTypeOK, Ranged, poolVars
<1>5. ASSUME NEW at \in Places, NEW t \in Targets \cup {NoTarget}, NEW exclude \in SUBSET Addrs,
             at # "close" => servers # <<>>,
             at = "active" => hasActive,
             at \notin {"keepalive", "dial", "dialActive", "redial"},
             Enter(p, at, t, exclude)
      PROVE  LInv'
  <2>1. call' = [by |-> p, at |-> at, step |-> 0, t |-> t, exclude |-> exclude,
                 seen |-> {}, ok |-> {}]
    BY <1>5 DEF Enter
  <2>2. call' \in Call
    BY <2>1 DEF Call, Places
  <2>3. Len(servers) \in Nat
    BY ServersLength DEF LInv, LocksTypeOK
  <2>4. Ranged'
    BY <1>1, <1>5, <2>1, <2>3 DEF LInv, Ranged, poolVars
  <2> QED
    BY <1>1, <1>2, <1>3, <2>2, <2>4 DEF LInv, LocksTypeOK
<1>6. CASE Want(p) \/ EnterEmpty(p)
  BY <1>4, <1>6 DEF Want, EnterEmpty
<1>7. ASSUME NEW t \in Targets \cup {NoTarget}, NEW exclude \in SUBSET Addrs,
             EnterGet(p, t, exclude)
      PROVE  LInv'
  BY <1>5, <1>7 DEF EnterGet, Places
<1>8. CASE EnterHealth /\ p = "health"
  BY <1>5, <1>8 DEF EnterHealth, Places
<1>9. CASE EnterClose /\ p = "shutdown"
  BY <1>5, <1>9 DEF EnterClose, Places
<1> QED
  BY <1>6, <1>7, <1>8, <1>9 DEF Enters

-----------------------------------------------------------------------------
(* Inside a call *)

(* A step that only moves the call: it has to leave it in its ranges.      *)
LEMMA Moves ==
    ASSUME LInv, UNCHANGED <<poolVars, pc, got, shown>>, call' \in Call, Ranged'
    PROVE  LInv'
<1>1. TypeOK'
  BY DEF poolVars, LInv, LocksTypeOK, TypeOK
<1>2. MaxActiveBound'
  BY SameCount DEF poolVars, LInv, LocksTypeOK, Connected
<1> QED
  BY <1>1, <1>2 DEF LInv, LocksTypeOK

LEMMA Unmoved ==
    ASSUME LInv, UNCHANGED poolVars
    PROVE  MayDial => MayDial'
BY SameCount DEF poolVars, LInv, LocksTypeOK, Connected

(* A step that ends the call.                                              *)
LEMMA Leaves ==
    ASSUME LInv, NEW p \in Procs, NEW to \in {"idle", "client"}, Leave(p, to),
           TypeOK', MaxActiveBound', hasActive' => activeIdx' < Len(servers'),
           got' \in [Requesters -> Clients \cup {NoClient}]
    PROVE  LInv'
<1>1. /\ pc' \in [Procs -> {"idle", "lock", "call", "client"}]
      /\ call' = NoCall
      /\ shown' \in [Clients -> {"same", "alive", "dead"}]
  BY DEF Leave, Goto, LInv, LocksTypeOK
<1> QED
  BY <1>1 DEF LInv, LocksTypeOK, Ranged

LEMMA ContinueType ==
    ASSUME LInv, call \in Call, NEW seen \in SUBSET Addrs
    PROVE  /\ Continue(seen) \in Call
           /\ Continue(seen).at = "scan" /\ Continue(seen).ok = call.ok
           /\ Continue(seen).step = IF At({"active", "dialActive"}) THEN 0 ELSE call.step + 1
<1> DEFINE step == IF At({"active", "dialActive"}) THEN 0 ELSE call.step + 1
<1>1. step \in Nat
  BY DEF Call
<1> HIDE DEF step
<1>2. /\ Move("scan", step) \in Call
      /\ Move("scan", step).at = "scan" /\ Move("scan", step).ok = call.ok
      /\ Move("scan", step).step = step
  BY <1>1, MoveType DEF Places
<1>3. Continue(seen) = [Move("scan", step) EXCEPT !.seen = seen]
  BY DEF Continue, step
<1>4. step = IF At({"active", "dialActive"}) THEN 0 ELSE call.step + 1
  BY DEF step
<1> QED
  BY <1>2, <1>3, <1>4 DEF Call

(* A loop that goes on stays a loop of the same call.                      *)
LEMMA ContinuesLInv ==
    ASSUME LInv, call # NoCall, NEW seen \in SUBSET Addrs,
           \/ call.at \in {"active", "dialActive", "dial"}
           \/ call.at = "scan" /\ call.step < Len(servers),
           call' = Continue(seen), UNCHANGED <<poolVars, pc, got, shown>>
    PROVE  LInv'
<1>1. call \in Call /\ call.step \in Nat /\ Len(servers) \in Nat
  BY ServersLength DEF LInv, LocksTypeOK, Call
<1>2. /\ call' \in Call /\ call'.at = "scan" /\ call'.ok = call.ok
      /\ call'.step = IF At({"active", "dialActive"}) THEN 0 ELSE call.step + 1
  BY <1>1, ContinueType
<1>3. call'.step <= Len(servers)
  BY <1>1, <1>2 DEF LInv, Ranged, At
<1>4. Ranged'
  BY <1>1, <1>2, <1>3 DEF LInv, Ranged, poolVars
<1> QED
  BY <1>2, <1>4, Moves

LEMMA SkipLInv == LInv /\ Skip => LInv'
<1> SUFFICES ASSUME LInv, Skip PROVE LInv'
  OBVIOUS
<1>1. /\ call # NoCall /\ call \in Call /\ call.seen \in SUBSET Addrs
      /\ call.at = "active" \/ (call.at = "scan" /\ call.step < Len(servers))
  BY DEF Skip, InLoop, At, LInv, LocksTypeOK, Call
<1>2. servers # <<>>
  BY <1>1 DEF LInv, Ranged
<1>3. Looked \in SUBSET Addrs
  BY <1>1, <1>2, CurrentInPool DEF Looked
<1>4. call' = Continue(call.seen) \/ call' = Continue(Looked)
  BY DEF Skip
<1> QED
  BY <1>1, <1>3, <1>4, ContinuesLInv DEF Skip

LEMMA DialFailsLInv == LInv /\ DialFails => LInv'
<1> SUFFICES ASSUME LInv, DialFails PROVE LInv'
  OBVIOUS
<1>1. /\ call # NoCall /\ call.seen \in SUBSET Addrs
      /\ call.at \in {"dialActive", "dial"}
  BY DEF DialFails, At, LInv, LocksTypeOK, Call
<1> QED
  BY <1>1, ContinuesLInv DEF DialFails

LEMMA StartDialLInv == LInv /\ StartDial => LInv'
<1> SUFFICES ASSUME LInv, StartDial PROVE LInv'
  OBVIOUS
<1> DEFINE at == IF call.at = "active" THEN "dialActive" ELSE "dial"
<1>1. /\ call # NoCall /\ call \in Call /\ call.seen \in SUBSET Addrs /\ call.step \in Nat
      /\ call.at = "active" \/ (call.at = "scan" /\ call.step < Len(servers))
      /\ MayDial
  BY DEF StartDial, Suitable, InLoop, At, LInv, LocksTypeOK, Call
<1>2. servers # <<>>
  BY <1>1 DEF LInv, Ranged
<1>3. Looked \in SUBSET Addrs
  BY <1>1, <1>2, CurrentInPool DEF Looked
<1>4. at \in Places
  BY DEF Places
<1> HIDE DEF at
<1>5. /\ Move(at, call.step) \in Call
      /\ Move(at, call.step).at = at /\ Move(at, call.step).step = call.step
      /\ Move(at, call.step).ok = call.ok
  BY <1>1, <1>4, MoveType
<1>6. call' = [Move(at, call.step) EXCEPT !.seen = Looked]
  BY DEF StartDial, at
<1>7. call' \in Call /\ call'.at = at /\ call'.step = call.step /\ call'.ok = call.ok
  BY <1>3, <1>5, <1>6 DEF Call
<1>8. MayDial'
  BY <1>1, Unmoved DEF StartDial
<1>9. Ranged'
  BY <1>1, <1>2, <1>7, <1>8 DEF LInv, Ranged, StartDial, poolVars, at
<1> QED
  BY <1>7, <1>9, Moves DEF StartDial

-----------------------------------------------------------------------------
(* The end of a selection *)

LEMMA SelectionTypes ==
    ASSUME TypeOK, AdvanceIndex, NEW t, NEW seen, targetFailures' = DropStale(t, seen)
    PROVE  /\ index' \in 0 .. IndexSize - 1
           /\ targetFailures' \in [Addrs \X Targets -> Failure]
<1>1. index + 1 \in Nat /\ IndexSize \in Nat \ {0}
  BY PoolAssumption DEF TypeOK
<1>2. (index + 1) % IndexSize \in 0 .. IndexSize - 1
  BY <1>1, ModRange
<1>3. index' \in 0 .. IndexSize - 1
  BY <1>2 DEF AdvanceIndex, TypeOK
<1> QED
  BY <1>3, FailureOperators DEF DropStale, TypeOK

LEMMA ReturnLInv ==
    ASSUME LInv, call # NoCall, servers # <<>>, NEW seen, Return(seen),
           call.at \in {"active", "dialActive", "scan", "dial"},
           Connected(Current) \/ MayDial
    PROVE  LInv'
<1>1. /\ TypeOK /\ call \in Call /\ call.by \in Procs
      /\ Len(servers) \in Nat
  BY ServersLength DEF LInv, LocksTypeOK, Call
<1>2. /\ Slot \in 0 .. Len(servers) - 1
      /\ Current \in Clients /\ Current \in ToSet(servers)
  BY CurrentInPool
<1>3. /\ MaxActiveBound'
      /\ conn' \in [Clients -> {"absent", "none", "alive", "dead"}]
      /\ healthy' \in [Clients -> BOOLEAN]
  BY <1>2, DialKeepsCap DEF Return
<1>4. /\ index' \in 0 .. IndexSize - 1
      /\ targetFailures' \in [Addrs \X Targets -> Failure]
  BY <1>1, SelectionTypes DEF Return
<1>5. /\ activeIdx' \in Nat /\ hasActive' \in BOOLEAN
      /\ hasActive' => activeIdx' < Len(servers)
  <2>1. CASE Strategy = "failover"
    BY <1>1, <1>2, <2>1 DEF Return, Activate
  <2>2. CASE Strategy # "failover"
    BY <2>2 DEF Return, KeepActive, LInv, LocksTypeOK, TypeOK, Ranged
  <2> QED
    BY <2>1, <2>2
<1>6. TypeOK'
  BY <1>1, <1>3, <1>4, <1>5 DEF Return, TypeOK
<1>7. got' \in [Requesters -> Clients \cup {NoClient}]
  BY <1>2 DEF Return, LInv, LocksTypeOK
<1> QED
  BY <1>1, <1>3, <1>5, <1>6, <1>7, Leaves DEF Return

LEMMA FoundLInv == LInv /\ (Found \/ DialSucceeds) => LInv'
<1> SUFFICES ASSUME LInv, Found \/ DialSucceeds PROVE LInv'
  OBVIOUS
<1>1. /\ call # NoCall
      /\ call.at \in {"active", "dialActive", "scan", "dial"}
  BY DEF Found, DialSucceeds, Suitable, InLoop, At
<1>2. servers # <<>>
  BY <1>1 DEF LInv, Ranged
<1>3. Connected(Current) \/ MayDial
  BY DEF Found, DialSucceeds, At, LInv, Ranged
<1>4. PICK seen \in {Looked, call.seen} : Return(seen)
  BY DEF Found, DialSucceeds
<1> QED
  BY <1>1, <1>2, <1>3, <1>4, ReturnLInv

LEMMA NoServerLInv == LInv /\ NoServer => LInv'
<1> SUFFICES ASSUME LInv, NoServer PROVE LInv'
  OBVIOUS
<1>1. TypeOK /\ call \in Call /\ call.by \in Procs
  BY DEF NoServer, At, LInv, LocksTypeOK, Call
<1>2. /\ activeIdx' \in Nat /\ hasActive' \in BOOLEAN
      /\ hasActive' => activeIdx' < Len(servers)
  <2>1. CASE Strategy = "failover"
    <3>1. hasActive' = FALSE /\ activeIdx' = 0
      BY <2>1 DEF NoServer, Deactivate
    <3> QED
      BY <3>1
  <2>2. CASE Strategy # "failover"
    BY <2>2 DEF NoServer, KeepActive, LInv, LocksTypeOK, TypeOK, Ranged
  <2> QED
    BY <2>1, <2>2
<1>3. TypeOK'
  BY <1>1, <1>2, SelectionTypes DEF NoServer, TypeOK
<1>4. MaxActiveBound'
  BY <1>1, SameCount DEF NoServer, LInv, Connected
<1> QED
  BY <1>1, <1>2, <1>3, <1>4, Leaves DEF NoServer, LInv, LocksTypeOK

-----------------------------------------------------------------------------
(* Health checks *)

LEMMA ProbeLInv == LInv /\ (Probe \/ StartRedial \/ RedialFails) => LInv'
<1> SUFFICES ASSUME LInv, Probe \/ StartRedial \/ RedialFails PROVE LInv'
  OBVIOUS
<1>1. /\ call # NoCall /\ call \in Call /\ call.step \in Nat /\ Len(servers) \in Nat
      /\ servers # <<>> /\ Len(servers) > 0
  BY ServersLength DEF Probe, StartRedial, RedialFails, At, LInv, LocksTypeOK, Ranged, Call
<1>2. PICK at \in {"keepalive", "probe", "redial"}, step \in 0 .. Len(servers) :
        /\ call' = Move(at, step)
        /\ at = "keepalive" => step < Len(servers)
        /\ at = "redial" => Strategy = "failover"
  <2>1. CASE Probe
    BY <1>1, <2>1 DEF Probe
  <2>2. CASE StartRedial
    BY <1>1, <2>2 DEF StartRedial
  <2>3. CASE RedialFails
    BY <1>1, <2>3 DEF RedialFails, At, LInv, Ranged
  <2> QED
    BY <2>1, <2>2, <2>3
<1>3. call' \in Call /\ call'.at = at /\ call'.step = step /\ call'.ok = call.ok
  BY <1>1, <1>2, MoveType DEF Places
<1>4. UNCHANGED <<poolVars, pc, got, shown>>
  BY DEF Probe, StartRedial, RedialFails
<1>5. Ranged'
  BY <1>1, <1>2, <1>3, <1>4 DEF LInv, Ranged, poolVars
<1> QED
  BY <1>3, <1>4, <1>5, Moves

LEMMA CutTypes ==
    ASSUME LInv, NEW c \in Clients, Cut(c), UNCHANGED servers
    PROVE  /\ MaxActiveBound'
           /\ conn' \in [Clients -> {"absent", "none", "alive", "dead"}]
           /\ healthy' \in [Clients -> BOOLEAN]
<1>1. TypeOK
  BY DEF LInv, LocksTypeOK
<1>2. /\ conn' \in [Clients -> {"absent", "none", "alive", "dead"}]
      /\ healthy' \in [Clients -> BOOLEAN]
      /\ \A d \in Clients : Connected(d)' => Connected(d)
  BY <1>1 DEF Cut, TypeOK, Connected
<1>3. ConnectedClients' \subseteq ConnectedClients
  BY <1>1, <1>2, PoolFinite DEF ConnectedClients
<1> QED
  BY <1>2, <1>3, FewerConnections

LEMMA KeepaliveLInv == LInv /\ KeepaliveReturns => LInv'
<1> SUFFICES ASSUME LInv, KeepaliveReturns PROVE LInv'
  OBVIOUS
<1>1. /\ call # NoCall /\ call \in Call /\ call.at = "keepalive"
      /\ call.step \in Nat /\ call.step < Len(servers) /\ Len(servers) \in Nat
      /\ servers # <<>> /\ call.ok \subseteq 0 .. Len(servers) - 1 /\ TypeOK
      /\ call.ok \in SUBSET Nat
  BY ServersLength DEF KeepaliveReturns, At, LInv, LocksTypeOK, Ranged, Call
<1>2. Current \in Clients
  BY <1>1, CurrentInPool
<1>3. /\ Move("probe", call.step + 1) \in Call
      /\ Move("probe", call.step + 1).at = "probe"
      /\ Move("probe", call.step + 1).step = call.step + 1
      /\ Move("probe", call.step + 1).ok = call.ok
  BY <1>1, MoveType DEF Places
<1>4. /\ call' \in Call /\ call'.at = "probe" /\ call'.step = call.step + 1
      /\ call'.ok \subseteq 0 .. Len(servers) - 1
  <2>1. CASE call' = Move("probe", call.step + 1)
    BY <1>1, <1>3, <2>1
  <2>2. CASE call' = [Move("probe", call.step + 1) EXCEPT !.ok = @ \cup {call.step}]
    <3>1. call.ok \cup {call.step} \in SUBSET Nat
      BY <1>1
    <3>2. call.ok \cup {call.step} \subseteq 0 .. Len(servers) - 1
      BY <1>1
    <3> QED
      BY <1>3, <2>2, <3>1, <3>2 DEF Call
  <2> QED
    BY <2>1, <2>2 DEF KeepaliveReturns
<1>5. /\ MaxActiveBound'
      /\ conn' \in [Clients -> {"absent", "none", "alive", "dead"}]
      /\ healthy' \in [Clients -> BOOLEAN]
      /\ shown' \in [Clients -> {"same", "alive", "dead"}]
  <2>1. CASE UNCHANGED <<conn, healthy, shown>>
    BY <1>1, <2>1, SameCount DEF KeepaliveReturns, LInv, LocksTypeOK, TypeOK, Connected
  <2>2. CASE Cut(Current) /\ shown' = [shown EXCEPT ![Current] = "dead"]
    BY <1>2, <2>2, CutTypes DEF KeepaliveReturns, LInv, LocksTypeOK
  <2> QED
    BY <2>1, <2>2 DEF KeepaliveReturns
<1>6. TypeOK'
  BY <1>1, <1>5 DEF KeepaliveReturns, TypeOK
<1>7. Ranged'
  BY <1>1, <1>4 DEF KeepaliveReturns, LInv, Ranged
<1> QED
  BY <1>4, <1>5, <1>6, <1>7 DEF KeepaliveReturns, LInv, LocksTypeOK

(* The health check ends with an active server it has just heard from, or  *)
(* with none.                                                              *)
LEMMA JudgeLInv == LInv /\ (Judge \/ NoneAlive) => LInv'
<1> SUFFICES ASSUME LInv, Judge \/ NoneAlive PROVE LInv'
  OBVIOUS
<1>1. /\ TypeOK /\ call \in Call /\ call.ok \subseteq 0 .. Len(servers) - 1
      /\ Len(servers) \in Nat /\ call.ok \in SUBSET Nat
  BY ServersLength DEF Judge, NoneAlive, At, LInv, LocksTypeOK, Ranged, Call
<1>2. /\ activeIdx' \in Nat /\ hasActive' \in BOOLEAN
      /\ hasActive' => activeIdx' < Len(servers)
  <2>1. CASE KeepActive
    BY <2>1 DEF KeepActive, LInv, LocksTypeOK, TypeOK, Ranged
  <2>2. CASE call.ok # {} /\ Activate(Min(call.ok))
    <3>1. Min(call.ok) \in call.ok
      BY <1>1, <2>2, MinOf
    <3> QED
      BY <1>1, <2>2, <3>1 DEF Activate
  <2>3. CASE Deactivate
    BY <2>3 DEF Deactivate
  <2> QED
    BY <2>1, <2>2, <2>3 DEF Judge, NoneAlive
<1>3. UNCHANGED <<phase, servers, index, targetFailures, got, conn, healthy>> /\ Leave("health", "idle")
  BY DEF Judge, NoneAlive, LeaveHealth
<1>4. TypeOK'
  BY <1>1, <1>2, <1>3 DEF TypeOK
<1>5. MaxActiveBound'
  BY <1>1, <1>3, SameCount DEF LInv, Connected
<1> QED
  BY <1>2, <1>3, <1>4, <1>5, Leaves DEF Procs, LInv, LocksTypeOK

LEMMA RedialSucceedsLInv == LInv /\ RedialSucceeds => LInv'
<1> SUFFICES ASSUME LInv, RedialSucceeds PROVE LInv'
  OBVIOUS
<1>1. /\ TypeOK /\ call # NoCall /\ call.at = "redial" /\ call.step < Len(servers)
      /\ Strategy = "failover" /\ servers # <<>> /\ Len(servers) \in Nat
  BY ServersLength DEF RedialSucceeds, At, LInv, LocksTypeOK, Ranged
<1>2. /\ Slot \in 0 .. Len(servers) - 1
      /\ Current \in Clients /\ Current \in ToSet(servers)
  BY <1>1, CurrentInPool
<1>3. /\ UNCHANGED <<phase, servers, index, targetFailures, got>> /\ Leave("health", "idle")
      /\ hasActive' = TRUE /\ activeIdx' = Slot
  BY DEF RedialSucceeds, LeaveHealth, Activate
<1>4. /\ MaxActiveBound'
      /\ conn' \in [Clients -> {"absent", "none", "alive", "dead"}]
      /\ healthy' \in [Clients -> BOOLEAN]
  BY <1>1, <1>2, <1>3, DialKeepsCap DEF RedialSucceeds, MayDial
<1>5. TypeOK'
  BY <1>1, <1>2, <1>3, <1>4 DEF TypeOK
<1> QED
  BY <1>1, <1>2, <1>3, <1>4, <1>5, Leaves DEF Procs, LInv, LocksTypeOK

-----------------------------------------------------------------------------
(* The shutdown, and what happens between the calls *)

LEMMA CloseLInv == LInv /\ (CloseNext \/ CloseDone) => LInv'
<1> SUFFICES ASSUME LInv, CloseNext \/ CloseDone PROVE LInv'
  OBVIOUS
<1>1. TypeOK /\ call # NoCall /\ call \in Call /\ Len(servers) \in Nat
  BY ServersLength DEF CloseNext, CloseDone, At, LInv, LocksTypeOK
<1>2. CASE CloseNext
  <2>1. /\ call.at = "close" /\ call.step \in Nat /\ call.step < Len(servers)
        /\ servers # <<>>
    BY <1>1, <1>2, ServersLength DEF CloseNext, At, Call
  <2>2. Current \in Clients
    BY <1>1, <2>1, CurrentInPool
  <2>3. /\ MaxActiveBound'
        /\ conn' \in [Clients -> {"absent", "none", "alive", "dead"}]
        /\ healthy' \in [Clients -> BOOLEAN]
    BY <1>2, <2>2, CutTypes DEF CloseNext
  <2>4. /\ call' \in Call /\ call'.at = "close" /\ call'.step = call.step + 1
        /\ call'.ok = call.ok
    BY <1>1, <1>2, <2>1, MoveType DEF CloseNext, Places
  <2>5. TypeOK'
    BY <1>1, <1>2, <2>3 DEF CloseNext, TypeOK
  <2>6. Ranged'
    BY <1>1, <1>2, <2>1, <2>4 DEF CloseNext, LInv, Ranged
  <2>7. shown' \in [Clients -> {"same", "alive", "dead"}]
    BY <1>1, <1>2, <2>2 DEF CloseNext, LInv, LocksTypeOK, TypeOK, Connected
  <2> QED
    BY <1>2, <2>3, <2>4, <2>5, <2>6, <2>7 DEF CloseNext, LInv, LocksTypeOK
<1>3. CASE CloseDone
  <2>1. /\ servers' = <<>> /\ phase' = "closed" /\ hasActive' = FALSE /\ activeIdx' = 0
        /\ UNCHANGED <<index, conn, healthy, targetFailures, got>>
        /\ Leave("shutdown", "idle")
    BY <1>3 DEF CloseDone, Deactivate
  <2>2. TypeOK'
    BY <1>1, <2>1, EmptySeq DEF TypeOK
  <2>3. ConnectedClients' = {}
    BY <2>1 DEF ConnectedClients, ToSet
  <2>4. MaxActiveBound'
    BY <2>3, FewerConnections
  <2> QED
    BY <2>1, <2>2, <2>4, Leaves DEF Procs, LInv, LocksTypeOK
<1> QED
  BY <1>2, <1>3

LEMMA ReadersLInv ==
    ASSUME LInv, \/ \E p \in Requesters : ReadClient(p)
                 \/ \E c \in Clients : Settle(c)
    PROVE  LInv'
<1>1. UNCHANGED <<poolVars, call>>
  BY DEF ReadClient, Settle
<1>2. TypeOK' /\ MaxActiveBound' /\ (MayDial => MayDial')
  <2>1. TypeOK'
    BY <1>1 DEF poolVars, LInv, LocksTypeOK, TypeOK
  <2> QED
    BY <1>1, <2>1, SameCount DEF poolVars, LInv, LocksTypeOK, Connected
<1>3. /\ pc' \in [Procs -> {"idle", "lock", "call", "client"}]
      /\ got' \in [Requesters -> Clients \cup {NoClient}]
      /\ shown' \in [Clients -> {"same", "alive", "dead"}]
  BY DEF ReadClient, Settle, Goto, LInv, LocksTypeOK
<1>4. Ranged'
  BY <1>1, <1>2 DEF LInv, Ranged, poolVars
<1> QED
  BY <1>1, <1>2, <1>3, <1>4 DEF LInv, LocksTypeOK

(* A client is built, and perhaps dialled, below the limit.                *)
LEMMA ConnectServerLInv ==
    ASSUME LInv, NEW c \in Clients, NEW outcome \in {"connected", "failed", "lazy"},
           ConnectServer(c, outcome)
    PROVE  TypeOK' /\ MaxActiveBound' /\ (hasActive' => activeIdx' < Len(servers'))
<1>1. TypeOK /\ (hasActive => activeIdx < Len(servers)) /\ MaxActiveBound
  BY DEF LInv, LocksTypeOK, Ranged
<1>2. TypeOK'
  BY <1>1, AppendProperties DEF ConnectServer, TypeOK
<1>3. /\ Len(servers) \in Nat /\ Len(servers') = Len(servers) + 1
      /\ ToSet(servers') \subseteq ToSet(servers) \cup {c}
  <2>1. /\ DOMAIN servers = 1 .. Len(servers) /\ Len(servers) \in Nat
        /\ DOMAIN servers' = 1 .. Len(servers) + 1
        /\ \A i \in 1 .. Len(servers) : servers'[i] = servers[i]
        /\ servers'[Len(servers) + 1] = c
        /\ Len(servers') = Len(servers) + 1
    BY <1>1, <1>2, AppendProperties, LenProperties DEF ConnectServer, TypeOK
  <2> QED
    BY <2>1 DEF ToSet
<1>4. hasActive' => activeIdx' < Len(servers')
  BY <1>1, <1>3 DEF ConnectServer, TypeOK
<1>5. MaxActiveBound'
  <2>1. CASE outcome = "connected"
    <3>1. ConnectedClients' \subseteq ConnectedClients \cup {c}
      BY <1>1, <1>3, PoolFinite DEF ConnectServer, ConnectedClients, Connected, TypeOK
    <3>2. ~(ConnectedCount >= EagerLimit)
      BY <2>1 DEF ConnectServer
    <3> QED
      BY <1>1, <3>1, <3>2, CountGrows, PoolFinite, PoolAssumption DEF MaxActiveBound, EagerLimit
  <2>2. CASE outcome # "connected"
    <3>1. ConnectedClients' \subseteq ConnectedClients
      BY <1>1, <1>3, <2>2, PoolFinite DEF ConnectServer, ConnectedClients, Connected, TypeOK
    <3> QED
      BY <3>1, FewerConnections
  <2> QED
    BY <2>1, <2>2
<1> QED
  BY <1>2, <1>4, <1>5

LEMMA FailuresType ==
    ASSUME TypeOK,
           \/ \E c \in Clients, t \in Targets : ReportTargetFailure(c, t) \/ ReportTargetSuccess(c, t)
           \/ CleanupExpiredTargets
           \/ \E p \in Addrs \X Targets : Expire(p[1], p[2])
    PROVE  /\ TypeOK'
           /\ UNCHANGED <<phase, servers, index, hasActive, activeIdx, conn, healthy>>
<1>1. ASSUME NEW c \in Clients, NEW t \in Targets,
             ReportTargetFailure(c, t) \/ ReportTargetSuccess(c, t)
      PROVE  targetFailures' \in [Addrs \X Targets -> Failure]
  <2>1. <<AddrOf[c], t>> \in Addrs \X Targets
    BY DEF Addrs
  <2> QED
    BY <1>1, <2>1, FailureOperators DEF ReportTargetFailure, ReportTargetSuccess, Forget, TypeOK
<1>2. ASSUME CleanupExpiredTargets
      PROVE  targetFailures' \in [Addrs \X Targets -> Failure]
  BY <1>2, FailureOperators DEF CleanupExpiredTargets, TypeOK
<1>3. ASSUME NEW p \in Addrs \X Targets, Expire(p[1], p[2])
      PROVE  targetFailures' \in [Addrs \X Targets -> Failure]
  <2>1. /\ <<p[1], p[2]>> \in Addrs \X Targets
        /\ targetFailures[<<p[1], p[2]>>] \in Failure
    BY DEF TypeOK
  <2>2. [targetFailures[<<p[1], p[2]>>] EXCEPT !.until = "past"] \in Failure
    BY <2>1, FailureOperators
  <2> QED
    BY <1>3, <2>1, <2>2 DEF Expire, TypeOK
<1>4. UNCHANGED <<phase, servers, index, hasActive, activeIdx, conn, healthy>>
  BY DEF ReportTargetFailure, ReportTargetSuccess, CleanupExpiredTargets, Expire
<1>5. targetFailures' \in [Addrs \X Targets -> Failure]
  BY <1>1, <1>2, <1>3
<1> QED
  BY <1>4, <1>5 DEF TypeOK

LEMMA BriefLInv == LInv /\ Brief => LInv'
<1> SUFFICES ASSUME LInv, Brief PROVE LInv'
  OBVIOUS
<1>1. /\ TypeOK /\ call = NoCall /\ UNCHANGED <<pc, got, call, shown>>
      /\ (hasActive => activeIdx < Len(servers)) /\ MaxActiveBound
  BY DEF Brief, LInv, LocksTypeOK, Ranged
<1>2. TypeOK' /\ MaxActiveBound' /\ (hasActive' => activeIdx' < Len(servers'))
  <2>1. CASE \E c \in Clients, outcome \in {"connected", "failed", "lazy"} : ConnectServer(c, outcome)
    BY <2>1, ConnectServerLInv
  <2>2. CASE Start
    <3>1. TypeOK' /\ UNCHANGED <<servers, hasActive, activeIdx, conn>>
      BY <1>1, <2>2 DEF Start, TypeOK
    <3> QED
      BY <1>1, <3>1, SameCount DEF Connected
  <2>3. CASE Report \/ Cleanup
    <3>1. TypeOK' /\ UNCHANGED <<servers, hasActive, activeIdx, conn>>
      BY <1>1, <2>3, FailuresType DEF Report, Cleanup
    <3> QED
      BY <1>1, <3>1, SameCount DEF Connected
  <2> QED
    BY <2>1, <2>2, <2>3 DEF Brief, Startup
<1> QED
  BY <1>1, <1>2 DEF LInv, LocksTypeOK, Ranged

(* A peer that dies is still a connection of the pool.                     *)
LEMMA EnvironsLInv == LInv /\ Environs => LInv'
<1> SUFFICES ASSUME LInv, Environs PROVE LInv'
  OBVIOUS
<1>1. TypeOK /\ UNCHANGED <<pc, got, call>>
  BY DEF Environs, LInv, LocksTypeOK
<1>2. /\ TypeOK' /\ UNCHANGED <<servers, hasActive, activeIdx>>
      /\ \A c \in Clients : Connected(c)' <=> Connected(c)
      /\ shown' \in [Clients -> {"same", "alive", "dead"}]
  <2>1. ASSUME NEW c \in Clients, PeerDies(c),
               shown' = IF call # NoCall /\ \E i \in call.ok : servers[i + 1] = c
                        THEN [shown EXCEPT ![c] = "alive"] ELSE shown
        PROVE  /\ TypeOK' /\ UNCHANGED <<servers, hasActive, activeIdx>>
               /\ \A d \in Clients : Connected(d)' <=> Connected(d)
               /\ shown' \in [Clients -> {"same", "alive", "dead"}]
    <3>1. TypeOK' /\ UNCHANGED <<servers, hasActive, activeIdx>>
      BY <1>1, <2>1 DEF PeerDies, TypeOK
    <3>2. \A d \in Clients : Connected(d)' <=> Connected(d)
      BY <1>1, <2>1 DEF PeerDies, TypeOK, Connected
    <3>3. shown' \in [Clients -> {"same", "alive", "dead"}]
      BY <2>1 DEF LInv, LocksTypeOK
    <3> QED
      BY <3>1, <3>2, <3>3
  <2>2. CASE (\E p \in Addrs \X Targets : Expire(p[1], p[2])) /\ UNCHANGED shown
    <3>1. TypeOK' /\ UNCHANGED <<servers, hasActive, activeIdx, conn>>
      BY <1>1, <2>2, FailuresType
    <3> QED
      BY <2>2, <3>1 DEF Connected, LInv, LocksTypeOK
  <2> QED
    BY <2>1, <2>2 DEF Environs
<1>3. MaxActiveBound' /\ (MayDial => MayDial')
  BY <1>1, <1>2, SameCount DEF LInv
<1>4. Ranged'
  BY <1>1, <1>2, <1>3 DEF LInv, Ranged
<1> QED
  BY <1>1, <1>2, <1>3, <1>4 DEF LInv, LocksTypeOK

-----------------------------------------------------------------------------
(* The theorems *)

LEMMA LocksNextLInv == LInv /\ [LocksNext]_vars => LInv'
<1> SUFFICES ASSUME LInv, [LocksNext]_vars PROVE LInv'
  OBVIOUS
<1>1. CASE UNCHANGED vars
  <2>1. UNCHANGED <<poolVars, pc, got, shown, call>>
    BY <1>1 DEF vars
  <2>2. MayDial => MayDial'
    BY <2>1, Unmoved
  <2>3. TypeOK' /\ MaxActiveBound'
    <3>1. TypeOK'
      BY <2>1 DEF poolVars, LInv, LocksTypeOK, TypeOK
    <3> QED
      BY <2>1, <3>1, SameCount DEF poolVars, LInv, LocksTypeOK, Connected
  <2> QED
    BY <2>1, <2>2, <2>3 DEF LInv, LocksTypeOK, Ranged, poolVars
<1>2. CASE \E p \in Procs : Want(p) \/ Enters(p)
  BY <1>2, EntersLInv
<1>3. CASE (\E p \in Requesters : ReadClient(p)) \/ (\E c \in Clients : Settle(c))
  BY <1>3, ReadersLInv
<1>4. CASE Works
  BY <1>4, SkipLInv, StartDialLInv, FoundLInv, NoServerLInv, ProbeLInv, JudgeLInv, CloseLInv
  DEF Works
<1>5. CASE NetworkReturns
  BY <1>5, DialFailsLInv, FoundLInv, KeepaliveLInv, ProbeLInv, RedialSucceedsLInv
  DEF NetworkReturns
<1>6. CASE Brief
  BY <1>6, BriefLInv
<1>7. CASE Environs
  BY <1>7, EnvironsLInv
<1> QED
  BY <1>1, <1>2, <1>3, <1>4, <1>5, <1>6, <1>7 DEF LocksNext

(* The inductive invariant holds of every behaviour of the calls.          *)
THEOREM LocksInvariance == LocksSpec => []LInv
BY InitLInv, LocksNextLInv, PTL DEF LocksSpec

(* Every variable keeps its type; in particular no loop of a call leaves   *)
(* the pool, and what a requester was handed is a client or nil            *)
(* (strategy.go, healthcheck.go).                                         *)
THEOREM LocksTypeCorrect == LocksSpec => []LocksTypeOK
<1>1. LInv => LocksTypeOK
  BY DEF LInv
<1> QED
  BY LocksInvariance, <1>1, PTL

(* The cap on the connections of a load balancing pool holds at every      *)
(* moment of a call, not only between the calls: while a dial is under way *)
(* and rr.mu is held, nobody else opens one (strategy.go:34-43).           *)
THEOREM BoundedInCalls == LocksSpec => []MaxActiveBound
<1>1. LInv => MaxActiveBound
  BY DEF LInv
<1> QED
  BY LocksInvariance, <1>1, PTL
=============================================================================
