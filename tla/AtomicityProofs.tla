---------------------------- MODULE AtomicityProofs ----------------------------
(***************************************************************************)
(* The calls of the pool are atomic: what the loops of PoolLocks do under  *)
(* rr.mu, with peers that die and handlers that read connections in their  *)
(* middle, is a behaviour of RoundRobin, whose actions are whole calls.    *)
(*                                                                         *)
(* A call takes effect in the step that releases rr.mu.  Until then the    *)
(* pool shows what it was when the call began, except for the peers that   *)
(* die before a health check has heard from them; RInv says what a loop    *)
(* has learnt of the pool so far, and that this still holds.               *)
(***************************************************************************)
EXTENDS PoolLocksProofs

LOCAL INSTANCE SequenceTheorems

-----------------------------------------------------------------------------
(* The inductive invariant *)

(* How many servers of RoundRobin's scan the loop of a selection has       *)
(* passed: the active server is the first of that scan, and the loop comes *)
(* back to it at its end.                                                  *)
Passed ==
    IF call.at \in {"active", "dialActive"} THEN 0
    ELSE IF ~(Strategy = "failover" /\ hasActive) THEN call.step
    ELSE IF call.step < Len(servers) THEN call.step + 1 ELSE Len(servers)

(* A selection shows the pool as it is.  What it has passed does not stop  *)
(* the scan, and it has looked at those addresses.                         *)
SelectionOK ==
    At({"active", "dialActive", "scan", "dial"}) =>
        /\ call.ok = {}
        /\ \A c \in Clients : shown[c] = "same"
        /\ Passes(call.t, call.exclude, Passed)
        /\ call.at \in {"active", "scan"} => call.seen = SeenAddrs(call.exclude, Passed - 1)
        /\ call.at \in {"dialActive", "dial"} =>
              /\ Passed < Len(servers)
              /\ call.seen = SeenAddrs(call.exclude, Passed)
              /\ Eligible(Current, call.t, call.exclude) /\ ~Connected(Current)
        /\ call.at \in {"active", "dialActive"} => Strategy = "failover"

(* The slots that a health check has judged.  Those that answered still    *)
(* have their connection, although the peer may have died since; the       *)
(* others have none, and a peer found dead is shown until the call ends.   *)
Judged == IF call.at = "redial" THEN 0 .. Len(servers) - 1 ELSE 0 .. call.step - 1

HealthOK ==
    At({"probe", "keepalive", "redial"}) =>
        /\ call.ok \subseteq Judged
        /\ call.at = "redial" => call.ok = {}
        /\ call.at = "keepalive" => Connected(Current)
        /\ \A i \in Judged : IF i \in call.ok THEN Connected(servers[i + 1])
                                              ELSE conn[servers[i + 1]] = "none"
        /\ \A c \in Clients :
              /\ shown[c] = "alive" <=> conn[c] = "dead" /\ \E i \in call.ok : servers[i + 1] = c
              /\ shown[c] = "dead" => \E i \in Judged \ call.ok : servers[i + 1] = c

(* A shutdown has cut the connections it has passed.                       *)
CloseOK ==
    At({"close"}) =>
        /\ call.ok = {}
        /\ \A i \in 0 .. call.step - 1 : conn[servers[i + 1]] = "none"
        /\ \A c \in Clients : shown[c] # "same" => \E i \in 0 .. call.step - 1 : servers[i + 1] = c

(* Between the calls only a peer's death may still have to show.           *)
Settled ==
    call = NoCall =>
        \A c \in Clients : shown[c] # "same" => shown[c] = "alive" /\ conn[c] = "dead"

Phased ==
    /\ phase = "startup" => /\ call = NoCall
                            /\ \A c \in Clients : shown[c] = "same"
                            /\ \A p \in Procs : pc[p] = "idle"
    /\ pc["shutdown"] # "idle" => phase = "running"

RInv ==
    /\ LInv /\ NoneTwice /\ HealthyIffConnected
    /\ Phased /\ Settled
    /\ SelectionOK /\ HealthOK /\ CloseOK

-----------------------------------------------------------------------------
(* The order in which the loop looks at the servers *)

LEMMA ModPlus ==
    ASSUME NEW a \in Nat, NEW b \in Nat, NEW n \in Nat \ {0}
    PROVE  ((a % n) + b) % n = (a + b) % n
<1> DEFINE q == a \div n
           r == a % n
           p == (r + b) \div n
           v == (r + b) % n
<1>1. q \in Nat /\ r \in 0 .. n - 1 /\ a = q * n + r
  BY DivMod
<1>2. r + b \in Nat
  BY <1>1
<1> HIDE DEF q, r
<1>3. p \in Nat /\ v \in 0 .. n - 1 /\ r + b = p * n + v
  BY <1>2, DivMod
<1> HIDE DEF p, v
<1>4. (q + p) * n = q * n + p * n
  BY <1>1, <1>3
<1>5. a + b = (q + p) * n + v /\ q + p \in Nat
  BY <1>1, <1>3, <1>4
<1>6. ((q + p) * n + v) % n = v
  BY <1>3, <1>5, ModUnique
<1> QED
  BY <1>5, <1>6 DEF v, r

(* Steps from a slot round the pool: none, some, all.                      *)
LEMMA ModRound ==
    ASSUME NEW n \in Nat \ {0}, NEW a \in 0 .. n - 1
    PROVE  /\ a % n = a /\ (a + n) % n = a
           /\ \A j \in 1 .. n - 1 : (a + j) % n # a
<1>1. a % n = a
  <2>1. (0 * n + a) % n = a
    BY ModUnique
  <2> QED
    BY <2>1
<1>2. (a + n) % n = a
  <2>1. (1 * n + a) % n = a
    BY ModUnique
  <2>2. 1 * n + a = a + n
    OBVIOUS
  <2> QED
    BY <2>1, <2>2
<1>3. ASSUME NEW j \in 1 .. n - 1 PROVE (a + j) % n # a
  <2>1. CASE a + j < n
    <3>1. a + j \in 0 .. n - 1
      BY <2>1
    <3>2. (0 * n + (a + j)) % n = a + j
      BY <3>1, ModUnique
    <3> QED
      BY <3>2
  <2>2. CASE ~(a + j < n)
    <3>1. a + j - n \in 0 .. n - 1
      BY <2>2
    <3>2. (1 * n + (a + j - n)) % n = a + j - n
      BY <3>1, ModUnique
    <3>3. 1 * n + (a + j - n) = a + j
      OBVIOUS
    <3> QED
      BY <3>2, <3>3
  <2> QED
    BY <2>1, <2>2
<1> QED
  BY <1>1, <1>2, <1>3

Selecting == At({"active", "dialActive", "scan", "dial"})

(* The loop looks at the server that RoundRobin's scan is at, and passes   *)
(* over the active one only when that scan is over.                        *)
LEMMA LoopScans ==
    ASSUME LInv, Selecting,
           call.at \in {"active", "dialActive"} => Strategy = "failover",
           call.at \in {"scan", "dial"} => call.step < Len(servers)
    PROVE  /\ Passed \in Nat /\ Passed <= Len(servers)
           /\ Passed < Len(servers) =>
                 /\ Passed \in ScanSteps
                 /\ Slot = ScanSlot(Passed) /\ Current = Scanned(Passed)
           /\ (/\ call.at \in {"scan", "dial"}
               /\ Strategy = "failover" /\ hasActive /\ Slot = activeIdx) <=> Passed = Len(servers)
<1> DEFINE n == Len(servers)
<1>1. /\ n \in Nat \ {0} /\ call \in Call /\ call # NoCall /\ call.step \in Nat
      /\ index \in Nat /\ activeIdx \in Nat /\ IndexSize \in Nat \ {0}
      /\ call.at \in {"active", "dialActive", "scan", "dial"}
      /\ call.at \in {"active", "dialActive"} => hasActive
      /\ hasActive => activeIdx \in 0 .. n - 1
      /\ servers # <<>> /\ ScanSteps = 0 .. n - 1
  BY ServersLength, PoolAssumption DEF Selecting, At, LInv, LocksTypeOK, TypeOK, Call, Ranged, ScanSteps
<1> HIDE DEF n
<1>2. CASE call.at \in {"active", "dialActive"}
  <2>1. Passed = 0 /\ Slot = activeIdx /\ Strategy = "failover" /\ hasActive
    BY <1>1, <1>2 DEF Passed, Slot, At
  <2>2. (activeIdx + 0) % n = activeIdx
    <3>1. activeIdx \in 0 .. n - 1 /\ activeIdx + 0 = activeIdx
      BY <1>1, <2>1
    <3>2. activeIdx % n = activeIdx
      BY <1>1, <3>1, ModRound
    <3> QED
      BY <3>1, <3>2
  <2>3. ScanSlot(0) = activeIdx
    BY <2>1, <2>2 DEF ScanSlot, n
  <2>4. 0 \in ScanSteps /\ 0 < n /\ 0 # n
    BY <1>1
  <2> QED
    BY <1>2, <2>1, <2>3, <2>4 DEF Current, Scanned, n
<1>3. CASE call.at \in {"scan", "dial"} /\ Strategy = "failover" /\ hasActive
  <2>1. Slot = (((activeIdx + 1) % n) + call.step) % n
    BY <1>1, <1>3 DEF Slot, At, LoopSlot, n
  <2>2. Slot = (activeIdx + (call.step + 1)) % n
    <3>1. (((activeIdx + 1) % n) + call.step) % n = ((activeIdx + 1) + call.step) % n
      <4>1. activeIdx + 1 \in Nat
        BY <1>1
      <4> QED
        BY <1>1, <4>1, ModPlus
    <3>2. (activeIdx + 1) + call.step = activeIdx + (call.step + 1)
      BY <1>1, <1>3
    <3> QED
      BY <2>1, <3>1, <3>2
  <2>3. Passed = call.step + 1 /\ call.step + 1 \in 1 .. n
    BY <1>1, <1>3 DEF Passed, n
  <2>4. ScanSlot(Passed) = Slot
    BY <1>3, <2>2, <2>3 DEF ScanSlot, n
  <2>5. CASE Passed = n
    <3>1. Slot = activeIdx
      <4>1. (activeIdx + n) % n = activeIdx
        BY <1>1, <1>3, ModRound
      <4> QED
        BY <2>2, <2>3, <2>5, <4>1
    <3> QED
      BY <1>1, <1>3, <2>5, <3>1 DEF n
  <2>6. CASE Passed # n
    <3>1. call.step + 1 \in 1 .. n - 1
      BY <1>1, <2>3, <2>6
    <3>2. Slot # activeIdx
      BY <1>1, <1>3, <2>2, <3>1, ModRound
    <3>3. Passed \in ScanSteps
      BY <1>1, <2>3, <3>1
    <3> QED
      BY <1>1, <1>3, <2>3, <2>4, <2>6, <3>2, <3>3 DEF Current, Scanned, n
  <2> QED
    BY <2>5, <2>6
<1>4. CASE call.at \in {"scan", "dial"} /\ ~(Strategy = "failover" /\ hasActive)
  <2>1. Passed = call.step /\ call.step \in 0 .. n - 1
    BY <1>1, <1>4 DEF Passed, n
  <2>2. Slot = ScanSlot(call.step)
    <3>1. CASE Strategy = "loadbalance"
      BY <1>1, <1>4, <3>1 DEF Slot, At, LoopSlot, ScanSlot
    <3>2. CASE Strategy # "loadbalance"
      <4>1. Slot = ((index % n) + call.step) % n
        BY <1>1, <1>4, <3>2, PoolAssumption DEF Slot, At, LoopSlot, n
      <4>2. ScanSlot(call.step) = (index + call.step) % n
        BY <1>4, <3>2, PoolAssumption DEF ScanSlot, n
      <4> QED
        BY <1>1, <4>1, <4>2, ModPlus
    <3> QED
      BY <3>1, <3>2
  <2> QED
    BY <1>1, <1>4, <2>1, <2>2 DEF Current, Scanned, n
<1> QED
  BY <1>1, <1>2, <1>3, <1>4

(* What a selection has looked at and passed, one server further.          *)
LEMMA ScanGrows ==
    ASSUME NEW t, NEW exclude, NEW k \in ScanSteps
    PROVE  /\ SeenAddrs(exclude, k)
                = (SeenAddrs(exclude, k - 1) \cup {AddrOf[Scanned(k)]}) \ exclude
           /\ Passes(t, exclude, k) /\ (Eligible(Scanned(k), t, exclude) => ~Connected(Scanned(k)))
                => Passes(t, exclude, k + 1)
<1>1. k \in Int /\ ScanSteps \subseteq Int
  BY DEF ScanSteps
<1>2. \A j \in ScanSteps : /\ j <= k <=> j <= k - 1 \/ j = k
                           /\ j < k + 1 <=> j < k \/ j = k
  BY <1>1
<1> QED
  BY <1>2 DEF SeenAddrs, Passes

LEMMA ScanEnds ==
    ASSUME TypeOK, NEW exclude
    PROVE  SeenAddrs(exclude, Len(servers)) = SeenAddrs(exclude, Len(servers) - 1)
<1>1. \A j \in ScanSteps : j <= Len(servers) /\ j <= Len(servers) - 1
  BY LenProperties DEF ScanSteps, TypeOK
<1> QED
  BY <1>1 DEF SeenAddrs

(* Nothing that happens during a selection changes what its scan meets.    *)
LEMMA ScanStays ==
    ASSUME TypeOK, UNCHANGED <<servers, index, hasActive, activeIdx, targetFailures>>,
           \A c \in Clients : Connected(c)' <=> Connected(c),
           NEW k, k = Passed', call'.t = call.t, call'.exclude = call.exclude
    PROVE  /\ Passes(call.t, call.exclude, k) => Passes(call.t, call.exclude, Passed)'
           /\ SeenAddrs(call.exclude, Passed)' = SeenAddrs(call.exclude, k)
           /\ SeenAddrs(call.exclude, Passed - 1)' = SeenAddrs(call.exclude, k - 1)
<1>1. /\ ScanSteps' = ScanSteps
      /\ \A j : Scanned(j)' = Scanned(j)
      /\ \A j \in ScanSteps : Scanned(j) \in Clients
  BY ScanSlotInRange DEF ScanSteps, ScanSlot, Scanned
<1>2. Passes(call.t, call.exclude, k) => Passes(call.t, call.exclude, Passed)'
  BY <1>1 DEF Passes, Eligible, IsTargetBlocked, Connected
<1>3. /\ SeenAddrs(call.exclude, Passed)' = SeenAddrs(call.exclude, k)
      /\ SeenAddrs(call.exclude, Passed - 1)' = SeenAddrs(call.exclude, k - 1)
  BY <1>1 DEF SeenAddrs
<1> QED
  BY <1>2, <1>3

(* A selection is not disturbed as long as the peers that die keep their   *)
(* connections.                                                            *)
LEMMA SelectionStays ==
    ASSUME LInv, Selecting, SelectionOK,
           UNCHANGED <<servers, index, hasActive, activeIdx, targetFailures, call, shown>>,
           \A c \in Clients : Connected(c)' <=> Connected(c)
    PROVE  SelectionOK'
<1>1. Passed' = Passed /\ Current' = Current
  BY DEF Passed, Current, Slot, LoopSlot, At
<1>2. TypeOK
  BY DEF LInv, LocksTypeOK
<1>3. /\ Passes(call.t, call.exclude, Passed) => Passes(call.t, call.exclude, Passed)'
      /\ SeenAddrs(call.exclude, Passed)' = SeenAddrs(call.exclude, Passed)
      /\ SeenAddrs(call.exclude, Passed - 1)' = SeenAddrs(call.exclude, Passed - 1)
  <2> DEFINE k == Passed
  <2>1. k = Passed'
    BY <1>1
  <2> QED
    BY <1>2, <2>1, ScanStays
<1>4. ASSUME call.at \in {"dialActive", "dial"}
      PROVE  Current \in Clients
  BY <1>4, CurrentInPool DEF Selecting, At, LInv, Ranged
<1> QED
  BY <1>1, <1>3, <1>4 DEF SelectionOK, Selecting, At, Eligible, IsTargetBlocked, Connected

-----------------------------------------------------------------------------
(* The invariant: entering a call and being outside of one *)

LEMMA InitRInv == LocksInit => RInv
<1> SUFFICES ASSUME LocksInit PROVE RInv
  OBVIOUS
<1>1. LInv /\ NoneTwice /\ HealthyIffConnected
  BY InitLInv, InitIInv DEF LocksInit, IInv
<1>2. Phased /\ Settled /\ SelectionOK /\ HealthOK /\ CloseOK
  BY DEF LocksInit, Phased, Settled, SelectionOK, HealthOK, CloseOK, At, Procs
<1> QED
  BY <1>1, <1>2 DEF RInv

LEMMA PoolKept ==
    ASSUME NoneTwice, HealthyIffConnected, UNCHANGED <<servers, conn, healthy>>
    PROVE  NoneTwice' /\ HealthyIffConnected'
BY DEF NoneTwice, HealthyIffConnected, Connected

(* What a step keeps that leaves the call and what it sees alone.          *)
LEMMA CallKept ==
    ASSUME RInv, UNCHANGED <<servers, index, hasActive, activeIdx, conn, targetFailures, call, shown>>
    PROVE  Settled' /\ SelectionOK' /\ HealthOK' /\ CloseOK'
<1>1. Current' = Current /\ Judged' = Judged
  BY DEF Current, Slot, LoopSlot, At, Judged
<1>2. SelectionOK'
  <2>1. CASE Selecting
    BY <2>1, SelectionStays DEF RInv, Connected
  <2>2. CASE ~Selecting
    BY <2>2 DEF SelectionOK, Selecting, At
  <2> QED
    BY <2>1, <2>2
<1>3. HealthOK'
  BY <1>1 DEF RInv, HealthOK, At, Connected
<1>4. Settled' /\ CloseOK'
  BY DEF RInv, Settled, CloseOK, At
<1> QED
  BY <1>2, <1>3, <1>4

LEMMA EntersRInv ==
    ASSUME RInv, NEW p \in Procs, Want(p) \/ Enters(p)
    PROVE  RInv'
<1>1. LInv' /\ LInv
  BY EntersLInv DEF RInv
<1>2. UNCHANGED <<poolVars, shown>>
  BY DEF Want, Enters, EnterEmpty, EnterGet, EnterHealth, EnterClose, Enter
<1>3. NoneTwice' /\ HealthyIffConnected'
  BY <1>2, PoolKept DEF RInv, poolVars
<1>4. Phased'
  <2>1. PICK to : /\ pc[p] \in {"idle", "lock"} /\ pc' = [pc EXCEPT ![p] = to]
                  /\ pc[p] = "idle" => phase # "startup" /\ (p = "shutdown" => phase = "running")
    BY DEF Want, Enters, EnterEmpty, EnterGet, EnterHealth, EnterClose, Enter, Goto
  <2>2. pc \in [Procs -> {"idle", "lock", "call", "client"}]
    BY DEF RInv, LInv, LocksTypeOK
  <2>3. phase # "startup"
    BY <2>1 DEF RInv, Phased
  <2> QED
    BY <1>2, <2>1, <2>2, <2>3 DEF RInv, Phased, poolVars
<1>5. CASE call' = call
  BY <1>1, <1>2, <1>3, <1>4, <1>5, CallKept DEF RInv, poolVars
<1>6. ASSUME NEW at \in {"active", "scan", "probe", "close"},
             NEW t \in Targets \cup {NoTarget}, NEW exclude \in SUBSET Addrs,
             at = "active" => Strategy = "failover" /\ hasActive,
             at = "scan" => ~(Strategy = "failover" /\ hasActive),
             Enter(p, at, t, exclude)
      PROVE  RInv'
  <2>1. call' = [by |-> p, at |-> at, step |-> 0, t |-> t, exclude |-> exclude,
                 seen |-> {}, ok |-> {}]
    BY <1>6 DEF Enter
  <2>2. call' \in Call /\ call' # NoCall
    BY <1>6, <2>1, LocksAssumption DEF Call
  <2>3. /\ call'.at = at /\ call'.step = 0 /\ call'.t = t /\ call'.exclude = exclude
        /\ call'.seen = {} /\ call'.ok = {}
    BY <2>1
  <2>4. \A c \in Clients : shown[c] = "same" /\ shown'[c] = "same"
    BY <1>2, <1>6 DEF Enter
  <2>5. Settled'
    BY <2>2 DEF Settled
  <2>6. SelectionOK'
    <3>1. CASE at \in {"active", "scan"}
      <4>1. Passed' = 0
        BY <1>2, <1>6, <2>3, <3>1 DEF Passed, poolVars
      <4>2. Passes(call.t, call.exclude, Passed)'
        <5>1. \A j \in ScanSteps' : ~(j < 0)
          BY DEF ScanSteps
        <5> QED
          BY <4>1, <5>1 DEF Passes
      <4>3. SeenAddrs(call.exclude, Passed - 1)' = {}
        <5>1. \A j \in ScanSteps' : ~(j <= 0 - 1)
          BY DEF ScanSteps
        <5> QED
          BY <4>1, <5>1 DEF SeenAddrs
      <4> QED
        BY <1>6, <2>3, <2>4, <3>1, <4>2, <4>3 DEF SelectionOK
    <3>2. CASE at \notin {"active", "scan"}
      BY <1>6, <2>3, <3>2 DEF SelectionOK, At
    <3> QED
      BY <3>1, <3>2
  <2>7. HealthOK'
    <3>1. CASE at = "probe"
      <4>1. Judged' = {}
        BY <2>3, <3>1 DEF Judged
      <4> QED
        BY <2>3, <2>4, <3>1, <4>1 DEF HealthOK
    <3>2. CASE at # "probe"
      BY <1>6, <2>3, <3>2 DEF HealthOK, At
    <3> QED
      BY <3>1, <3>2
  <2>8. CloseOK'
    <3>1. \A i \in 0 .. call'.step - 1 : FALSE
      BY <2>3
    <3> QED
      BY <2>3, <2>4, <3>1 DEF CloseOK
  <2> QED
    BY <1>1, <1>3, <1>4, <2>5, <2>6, <2>7, <2>8 DEF RInv
<1>7. CASE Want(p) \/ EnterEmpty(p)
  BY <1>5, <1>7 DEF Want, EnterEmpty
<1>8. ASSUME NEW t \in Targets \cup {NoTarget}, NEW exclude \in SUBSET Addrs,
             EnterGet(p, t, exclude)
      PROVE  RInv'
  BY <1>6, <1>8 DEF EnterGet
<1>9. CASE EnterHealth /\ p = "health"
  BY <1>6, <1>9 DEF EnterHealth
<1>10. CASE EnterClose /\ p = "shutdown"
  BY <1>6, <1>10 DEF EnterClose
<1> QED
  BY <1>7, <1>8, <1>9, <1>10 DEF Enters

LEMMA ReadClientRInv ==
    ASSUME RInv, NEW p \in Requesters, ReadClient(p)
    PROVE  RInv'
<1>1. LInv' /\ UNCHANGED <<poolVars, call, shown>>
  BY ReadersLInv DEF RInv, ReadClient
<1>2. NoneTwice' /\ HealthyIffConnected' /\ Settled' /\ SelectionOK' /\ HealthOK' /\ CloseOK'
  BY <1>1, PoolKept, CallKept DEF RInv, poolVars
<1>3. Phased'
  <2>1. pc \in [Procs -> {"idle", "lock", "call", "client"}] /\ p \in Procs
    BY DEF RInv, LInv, LocksTypeOK, Procs
  <2>2. pc[p] = "client" /\ pc' = [pc EXCEPT ![p] = "idle"]
    BY DEF ReadClient, Goto
  <2> QED
    BY <1>1, <2>1, <2>2 DEF RInv, Phased, poolVars
<1> QED
  BY <1>1, <1>2, <1>3 DEF RInv

LEMMA SettleRInv ==
    ASSUME RInv, NEW c \in Clients, Settle(c)
    PROVE  RInv'
<1>1. LInv' /\ UNCHANGED <<poolVars, pc, call>> /\ call = NoCall
      /\ shown' = [shown EXCEPT ![c] = "same"]
      /\ shown \in [Clients -> {"same", "alive", "dead"}]
  BY ReadersLInv DEF RInv, Settle, LInv, LocksTypeOK
<1>2. NoneTwice' /\ HealthyIffConnected'
  BY <1>1, PoolKept DEF RInv, poolVars
<1>3. SelectionOK' /\ HealthOK' /\ CloseOK'
  BY <1>1 DEF SelectionOK, HealthOK, CloseOK, At
<1>4. Settled' /\ Phased'
  BY <1>1 DEF RInv, Settled, Phased, poolVars
<1> QED
  BY <1>1, <1>2, <1>3, <1>4 DEF RInv

(* A client is built once, and healthy only if it is connected.            *)
LEMMA ConnectServerKeeps ==
    ASSUME TypeOK, NoneTwice, HealthyIffConnected, NEW c \in Clients,
           NEW outcome \in {"connected", "failed", "lazy"}, ConnectServer(c, outcome)
    PROVE  NoneTwice' /\ HealthyIffConnected'
<1>1. /\ DOMAIN servers = 1 .. Len(servers) /\ Len(servers) \in Nat
      /\ DOMAIN servers' = 1 .. Len(servers) + 1
      /\ \A i \in 1 .. Len(servers) : servers'[i] = servers[i]
      /\ servers'[Len(servers) + 1] = c
  BY AppendProperties, LenProperties DEF ConnectServer, TypeOK
<1>2. \A i \in DOMAIN servers : servers[i] # c /\ servers[i] \in Clients
  BY <1>1, ElementOfSeq DEF ConnectServer, NoneTwice, TypeOK
<1>3. /\ conn'[c] # "absent"
      /\ Connected(c)' <=> outcome = "connected"
      /\ healthy'[c] <=> outcome = "connected"
      /\ \A d \in Clients \ {c} : conn'[d] = conn[d] /\ healthy'[d] = healthy[d]
  BY DEF ConnectServer, TypeOK, Connected
<1>4. NoneTwice'
  BY <1>1, <1>2, <1>3 DEF NoneTwice
<1>5. HealthyIffConnected'
  BY <1>3 DEF HealthyIffConnected, Connected
<1> QED
  BY <1>4, <1>5

LEMMA BriefRInv == RInv /\ Brief => RInv'
<1> SUFFICES ASSUME RInv, Brief PROVE RInv'
  OBVIOUS
<1>1. /\ LInv' /\ TypeOK /\ call = NoCall /\ UNCHANGED <<pc, call, shown>>
  BY BriefLInv DEF RInv, Brief, LInv, LocksTypeOK
<1>2. SelectionOK' /\ HealthOK' /\ CloseOK'
  BY <1>1 DEF SelectionOK, HealthOK, CloseOK, At
<1>3. NoneTwice' /\ HealthyIffConnected' /\ Settled' /\ Phased'
  <2>1. CASE \E c \in Clients, outcome \in {"connected", "failed", "lazy"} : ConnectServer(c, outcome)
    <3>1. NoneTwice' /\ HealthyIffConnected'
      BY <1>1, <2>1, ConnectServerKeeps DEF RInv
    <3>2. phase = "startup" /\ phase' = phase
      BY <2>1 DEF ConnectServer
    <3>3. \A c \in Clients : shown[c] = "same"
      BY <3>2 DEF RInv, Phased
    <3> QED
      BY <1>1, <3>1, <3>2, <3>3 DEF RInv, Settled, Phased
  <2>2. CASE Start
    BY <1>1, <2>2, PoolKept DEF RInv, Start, Settled, Phased
  <2>3. CASE Report \/ Cleanup
    <3>1. UNCHANGED <<phase, servers, conn, healthy>>
      BY <1>1, <2>3 DEF Report, Cleanup, ReportTargetFailure, ReportTargetSuccess, CleanupExpiredTargets
    <3> QED
      BY <1>1, <3>1, PoolKept DEF RInv, Settled, Phased
  <2> QED
    BY <2>1, <2>2, <2>3 DEF Brief, Startup
<1> QED
  BY <1>1, <1>2, <1>3 DEF RInv

(* A peer that dies keeps its connection, and what a call has seen of it   *)
(* is shown until the call ends.                                           *)
LEMMA PeerDiesRInv ==
    ASSUME RInv, LInv', NEW c \in Clients, PeerDies(c), UNCHANGED <<pc, call>>,
           shown' = IF call # NoCall /\ \E i \in call.ok : servers[i + 1] = c
                    THEN [shown EXCEPT ![c] = "alive"] ELSE shown
    PROVE  RInv'
<1>1. /\ UNCHANGED <<phase, servers, index, hasActive, activeIdx, healthy, targetFailures>>
      /\ conn[c] = "alive" /\ conn' = [conn EXCEPT ![c] = "dead"]
      /\ conn \in [Clients -> {"absent", "none", "alive", "dead"}]
      /\ shown \in [Clients -> {"same", "alive", "dead"}]
      /\ call # NoCall => call \in Call /\ call.step \in Nat
  BY DEF PeerDies, RInv, LInv, LocksTypeOK, TypeOK, Call
<1>2. /\ \A d \in Clients : Connected(d)' <=> Connected(d)
      /\ \A d \in Clients \ {c} : conn'[d] = conn[d] /\ shown'[d] = shown[d]
      /\ conn'[c] = "dead"
      /\ \A d \in Clients : conn[d] \in {"absent", "none"} => conn'[d] = conn[d]
      /\ \A d \in Clients : conn'[d] \in {"absent", "none"} => conn'[d] = conn[d]
  BY <1>1 DEF Connected
<1>3. \A i \in 0 .. Len(servers) - 1 : servers[i + 1] \in Clients
  BY ServersLength DEF RInv, LInv, LocksTypeOK
<1>4. NoneTwice' /\ HealthyIffConnected'
  <2>1. \A i \in DOMAIN servers : servers[i] \in Clients
    BY ElementOfSeq, LenProperties DEF RInv, LInv, LocksTypeOK, TypeOK
  <2> QED
    BY <1>1, <1>2, <2>1 DEF RInv, NoneTwice, HealthyIffConnected
<1>5. CASE call = NoCall
  <2>1. shown' = shown
    BY <1>5
  <2>2. SelectionOK' /\ HealthOK' /\ CloseOK'
    BY <1>5 DEF SelectionOK, HealthOK, CloseOK, At
  <2>3. Settled' /\ Phased'
    BY <1>1, <1>2, <1>5, <2>1 DEF RInv, Settled, Phased
  <2> QED
    BY <1>4, <2>2, <2>3 DEF RInv
<1>6. CASE call # NoCall
  <2>1. Settled' /\ Phased'
    BY <1>1, <1>6 DEF RInv, Settled, Phased
  <2>2. SelectionOK'
    <3>1. CASE Selecting
      <4>1. shown' = shown
        BY <3>1 DEF Selecting, RInv, SelectionOK
      <4> QED
        BY <1>1, <1>2, <3>1, <4>1, SelectionStays DEF RInv
    <3>2. CASE ~Selecting
      BY <3>2 DEF Selecting, SelectionOK, At
    <3> QED
      BY <3>1, <3>2
  <2>3. HealthOK'
    <3> SUFFICES ASSUME At({"probe", "keepalive", "redial"})
                 PROVE  HealthOK'
      BY DEF HealthOK, At
    <3>1. Judged' = Judged /\ Current' = Current /\ call.ok \subseteq Judged
      BY <1>1 DEF Judged, Current, Slot, LoopSlot, At, RInv, HealthOK
    <3>2. Judged \subseteq 0 .. Len(servers) - 1
      BY <1>1, <1>6, ServersLength DEF Judged, RInv, LInv, LocksTypeOK, Ranged
    <3>3. \A i \in Judged : IF i \in call.ok THEN Connected(servers[i + 1])
                                             ELSE conn[servers[i + 1]] = "none"
      BY DEF RInv, HealthOK
    <3>4. \A i \in Judged : servers[i + 1] \in Clients
      BY <1>3, <3>2
    <3>5. \A i \in Judged : IF i \in call.ok THEN conn'[servers[i + 1]] \in {"alive", "dead"}
                                             ELSE conn'[servers[i + 1]] = "none"
      BY <1>2, <3>3, <3>4 DEF Connected
    <3>6. call.at = "keepalive" => Current \in Clients /\ Connected(Current)
      BY <1>6, CurrentInPool DEF RInv, HealthOK, LInv, Ranged
    <3>7. ASSUME NEW d \in Clients
          PROVE  /\ shown'[d] = "alive" <=> conn'[d] = "dead" /\ \E i \in call.ok : servers[i + 1] = d
                 /\ shown'[d] = "dead" => \E i \in Judged \ call.ok : servers[i + 1] = d
      <4>1. /\ shown[d] = "alive" <=> conn[d] = "dead" /\ \E i \in call.ok : servers[i + 1] = d
            /\ shown[d] = "dead" => \E i \in Judged \ call.ok : servers[i + 1] = d
        BY DEF RInv, HealthOK
      <4>2. CASE d # c
        BY <1>2, <4>1, <4>2
      <4>3. CASE d = c
        <5>1. shown[c] # "alive" /\ shown[c] # "dead"
          BY <1>1, <3>3, <4>1, <4>3
        <5> QED
          BY <1>1, <1>2, <1>6, <4>3, <5>1
      <4> QED
        BY <4>2, <4>3
    <3>8. call.at = "redial" => call.ok = {}
      BY DEF RInv, HealthOK
    <3>9. call.at = "keepalive" => conn'[Current] \in {"alive", "dead"}
      BY <1>2, <3>6 DEF Connected
    <3> QED
      BY <1>1, <3>1, <3>5, <3>7, <3>8, <3>9 DEF HealthOK, Connected
  <2>4. CloseOK'
    <3> SUFFICES ASSUME At({"close"}) PROVE CloseOK'
      BY DEF CloseOK, At
    <3>1. /\ call.ok = {} /\ shown' = shown
          /\ \A i \in 0 .. call.step - 1 : conn[servers[i + 1]] = "none"
      BY DEF RInv, CloseOK
    <3>2. \A i \in 0 .. call.step - 1 : servers[i + 1] \in Clients
      BY <1>1, <1>3, <1>6, ServersLength DEF RInv, LInv, LocksTypeOK, Ranged
    <3>3. \A i \in 0 .. call.step - 1 : conn'[servers[i + 1]] = "none"
      BY <1>2, <3>1, <3>2
    <3> QED
      BY <1>1, <3>1, <3>3 DEF RInv, CloseOK, At
  <2> QED
    BY <1>4, <2>1, <2>2, <2>3, <2>4 DEF RInv
<1> QED
  BY <1>5, <1>6

LEMMA EnvironsRInv == RInv /\ Environs => RInv'
<1> SUFFICES ASSUME RInv, Environs PROVE RInv'
  OBVIOUS
<1>1. LInv' /\ UNCHANGED <<pc, call>>
  BY EnvironsLInv DEF RInv, Environs
<1>2. ASSUME NEW p \in Addrs \X Targets,
             At({"probe", "keepalive", "redial", "close"}) \/ call = NoCall,
             Expire(p[1], p[2]), UNCHANGED shown
      PROVE  RInv'
  <2>1. UNCHANGED <<phase, servers, index, hasActive, activeIdx, conn, healthy>>
    BY <1>2 DEF Expire
  <2>2. NoneTwice' /\ HealthyIffConnected' /\ Settled' /\ Phased' /\ CloseOK'
    BY <1>1, <1>2, <2>1, PoolKept DEF RInv, Settled, Phased, CloseOK, At
  <2>3. SelectionOK'
    BY <1>1, <1>2 DEF SelectionOK, At
  <2>4. Judged' = Judged /\ Current' = Current
    BY <1>1, <2>1 DEF Judged, Current, Slot, LoopSlot, At
  <2>5. HealthOK'
    BY <1>1, <1>2, <2>1, <2>4 DEF RInv, HealthOK, At, Connected
  <2> QED
    BY <1>1, <2>2, <2>3, <2>5 DEF RInv
<1> QED
  BY <1>1, <1>2, PeerDiesRInv DEF Environs

(* What the loop of a selection knows of the server it is at.              *)
LEMMA LoopAt ==
    ASSUME RInv, Selecting, call.at \in {"scan", "dial"} => call.step < Len(servers)
    PROVE  /\ TypeOK /\ call # NoCall /\ call \in Call /\ servers # <<>>
           /\ call.at \in {"active", "dialActive"} => Strategy = "failover" /\ hasActive
           /\ Passed \in Nat /\ Passed <= Len(servers)
           /\ Passed < Len(servers) =>
                 /\ Passed \in ScanSteps
                 /\ Slot = ScanSlot(Passed) /\ Current = Scanned(Passed)
           /\ (/\ call.at \in {"scan", "dial"}
               /\ Strategy = "failover" /\ hasActive /\ Slot = activeIdx) <=> Passed = Len(servers)
           /\ Passes(call.t, call.exclude, Passed)
           /\ call.at \in {"active", "scan"} => call.seen = SeenAddrs(call.exclude, Passed - 1)
<1>1. LInv /\ SelectionOK
  BY DEF RInv
<1>2. /\ call.at \in {"active", "dialActive"} => Strategy = "failover"
      /\ Passes(call.t, call.exclude, Passed)
      /\ call.at \in {"active", "scan"} => call.seen = SeenAddrs(call.exclude, Passed - 1)
  BY <1>1 DEF SelectionOK, Selecting
<1>3. /\ TypeOK /\ call # NoCall /\ call \in Call /\ servers # <<>>
      /\ call.at \in {"active", "dialActive"} => hasActive
  BY <1>1 DEF LInv, LocksTypeOK, Ranged, Selecting, At
<1> QED
  BY <1>1, <1>2, <1>3, LoopScans

(* A server that is not passed over is the next of RoundRobin's scan.      *)
LEMMA LookedAt ==
    ASSUME RInv, InLoop, ~PassedOver
    PROVE  /\ Selecting /\ call # NoCall /\ call \in Call /\ servers # <<>> /\ TypeOK
           /\ Passed \in ScanSteps /\ Passed \in Nat /\ Passed < Len(servers)
           /\ Slot = ScanSlot(Passed) /\ Current = Scanned(Passed)
           /\ Passes(call.t, call.exclude, Passed)
           /\ Looked = SeenAddrs(call.exclude, Passed)
           /\ AddrOf[Current] \notin call.exclude
<1>1. Selecting /\ (call.at \in {"scan", "dial"} => call.step < Len(servers))
      /\ call.at \in {"active", "scan"}
  BY DEF InLoop, Selecting, At
<1>2. /\ TypeOK /\ call # NoCall /\ call \in Call /\ servers # <<>>
      /\ Passed \in Nat /\ Passed <= Len(servers) /\ Len(servers) \in Nat
      /\ Passes(call.t, call.exclude, Passed)
      /\ call.seen = SeenAddrs(call.exclude, Passed - 1)
  BY <1>1, LoopAt, ServersLength
<1>3. Passed # Len(servers)
  <2>1. CASE call.at = "scan"
    BY <1>1, <2>1, LoopAt DEF PassedOver
  <2>2. CASE call.at = "active"
    BY <1>1, <2>2, LoopAt
  <2> QED
    BY <1>1, <2>1, <2>2
<1>4. Passed \in ScanSteps /\ Slot = ScanSlot(Passed) /\ Current = Scanned(Passed) /\ Passed < Len(servers)
  BY <1>1, <1>2, <1>3, LoopAt
<1>5. AddrOf[Current] \notin call.exclude
  BY DEF PassedOver
<1>6. SeenAddrs(call.exclude, Passed)
        = (SeenAddrs(call.exclude, Passed - 1) \cup {AddrOf[Scanned(Passed)]}) \ call.exclude
  <2> DEFINE k == Passed
  <2>1. k \in ScanSteps
    BY <1>4
  <2> HIDE DEF k
  <2>2. SeenAddrs(call.exclude, k)
          = (SeenAddrs(call.exclude, k - 1) \cup {AddrOf[Scanned(k)]}) \ call.exclude
    BY <2>1, ScanGrows
  <2> QED
    BY <2>2 DEF k
<1>7. SeenAddrs(call.exclude, Passed - 1) \cap call.exclude = {}
  BY DEF SeenAddrs
<1>8. Looked = SeenAddrs(call.exclude, Passed)
  BY <1>2, <1>4, <1>5, <1>6, <1>7 DEF Looked
<1> QED
  BY <1>1, <1>2, <1>4, <1>5, <1>8

(* A step that moves the selection and nothing else.                       *)
LEMMA SelectionMoves ==
    ASSUME RInv, LInv', UNCHANGED <<poolVars, pc, got, shown>>, call # NoCall, call' # NoCall,
           call'.at \in {"scan", "dialActive", "dial"}, SelectionOK'
    PROVE  RInv'
<1>1. NoneTwice' /\ HealthyIffConnected'
  BY PoolKept DEF RInv, poolVars
<1>2. Settled' /\ HealthOK' /\ CloseOK'
  BY DEF Settled, HealthOK, CloseOK, At
<1>3. Phased'
  BY DEF RInv, Phased, poolVars
<1> QED
  BY <1>1, <1>2, <1>3 DEF RInv

(* The loop passes on to the next server.                                  *)
LEMMA ContinuesRInv ==
    ASSUME RInv, LInv', Selecting, UNCHANGED <<poolVars, pc, got, shown>>,
           call.at \in {"scan", "dial"} => call.step < Len(servers),
           Passed < Len(servers) /\ Eligible(Current, call.t, call.exclude) => ~Connected(Current),
           NEW seen \in SUBSET Addrs, call' = Continue(seen),
           seen = SeenAddrs(call.exclude, IF Passed < Len(servers) THEN Passed ELSE Passed - 1)
    PROVE  RInv'
<1> DEFINE k == Passed
           next == IF k < Len(servers) THEN k + 1 ELSE k
           at == IF At({"active", "dialActive"}) THEN 0 ELSE call.step + 1
<1>1. /\ TypeOK /\ LInv /\ call # NoCall /\ call \in Call /\ call.step \in Nat
      /\ Len(servers) \in Nat /\ Len(servers) > 0
      /\ call.at \in {"active", "dialActive"} => Strategy = "failover" /\ hasActive
      /\ k \in Nat /\ k <= Len(servers)
      /\ k < Len(servers) => k \in ScanSteps /\ Current = Scanned(k)
      /\ Passes(call.t, call.exclude, k)
  BY LoopAt, ServersLength DEF RInv, Call
<1>2. /\ call' \in Call /\ call'.at = "scan" /\ call'.ok = call.ok /\ call'.step = at
      /\ call'.t = call.t /\ call'.exclude = call.exclude /\ call'.seen = seen
  <2>1. /\ call' \in Call /\ call'.at = "scan" /\ call'.ok = call.ok /\ call'.step = at
    BY <1>1, ContinueType
  <2>2. call'.t = call.t /\ call'.exclude = call.exclude /\ call'.seen = seen
    BY <1>1 DEF Continue, Move, Call
  <2> QED
    BY <2>1, <2>2
<1>3. Passed' = next
  <2>1. Passed' = IF ~(Strategy = "failover" /\ hasActive) THEN at
                  ELSE IF at < Len(servers) THEN at + 1 ELSE Len(servers)
    BY <1>2 DEF Passed, poolVars
  <2>2. CASE call.at \in {"active", "dialActive"}
    <3>1. at = 0 /\ k = 0
      BY <1>1, <2>2 DEF At, Passed
    <3> QED
      BY <1>1, <2>1, <2>2, <3>1
  <2>3. CASE call.at \in {"scan", "dial"}
    <3>1. at = call.step + 1 /\ call.step < Len(servers)
          /\ k = IF ~(Strategy = "failover" /\ hasActive) THEN call.step ELSE call.step + 1
      BY <1>1, <2>3 DEF At, Passed
    <3>2. next = IF k < Len(servers) THEN k + 1 ELSE k
      OBVIOUS
    <3> HIDE DEF next, at, k
    <3> QED
      BY <1>1, <2>1, <3>1, <3>2
  <2> QED
    BY <2>2, <2>3 DEF Selecting, At
<1> HIDE DEF at
<1>4. /\ Passes(call.t, call.exclude, next)
      /\ seen = SeenAddrs(call.exclude, next - 1)
  <2>1. CASE k < Len(servers)
    <3>1. next = k + 1 /\ next - 1 = k
      BY <1>1, <2>1
    <3>2. Passes(call.t, call.exclude, k + 1)
      <4>1. k \in ScanSteps /\ (Eligible(Scanned(k), call.t, call.exclude) => ~Connected(Scanned(k)))
        BY <1>1, <2>1
      <4> HIDE DEF k
      <4> QED
        BY <1>1, <4>1, ScanGrows
    <3>3. seen = SeenAddrs(call.exclude, k)
      BY <2>1
    <3> QED
      BY <3>1, <3>2, <3>3
  <2>2. CASE ~(k < Len(servers))
    BY <1>1, <2>2
  <2> QED
    BY <2>1, <2>2
<1>5. /\ Passes(call.t, call.exclude, Passed)'
      /\ seen = SeenAddrs(call.exclude, Passed - 1)'
  <2> HIDE DEF next
  <2>1. \A c \in Clients : Connected(c)' <=> Connected(c)
    BY DEF poolVars, Connected
  <2>2. next = Passed'
    BY <1>3
  <2> QED
    BY <1>1, <1>2, <1>4, <2>1, <2>2, ScanStays DEF poolVars
<1>6. call'# NoCall
  BY <1>2, LocksAssumption
<1>7. SelectionOK'
  BY <1>2, <1>5 DEF RInv, SelectionOK, Selecting, poolVars
<1> QED
  BY <1>1, <1>2, <1>6, <1>7, SelectionMoves

LEMMA SkipRInv == RInv /\ Skip => RInv'
<1> SUFFICES ASSUME RInv, Skip PROVE RInv'
  OBVIOUS
<1>1. /\ LInv' /\ Selecting /\ InLoop /\ call.at \in {"active", "scan"}
      /\ call.at \in {"scan", "dial"} => call.step < Len(servers)
      /\ UNCHANGED <<poolVars, pc, got, shown>>
  BY SkipLInv DEF RInv, Skip, InLoop, Selecting, At
<1>2. /\ call # NoCall /\ call \in Call /\ call.seen \in SUBSET Addrs
      /\ call.seen = SeenAddrs(call.exclude, Passed - 1)
      /\ Passed \in Nat /\ Passed <= Len(servers) /\ Len(servers) \in Nat
  BY <1>1, LoopAt, ServersLength DEF Call
<1>3. CASE PassedOver
  <2>1. call' = Continue(call.seen)
    BY <1>3 DEF Skip
  <2>2. CASE Passed = Len(servers)
    BY <1>1, <1>2, <2>1, <2>2, ContinuesRInv
  <2>3. CASE Passed < Len(servers)
    <3>1. Passed \in ScanSteps /\ Current = Scanned(Passed)
      BY <1>1, <2>3, LoopAt
    <3>2. AddrOf[Current] \in call.exclude
      BY <1>1, <1>2, <1>3, <2>3, LoopAt DEF PassedOver
    <3>3. SeenAddrs(call.exclude, Passed)
            = (SeenAddrs(call.exclude, Passed - 1) \cup {AddrOf[Scanned(Passed)]}) \ call.exclude
      <4> DEFINE k == Passed
      <4>1. k \in ScanSteps
        BY <3>1
      <4> HIDE DEF k
      <4>2. SeenAddrs(call.exclude, k)
              = (SeenAddrs(call.exclude, k - 1) \cup {AddrOf[Scanned(k)]}) \ call.exclude
        BY <4>1, ScanGrows
      <4> QED
        BY <4>2 DEF k
    <3>4. SeenAddrs(call.exclude, Passed - 1) \cap call.exclude = {}
      BY DEF SeenAddrs
    <3>5. call.seen = SeenAddrs(call.exclude, Passed)
      BY <1>2, <3>1, <3>2, <3>3, <3>4
    <3>6. ~Eligible(Current, call.t, call.exclude)
      BY <3>2 DEF Eligible
    <3> QED
      BY <1>1, <1>2, <2>1, <2>3, <3>5, <3>6, ContinuesRInv
  <2> QED
    BY <1>2, <2>2, <2>3
<1>4. CASE ~PassedOver
  <2>1. /\ call' = Continue(Looked)
        /\ IsTargetBlocked(Current, call.t) \/ ~Connected(Current)
    BY <1>4 DEF Skip
  <2>2. /\ Passed < Len(servers) /\ Looked = SeenAddrs(call.exclude, Passed)
        /\ servers # <<>>
    BY <1>1, <1>4, LookedAt
  <2>3. Looked \in SUBSET Addrs
    BY <1>1, <1>2, <2>2, CurrentInPool DEF Looked, RInv, InLoop, At
  <2>4. Eligible(Current, call.t, call.exclude) => ~Connected(Current)
    BY <2>1 DEF Eligible
  <2> QED
    BY <1>1, <2>1, <2>2, <2>3, <2>4, ContinuesRInv
<1> QED
  BY <1>3, <1>4

LEMMA DialFailsRInv == RInv /\ DialFails => RInv'
<1> SUFFICES ASSUME RInv, DialFails PROVE RInv'
  OBVIOUS
<1>1. /\ LInv' /\ Selecting /\ call.at \in {"dialActive", "dial"}
      /\ call.at \in {"scan", "dial"} => call.step < Len(servers)
      /\ UNCHANGED <<poolVars, pc, got, shown>>
      /\ call' = Continue(call.seen) /\ call.seen \in SUBSET Addrs
  BY DialFailsLInv DEF RInv, DialFails, Selecting, At, LInv, LocksTypeOK, Ranged, Call
<1>2. /\ Passed < Len(servers) /\ call.seen = SeenAddrs(call.exclude, Passed)
      /\ ~Connected(Current)
  BY <1>1 DEF RInv, SelectionOK, Selecting
<1> QED
  BY <1>1, <1>2, ContinuesRInv

LEMMA StartDialRInv == RInv /\ StartDial => RInv'
<1> SUFFICES ASSUME RInv, StartDial PROVE RInv'
  OBVIOUS
<1> DEFINE at == IF call.at = "active" THEN "dialActive" ELSE "dial"
<1>1. /\ LInv' /\ InLoop /\ ~PassedOver /\ ~IsTargetBlocked(Current, call.t)
      /\ ~Connected(Current) /\ call.at \in {"active", "scan"}
      /\ UNCHANGED <<poolVars, pc, got, shown>>
  BY StartDialLInv DEF RInv, StartDial, Suitable, InLoop, At
<1>2. /\ Selecting /\ call # NoCall /\ call \in Call /\ servers # <<>> /\ TypeOK
      /\ Passed < Len(servers)
      /\ Passes(call.t, call.exclude, Passed)
      /\ Looked = SeenAddrs(call.exclude, Passed)
      /\ AddrOf[Current] \notin call.exclude
  BY <1>1, LookedAt
<1>3. /\ call'.at = at /\ call'.step = call.step /\ call'.ok = call.ok
      /\ call'.t = call.t /\ call'.exclude = call.exclude /\ call'.seen = Looked
  BY <1>2 DEF StartDial, Move, Call
<1>4. at \in {"dialActive", "dial"} /\ (at = "dialActive" <=> call.at = "active")
  OBVIOUS
<1> HIDE DEF at
<1>5. call' # NoCall
  <2>1. Looked \in SUBSET Addrs
    BY <1>1, <1>2, CurrentInPool DEF Looked, RInv, InLoop, At, Call
  <2>2. Move(at, call.step) \in Call
    BY <1>2, <1>4, MoveType DEF Places, Call
  <2>3. call' = [Move(at, call.step) EXCEPT !.seen = Looked]
    BY DEF StartDial, at
  <2>4. call' \in Call
    BY <2>1, <2>2, <2>3 DEF Call
  <2> QED
    BY <2>4, LocksAssumption
<1>6. Passed' = Passed
  BY <1>1, <1>3, <1>4 DEF Passed, poolVars
<1>7. Current' = Current
  <2>1. Slot' = Slot
    <3>1. LoopSlot' = LoopSlot
      BY <1>1, <1>3 DEF LoopSlot, poolVars
    <3>2. At({"active", "dialActive"})' <=> At({"active", "dialActive"})
      BY <1>1, <1>2, <1>3, <1>4, <1>5 DEF At
    <3>3. At({"scan", "dial"})' <=> At({"scan", "dial"})
      BY <1>1, <1>2, <1>3, <1>4, <1>5 DEF At
    <3> QED
      BY <1>1, <1>3, <3>1, <3>2, <3>3 DEF Slot, poolVars
  <2> QED
    BY <1>1, <2>1 DEF Current, poolVars
<1>8. /\ Passes(call.t, call.exclude, Passed)'
      /\ SeenAddrs(call.exclude, Passed)' = SeenAddrs(call.exclude, Passed)
  <2> DEFINE k == Passed
  <2>1. k = Passed' /\ Passes(call.t, call.exclude, k)
    BY <1>2, <1>6
  <2>2. \A c \in Clients : Connected(c)' <=> Connected(c)
    BY <1>1 DEF poolVars, Connected
  <2> QED
    BY <1>1, <1>2, <1>3, <2>1, <2>2, ScanStays DEF poolVars
<1>9. Eligible(Current, call.t, call.exclude)' /\ ~Connected(Current)'
  BY <1>1, <1>2, <1>3, <1>7 DEF Eligible, IsTargetBlocked, Connected, poolVars
<1>10. SelectionOK'
  <2>1. /\ call.ok = {} /\ \A c \in Clients : shown[c] = "same"
        /\ call.at = "active" => Strategy = "failover"
    BY <1>2 DEF RInv, SelectionOK, Selecting
  <2> QED
    BY <1>1, <1>2, <1>3, <1>4, <1>6, <1>8, <1>9, <2>1 DEF SelectionOK, poolVars
<1> QED
  BY <1>1, <1>2, <1>3, <1>4, <1>5, <1>10, SelectionMoves

(* A call that ends leaves behind no more than dying peers.                *)
LEMMA LeavesRInv ==
    ASSUME RInv, LInv', NoneTwice', HealthyIffConnected', call # NoCall,
           NEW p \in Procs, NEW to \in {"idle", "client"}, Leave(p, to),
           \/ phase' = phase
           \/ phase' = "closed" /\ p = "shutdown" /\ to = "idle"
    PROVE  RInv'
<1>1. /\ pc' = [pc EXCEPT ![p] = to] /\ call' = NoCall
      /\ pc \in [Procs -> {"idle", "lock", "call", "client"}]
      /\ \A c \in Clients : shown'[c] # "same" => shown'[c] = "alive" /\ conn'[c] = "dead"
      /\ "shutdown" \in Procs /\ pc[p] = "call"
  BY DEF Leave, Goto, RInv, LInv, LocksTypeOK, Procs
<1>2. Settled'
  BY <1>1 DEF Settled
<1>3. SelectionOK' /\ HealthOK' /\ CloseOK'
  BY <1>1 DEF SelectionOK, HealthOK, CloseOK, At
<1>4. phase' # "startup"
  BY DEF RInv, Phased
<1>5. Phased'
  BY <1>1, <1>4 DEF RInv, Phased
<1> QED
  BY <1>2, <1>3, <1>5 DEF RInv

LEMMA DialedKeeps ==
    ASSUME TypeOK, NoneTwice, HealthyIffConnected, NEW c \in Clients, c \in ToSet(servers),
           Dialed(c), servers' = servers
    PROVE  NoneTwice' /\ HealthyIffConnected'
<1>1. /\ \A d \in Clients \ {c} : conn'[d] = conn[d] /\ healthy'[d] = healthy[d]
      /\ Connected(c)' /\ healthy'[c]
  BY DEF Dialed, Redials, TypeOK, Connected, HealthyIffConnected
<1>2. \A i \in DOMAIN servers : servers[i] \in Clients
  BY ServersLength, ElementOfSeq DEF TypeOK
<1>3. NoneTwice'
  BY <1>1, <1>2 DEF NoneTwice, Connected
<1>4. HealthyIffConnected'
  BY <1>1 DEF HealthyIffConnected, Connected
<1> QED
  BY <1>3, <1>4

LEMMA CutKeeps ==
    ASSUME TypeOK, NoneTwice, HealthyIffConnected, NEW c \in Clients, Cut(c), servers' = servers
    PROVE  NoneTwice' /\ HealthyIffConnected'
<1>1. /\ \A d \in Clients \ {c} : conn'[d] = conn[d] /\ healthy'[d] = healthy[d]
      /\ conn'[c] = "none" /\ ~healthy'[c]
  BY DEF Cut, TypeOK
<1>2. \A i \in DOMAIN servers : servers[i] \in Clients
  BY ServersLength, ElementOfSeq DEF TypeOK
<1>3. NoneTwice'
  BY <1>1, <1>2 DEF NoneTwice
<1>4. HealthyIffConnected'
  BY <1>1 DEF HealthyIffConnected, Connected
<1> QED
  BY <1>3, <1>4

LEMMA ReturnRInv == RInv /\ (Found \/ DialSucceeds) => RInv'
<1> SUFFICES ASSUME RInv, Found \/ DialSucceeds PROVE RInv'
  OBVIOUS
<1>1. /\ LInv' /\ LInv /\ call # NoCall
      /\ call.at \in {"active", "dialActive", "scan", "dial"}
  BY FoundLInv DEF RInv, Found, DialSucceeds, Suitable, InLoop, At
<1>2. TypeOK /\ servers # <<>> /\ call.by \in Procs
  BY <1>1 DEF LInv, LocksTypeOK, Ranged, Call
<1>3. Current \in Clients /\ Current \in ToSet(servers)
  BY <1>1, <1>2, CurrentInPool
<1>4. /\ Dialed(Current) /\ UNCHANGED <<phase, servers>> /\ Leave(call.by, "client")
  BY DEF Found, DialSucceeds, Return
<1>5. NoneTwice' /\ HealthyIffConnected'
  BY <1>2, <1>3, <1>4, DialedKeeps DEF RInv
<1> QED
  BY <1>1, <1>2, <1>4, <1>5, LeavesRInv

LEMMA NoServerRInv == RInv /\ NoServer => RInv'
<1> SUFFICES ASSUME RInv, NoServer PROVE RInv'
  OBVIOUS
<1>1. LInv' /\ call # NoCall /\ call.by \in Procs
  BY NoServerLInv DEF RInv, NoServer, At, LInv, LocksTypeOK, Call
<1>2. NoneTwice' /\ HealthyIffConnected'
  BY PoolKept DEF RInv, NoServer
<1> QED
  BY <1>1, <1>2, LeavesRInv DEF NoServer

-----------------------------------------------------------------------------
(* Health checks *)

LEMMA HealthMoves ==
    ASSUME RInv, LInv', NoneTwice', HealthyIffConnected', HealthOK', UNCHANGED <<phase, pc>>,
           call # NoCall, call' # NoCall, call'.at \in {"probe", "keepalive", "redial"}
    PROVE  RInv'
<1>1. Settled' /\ SelectionOK' /\ CloseOK'
  BY DEF Settled, SelectionOK, CloseOK, At
<1>2. Phased'
  BY DEF RInv, Phased
<1> QED
  BY <1>1, <1>2 DEF RInv

LEMMA ProbeRInv == RInv /\ (Probe \/ StartRedial \/ RedialFails) => RInv'
<1> SUFFICES ASSUME RInv, Probe \/ StartRedial \/ RedialFails PROVE RInv'
  OBVIOUS
<1>1. /\ LInv /\ LInv' /\ TypeOK /\ call # NoCall /\ call \in Call /\ call.step \in Nat
      /\ Len(servers) \in Nat /\ call.step <= Len(servers)
      /\ call.at \in {"probe", "redial"}
      /\ UNCHANGED <<poolVars, pc, got, shown>>
  BY ProbeLInv, ServersLength DEF RInv, Probe, StartRedial, RedialFails, At, LInv, LocksTypeOK, Ranged, Call
<1>2. PICK at \in {"keepalive", "probe", "redial"}, step \in 0 .. Len(servers) :
        /\ call' = Move(at, step)
        /\ \/ at = "keepalive" /\ step = call.step /\ Connected(Current) /\ call.at = "probe"
           \/ /\ at = "probe" /\ step = call.step + 1 /\ ~Connected(Current) /\ call.at = "probe"
              /\ call.step < Len(servers)
           \/ at = "redial" /\ call.at = "probe" /\ call.step = Len(servers) /\ call.ok = {}
           \/ at = "redial" /\ call.at = "redial"
  <2>1. CASE Probe
    BY <1>1, <2>1 DEF Probe, At
  <2>2. CASE StartRedial
    BY <1>1, <2>2 DEF StartRedial, At
  <2>3. CASE RedialFails
    BY <1>1, <2>3 DEF RedialFails, At
  <2> QED
    BY <2>1, <2>2, <2>3
<1>3. /\ call' \in Call /\ call'.at = at /\ call'.step = step /\ call'.ok = call.ok
  BY <1>1, <1>2, MoveType DEF Places
<1>4. call' # NoCall
  BY <1>3, LocksAssumption
<1>5. NoneTwice' /\ HealthyIffConnected'
  BY <1>1, PoolKept DEF RInv, poolVars
<1>6. /\ call.ok \subseteq Judged
      /\ call.at = "redial" => call.ok = {}
      /\ \A i \in Judged : IF i \in call.ok THEN Connected(servers[i + 1])
                                            ELSE conn[servers[i + 1]] = "none"
      /\ \A c \in Clients :
            /\ shown[c] = "alive" <=> conn[c] = "dead" /\ \E i \in call.ok : servers[i + 1] = c
            /\ shown[c] = "dead" => \E i \in Judged \ call.ok : servers[i + 1] = c
  BY <1>1 DEF RInv, HealthOK, At
<1>7. CASE at = "probe" /\ step = call.step + 1 /\ ~Connected(Current) /\ call.at = "probe"
           /\ call.step < Len(servers)
  <2>1. Judged' = Judged \cup {call.step} /\ call.step \notin Judged
    BY <1>1, <1>3, <1>7 DEF Judged
  <2>2. Current = servers[call.step + 1]
    BY <1>1, <1>7 DEF Current, Slot, At
  <2>3. conn[servers[call.step + 1]] = "none"
    <3>1. call.step + 1 \in DOMAIN servers /\ Current \in Clients
      BY <1>1, <1>7, <2>2, ServersLength
    <3> QED
      BY <1>1, <1>7, <2>2, <3>1 DEF RInv, NoneTwice, Connected, TypeOK
  <2>4. call.step \notin call.ok
    BY <1>6, <2>1
  <2>5. HealthOK'
    BY <1>1, <1>3, <1>6, <1>7, <2>1, <2>3, <2>4 DEF HealthOK, Connected, poolVars
  <2> QED
    BY <1>1, <1>3, <1>4, <1>5, <2>5, HealthMoves DEF poolVars
<1>8. CASE at = "keepalive" /\ step = call.step /\ Connected(Current) /\ call.at = "probe"
  <2>1. Judged' = Judged
    BY <1>1, <1>3, <1>8 DEF Judged
  <2>2. Current' = Current
    BY <1>1, <1>3, <1>4, <1>8 DEF Current, Slot, At, poolVars
  <2>3. HealthOK'
    BY <1>1, <1>3, <1>6, <1>8, <2>1, <2>2 DEF HealthOK, Connected, poolVars
  <2> QED
    BY <1>1, <1>3, <1>4, <1>5, <1>8, <2>3, HealthMoves DEF poolVars
<1>9. CASE at = "redial"
  <2>1. Judged' = Judged /\ call.ok = {}
    BY <1>1, <1>2, <1>3, <1>6, <1>9 DEF Judged, poolVars
  <2>2. HealthOK'
    BY <1>1, <1>3, <1>6, <1>9, <2>1 DEF HealthOK, Connected, poolVars
  <2> QED
    BY <1>1, <1>3, <1>4, <1>5, <1>9, <2>2, HealthMoves DEF poolVars
<1> QED
  BY <1>2, <1>7, <1>8, <1>9

(* A keepalive is answered, or finds its peer dead and cuts the connection. *)
LEMMA KeepaliveRInv == RInv /\ KeepaliveReturns => RInv'
<1> SUFFICES ASSUME RInv, KeepaliveReturns PROVE RInv'
  OBVIOUS
<1>1. /\ LInv /\ LInv' /\ TypeOK /\ call # NoCall /\ call \in Call /\ call.at = "keepalive"
      /\ call.step \in Nat /\ Len(servers) \in Nat /\ call.step < Len(servers)
      /\ servers # <<>> /\ NoneTwice /\ HealthyIffConnected
      /\ shown \in [Clients -> {"same", "alive", "dead"}]
      /\ UNCHANGED <<phase, servers, pc>>
  BY KeepaliveLInv, ServersLength
     DEF RInv, KeepaliveReturns, At, LInv, LocksTypeOK, Ranged, Call
<1>2. /\ call' # NoCall /\ call'.at = "probe" /\ call'.step = call.step + 1
      /\ \/ /\ conn[Current] = "alive" /\ UNCHANGED <<conn, healthy, shown>>
            /\ call'.ok = call.ok \cup {call.step}
         \/ /\ conn[Current] = "dead" /\ Cut(Current)
            /\ shown' = [shown EXCEPT ![Current] = "dead"] /\ call'.ok = call.ok
  <2>1. /\ Move("probe", call.step + 1) \in Call
        /\ Move("probe", call.step + 1).at = "probe"
        /\ Move("probe", call.step + 1).step = call.step + 1
        /\ Move("probe", call.step + 1).ok = call.ok
    BY <1>1, MoveType DEF Places
  <2>2. CASE /\ conn[Current] = "alive" /\ UNCHANGED <<conn, healthy, shown>>
             /\ call' = [Move("probe", call.step + 1) EXCEPT !.ok = @ \cup {call.step}]
    <3>1. call.ok \cup {call.step} \in SUBSET Nat
      BY <1>1 DEF Call
    <3>2. call' \in Call /\ call'.at = "probe" /\ call'.step = call.step + 1
          /\ call'.ok = call.ok \cup {call.step}
      BY <2>1, <2>2, <3>1 DEF Call
    <3> QED
      BY <2>2, <3>2, LocksAssumption
  <2>3. CASE /\ conn[Current] = "dead" /\ Cut(Current)
             /\ shown' = [shown EXCEPT ![Current] = "dead"] /\ call' = Move("probe", call.step + 1)
    BY <2>1, <2>3, LocksAssumption
  <2> QED
    BY <2>2, <2>3 DEF KeepaliveReturns
<1>3. /\ call.ok \subseteq Judged
      /\ \A i \in Judged : IF i \in call.ok THEN Connected(servers[i + 1])
                                            ELSE conn[servers[i + 1]] = "none"
      /\ \A c \in Clients :
            /\ shown[c] = "alive" <=> conn[c] = "dead" /\ \E i \in call.ok : servers[i + 1] = c
            /\ shown[c] = "dead" => \E i \in Judged \ call.ok : servers[i + 1] = c
  BY <1>1 DEF RInv, HealthOK, At
<1>4. /\ Judged' = Judged \cup {call.step} /\ call.step \notin Judged
      /\ Judged \subseteq 0 .. Len(servers) - 1
  BY <1>1, <1>2 DEF Judged
<1>5. Current = servers[call.step + 1] /\ Current \in Clients
  BY <1>1, CurrentInPool DEF Current, Slot, At
<1>6. call.step \notin call.ok
  BY <1>3, <1>4
<1>7. \A i \in Judged : servers[i + 1] \in Clients /\ servers[i + 1] # Current
  <2>1. ASSUME NEW i \in Judged PROVE servers[i + 1] \in Clients /\ servers[i + 1] # Current
    <3>1. i + 1 \in DOMAIN servers /\ call.step + 1 \in DOMAIN servers /\ i + 1 # call.step + 1
      BY <1>1, <1>4, ServersLength
    <3>2. servers[i + 1] \in Clients
      BY <1>1, <1>4, ServersLength
    <3> QED
      BY <1>1, <1>5, <3>1, <3>2 DEF NoneTwice
  <2> QED
    BY <2>1
<1>8. CASE /\ conn[Current] = "alive" /\ UNCHANGED <<conn, healthy, shown>>
           /\ call'.ok = call.ok \cup {call.step}
  <2>1. NoneTwice' /\ HealthyIffConnected'
    BY <1>1, <1>8, PoolKept
  <2>2. HealthOK'
    <3>1. call'.ok \subseteq Judged'
      BY <1>3, <1>4, <1>8
    <3>2. \A i \in Judged' : IF i \in call'.ok THEN Connected(servers[i + 1])'
                                               ELSE conn'[servers'[i + 1]] = "none"
      BY <1>1, <1>3, <1>4, <1>5, <1>8 DEF Connected
    <3>3. \A c \in Clients :
             /\ shown'[c] = "alive" <=> conn'[c] = "dead" /\ \E i \in call'.ok : servers'[i + 1] = c
             /\ shown'[c] = "dead" => \E i \in Judged' \ call'.ok : servers'[i + 1] = c
      BY <1>1, <1>3, <1>4, <1>5, <1>8
    <3> QED
      BY <1>2, <3>1, <3>2, <3>3 DEF HealthOK
  <2> QED
    BY <1>1, <1>2, <2>1, <2>2, HealthMoves
<1>9. CASE /\ conn[Current] = "dead" /\ Cut(Current)
           /\ shown' = [shown EXCEPT ![Current] = "dead"] /\ call'.ok = call.ok
  <2>1. NoneTwice' /\ HealthyIffConnected'
    BY <1>1, <1>5, <1>9, CutKeeps
  <2>2. /\ \A d \in Clients \ {Current} : conn'[d] = conn[d] /\ shown'[d] = shown[d]
        /\ conn'[Current] = "none" /\ shown'[Current] = "dead"
    BY <1>1, <1>5, <1>9 DEF Cut, TypeOK
  <2>3. HealthOK'
    <3>1. \A i \in Judged' : IF i \in call'.ok THEN Connected(servers[i + 1])'
                                               ELSE conn'[servers'[i + 1]] = "none"
      BY <1>1, <1>3, <1>4, <1>5, <1>6, <1>7, <1>9, <2>2 DEF Connected
    <3>2. \A c \in Clients :
             /\ shown'[c] = "alive" <=> conn'[c] = "dead" /\ \E i \in call'.ok : servers'[i + 1] = c
             /\ shown'[c] = "dead" => \E i \in Judged' \ call'.ok : servers'[i + 1] = c
      <4>1. ASSUME NEW c \in Clients \ {Current}
            PROVE  /\ shown'[c] = "alive" <=> conn'[c] = "dead" /\ \E i \in call'.ok : servers'[i + 1] = c
                   /\ shown'[c] = "dead" => \E i \in Judged' \ call'.ok : servers'[i + 1] = c
        BY <1>1, <1>3, <1>4, <1>9, <2>2
      <4>2. call.step \in Judged' \ call'.ok /\ servers'[call.step + 1] = Current
        BY <1>1, <1>4, <1>5, <1>6, <1>9
      <4> QED
        BY <2>2, <4>1, <4>2
    <3> QED
      BY <1>2, <1>3, <1>4, <1>9, <3>1, <3>2 DEF HealthOK
  <2> QED
    BY <1>1, <1>2, <2>1, <2>3, HealthMoves
<1> QED
  BY <1>2, <1>8, <1>9

LEMMA JudgeRInv == RInv /\ (Judge \/ NoneAlive \/ RedialSucceeds) => RInv'
<1> SUFFICES ASSUME RInv, Judge \/ NoneAlive \/ RedialSucceeds PROVE RInv'
  OBVIOUS
<1>1. /\ LInv' /\ call # NoCall /\ TypeOK /\ UNCHANGED <<phase, servers>> /\ Leave("health", "idle")
  BY JudgeLInv, RedialSucceedsLInv
     DEF RInv, Judge, NoneAlive, RedialSucceeds, LeaveHealth, At, LInv, LocksTypeOK
<1>2. NoneTwice' /\ HealthyIffConnected'
  <2>1. CASE UNCHANGED <<conn, healthy>>
    BY <1>1, <2>1, PoolKept DEF RInv
  <2>2. CASE RedialSucceeds
    <3>1. call.step < Len(servers) /\ servers # <<>>
      BY <1>1, <2>2 DEF RedialSucceeds, At, RInv, LInv, Ranged
    <3>2. Current \in Clients /\ Current \in ToSet(servers)
      BY <1>1, <3>1, CurrentInPool DEF RInv
    <3> QED
      BY <1>1, <2>2, <3>2, DialedKeeps DEF RedialSucceeds, RInv
  <2> QED
    BY <2>1, <2>2 DEF Judge, NoneAlive
<1> QED
  BY <1>1, <1>2, LeavesRInv DEF Procs

-----------------------------------------------------------------------------
(* The shutdown *)

LEMMA CloseRInv == RInv /\ (CloseNext \/ CloseDone) => RInv'
<1> SUFFICES ASSUME RInv, CloseNext \/ CloseDone PROVE RInv'
  OBVIOUS
<1>1. /\ LInv /\ LInv' /\ TypeOK /\ call # NoCall /\ call \in Call /\ call.at = "close"
      /\ call.step \in Nat /\ Len(servers) \in Nat /\ NoneTwice /\ HealthyIffConnected
      /\ shown \in [Clients -> {"same", "alive", "dead"}]
      /\ call.ok = {}
      /\ \A i \in 0 .. call.step - 1 : conn[servers[i + 1]] = "none"
      /\ \A c \in Clients : shown[c] # "same" => \E i \in 0 .. call.step - 1 : servers[i + 1] = c
  BY CloseLInv, ServersLength
     DEF RInv, CloseOK, CloseNext, CloseDone, At, LInv, LocksTypeOK, Call
<1>2. CASE CloseNext
  <2>1. /\ call.step < Len(servers) /\ Cut(Current) /\ UNCHANGED <<phase, servers, pc>>
        /\ shown' = IF Connected(Current) THEN [shown EXCEPT ![Current] = conn[Current]] ELSE shown
        /\ Current = servers[call.step + 1] /\ Current \in Clients
    BY <1>1, <1>2, ServersLength DEF CloseNext, Current, Slot, At
  <2>2. /\ call' \in Call /\ call'.at = "close" /\ call'.step = call.step + 1 /\ call'.ok = {}
    BY <1>1, <1>2, MoveType DEF CloseNext, Places
  <2>3. NoneTwice' /\ HealthyIffConnected'
    BY <1>1, <2>1, CutKeeps
  <2>4. /\ \A d \in Clients \ {Current} : conn'[d] = conn[d] /\ shown'[d] = shown[d]
        /\ conn'[Current] = "none"
    BY <1>1, <2>1 DEF Cut, TypeOK
  <2>5. /\ 0 .. call'.step - 1 = (0 .. call.step - 1) \cup {call.step}
        /\ \A i \in 0 .. call.step - 1 : servers[i + 1] \in Clients
    BY <1>1, <2>1, <2>2, ServersLength
  <2>6. CloseOK'
    <3>1. \A i \in 0 .. call'.step - 1 : conn'[servers'[i + 1]] = "none"
      BY <1>1, <2>1, <2>4, <2>5
    <3>2. \A c \in Clients : shown'[c] # "same" => \E i \in 0 .. call'.step - 1 : servers'[i + 1] = c
      BY <1>1, <2>1, <2>4, <2>5
    <3> QED
      BY <2>2, <3>1, <3>2 DEF CloseOK
  <2>7. call' # NoCall
    BY <2>2, LocksAssumption
  <2>8. Settled' /\ SelectionOK' /\ HealthOK'
    BY <2>2, <2>7 DEF Settled, SelectionOK, HealthOK, At
  <2>9. Phased'
    BY <1>1, <2>1 DEF RInv, Phased
  <2> QED
    BY <1>1, <2>3, <2>6, <2>8, <2>9 DEF RInv
<1>3. CASE CloseDone
  <2>1. /\ servers' = <<>> /\ phase' = "closed" /\ UNCHANGED <<conn, healthy>>
        /\ Leave("shutdown", "idle")
    BY <1>3 DEF CloseDone
  <2>2. NoneTwice' /\ HealthyIffConnected'
    BY <1>1, <2>1 DEF NoneTwice, HealthyIffConnected, Connected
  <2> QED
    BY <1>1, <2>1, <2>2, LeavesRInv DEF Procs
<1> QED
  BY <1>2, <1>3

-----------------------------------------------------------------------------

LEMMA NextRInv == RInv /\ [LocksNext]_vars => RInv'
<1> SUFFICES ASSUME RInv, [LocksNext]_vars PROVE RInv'
  OBVIOUS
<1>1. CASE LocksNext
  BY <1>1, EntersRInv, ReadClientRInv, SettleRInv, SkipRInv, StartDialRInv, ReturnRInv,
     NoServerRInv, ProbeRInv, JudgeRInv, CloseRInv, DialFailsRInv, KeepaliveRInv,
     BriefRInv, EnvironsRInv
     DEF LocksNext, Works, NetworkReturns
<1>2. CASE UNCHANGED vars
  <2>1. LInv'
    BY <1>2, LocksNextLInv DEF RInv
  <2>2. NoneTwice' /\ HealthyIffConnected' /\ Settled' /\ SelectionOK' /\ HealthOK' /\ CloseOK'
    BY <1>2, PoolKept, CallKept DEF RInv, vars, poolVars
  <2>3. Phased'
    BY <1>2 DEF RInv, Phased, vars, poolVars
  <2> QED
    BY <2>1, <2>2, <2>3 DEF RInv
<1> QED
  BY <1>1, <1>2

(* The inductive invariant holds of every behaviour of the calls.          *)
THEOREM RInvariance == LocksSpec => []RInv
BY InitRInv, NextRInv, PTL DEF LocksSpec

-----------------------------------------------------------------------------
(* What the pool shows *)

(* Where nothing is held back the pool shows itself.                       *)
LEMMA ShowsItself ==
    ASSUME LInv, \A c \in Clients : shown[c] = "same"
    PROVE  connShown = conn /\ healthyShown = healthy
BY DEF connShown, healthyShown, LInv, LocksTypeOK, TypeOK

LEMMA ShowsItselfThen ==
    ASSUME LInv', \A c \in Clients : shown'[c] = "same"
    PROVE  connShown' = conn' /\ healthyShown' = healthy'
BY DEF connShown, healthyShown, LInv, LocksTypeOK, TypeOK

(* The scan that RoundRobin sees is then the one of this pool.             *)
LEMMA SameScan ==
    ASSUME connShown = conn
    PROVE  /\ Pool!Addrs = Addrs /\ Pool!ScanSteps = ScanSteps
           /\ \A k : Pool!ScanSlot(k) = ScanSlot(k) /\ Pool!Scanned(k) = Scanned(k)
           /\ \A c : Pool!Connected(c) <=> Connected(c)
           /\ \A c, t, exclude : Pool!Eligible(c, t, exclude) <=> Eligible(c, t, exclude)
           /\ Pool!ConnectedCount = ConnectedCount
           /\ Pool!MayDial <=> MayDial
<1>1. /\ Pool!Addrs = Addrs /\ Pool!ScanSteps = ScanSteps
      /\ \A k : Pool!ScanSlot(k) = ScanSlot(k)
      /\ \A c : Pool!Connected(c) <=> Connected(c)
  BY DEF Pool!Addrs, Addrs, Pool!ScanSteps, ScanSteps, Pool!ScanSlot, ScanSlot,
         Pool!Connected, Connected
<1>2. \A k : Pool!Scanned(k) = Scanned(k)
  BY <1>1 DEF Pool!Scanned, Scanned
<1>3. \A c, t, exclude : Pool!Eligible(c, t, exclude) <=> Eligible(c, t, exclude)
  BY DEF Pool!Eligible, Eligible, Pool!IsTargetBlocked, IsTargetBlocked
<1>4. Pool!ConnectedCount = ConnectedCount
  <2>1. Pool!ToSet(servers) = ToSet(servers)
    BY DEF Pool!ToSet, ToSet
  <2>2. Pool!ConnectedClients = ConnectedClients
    BY <1>1, <2>1 DEF Pool!ConnectedClients, ConnectedClients
  <2>3. Pool!Cardinality(ConnectedClients) = Cardinality(ConnectedClients)
    BY DEF Pool!Cardinality, Cardinality
  <2> QED
    BY <2>2, <2>3 DEF Pool!ConnectedCount, ConnectedCount
<1>5. Pool!MayDial <=> MayDial
  BY <1>4 DEF Pool!MayDial, MayDial
<1> QED
  BY <1>1, <1>2, <1>3, <1>4, <1>5

LEMMA SameSelection ==
    ASSUME connShown = conn, NEW t, NEW exclude, NEW k
    PROVE  /\ Pool!Passes(t, exclude, k) <=> Passes(t, exclude, k)
           /\ Pool!Hit(t, exclude, k) <=> Hit(t, exclude, k)
           /\ Pool!SeenAddrs(exclude, k) = SeenAddrs(exclude, k)
<1>1. Pool!Passes(t, exclude, k) <=> Passes(t, exclude, k)
  BY SameScan DEF Pool!Passes, Passes
<1>2. Pool!Hit(t, exclude, k) <=> Hit(t, exclude, k)
  BY SameScan DEF Pool!Hit, Hit
<1>3. Pool!SeenAddrs(exclude, k) = SeenAddrs(exclude, k)
  BY SameScan DEF Pool!SeenAddrs, SeenAddrs
<1> QED
  BY <1>1, <1>2, <1>3

-----------------------------------------------------------------------------
(* The steps between the calls *)

LEMMA BriefMaps == RInv /\ RInv' /\ Brief => Pool!Next
<1> SUFFICES ASSUME RInv, RInv', Brief PROVE Pool!Next
  OBVIOUS
<1>1. LInv /\ LInv' /\ TypeOK /\ UNCHANGED shown /\ shown \in [Clients -> {"same", "alive", "dead"}]
  BY DEF RInv, Brief, LInv, LocksTypeOK
<1>2. ASSUME NEW c \in Clients, NEW outcome \in {"connected", "failed", "lazy"},
             ConnectServer(c, outcome)
      PROVE  Pool!Next
  <2>1. \A d \in Clients : shown[d] = "same" /\ shown'[d] = "same"
    BY <1>1, <1>2 DEF ConnectServer, RInv, Phased
  <2>2. connShown = conn /\ healthyShown = healthy /\ connShown' = conn' /\ healthyShown' = healthy'
    BY <1>1, <2>1, ShowsItself, ShowsItselfThen
  <2>3. Pool!ConnectedCount = ConnectedCount
    BY <2>2, SameScan
  <2>4. Pool!ConnectServer(c, outcome)
    BY <1>2, <2>2, <2>3 DEF ConnectServer, Pool!ConnectServer, EagerLimit, Pool!EagerLimit
  <2> QED
    BY <2>4 DEF Pool!Next, Pool!Startup
<1>3. CASE Start \/ Report \/ Cleanup
  <2>1. UNCHANGED <<conn, healthy>>
    BY <1>3 DEF Start, Report, Cleanup, ReportTargetFailure, ReportTargetSuccess, CleanupExpiredTargets
  <2>2. UNCHANGED <<connShown, healthyShown>>
    BY <1>1, <2>1 DEF connShown, healthyShown
  <2>3. CASE Start
    BY <2>2, <2>3 DEF Start, Pool!Start, Pool!Next, Pool!Startup
  <2>4. CASE Report
    <3>1. PICK c \in Clients, t \in Targets :
            conn[c] # "absent" /\ (ReportTargetFailure(c, t) \/ ReportTargetSuccess(c, t))
      BY <2>4 DEF Report
    <3>2. connShown[c] # "absent"
      BY <1>1, <3>1 DEF connShown
    <3>3. Pool!ReportTargetFailure(c, t) \/ Pool!ReportTargetSuccess(c, t)
      BY <2>2, <3>1 DEF ReportTargetFailure, Pool!ReportTargetFailure, ReportTargetSuccess,
            Pool!ReportTargetSuccess, Counted, Pool!Counted, Forget, Pool!Forget,
            NoFailure, Pool!NoFailure
    <3> QED
      BY <2>4, <3>2, <3>3 DEF Report, Pool!Report, Pool!Next
  <2>5. CASE Cleanup
    BY <2>2, <2>5 DEF Cleanup, Pool!Cleanup, CleanupExpiredTargets, Pool!CleanupExpiredTargets,
          NoFailure, Pool!NoFailure, Pool!Next
  <2> QED
    BY <1>3, <2>3, <2>4, <2>5
<1> QED
  BY <1>2, <1>3 DEF Brief, Startup

(* A peer that died during a call dies when that shows.                    *)
LEMMA SettleMaps ==
    ASSUME RInv, NEW c \in Clients, Settle(c)
    PROVE  Pool!Next
<1>1. /\ shown \in [Clients -> {"same", "alive", "dead"}] /\ HealthyIffConnected
      /\ shown' = [shown EXCEPT ![c] = "same"] /\ UNCHANGED poolVars
      /\ shown[c] = "alive" /\ conn[c] = "dead"
  BY DEF RInv, LInv, LocksTypeOK, Settle, Settled
<1>2. connShown[c] = "alive" /\ connShown' = [connShown EXCEPT ![c] = "dead"]
  BY <1>1 DEF connShown, poolVars
<1>3. healthyShown' = healthyShown
  BY <1>1 DEF healthyShown, HealthyIffConnected, Connected, poolVars
<1>4. Pool!PeerDies(c)
  BY <1>1, <1>2, <1>3 DEF Pool!PeerDies, poolVars
<1> QED
  BY <1>4 DEF Pool!Next, Pool!Environment

(* A connection whose peer is alive is shown as it is.                     *)
LEMMA AliveShows ==
    ASSUME RInv, NEW c \in Clients, conn[c] = "alive"
    PROVE  shown[c] = "same"
<1>1. shown[c] \in {"same", "alive", "dead"}
  BY DEF RInv, LInv, LocksTypeOK
<1>2. CASE call = NoCall
  BY <1>2 DEF RInv, Settled
<1>3. CASE Selecting
  BY <1>3 DEF Selecting, RInv, SelectionOK
<1>4. CASE At({"probe", "keepalive", "redial"})
  <2>1. /\ shown[c] = "alive" => conn[c] = "dead"
        /\ shown[c] = "dead" => \E i \in Judged \ call.ok : servers[i + 1] = c
        /\ \A i \in Judged : i \notin call.ok => conn[servers[i + 1]] = "none"
    BY <1>4 DEF RInv, HealthOK
  <2> QED
    BY <1>1, <2>1
<1>5. CASE At({"close"})
  BY <1>5 DEF RInv, CloseOK
<1> QED
  BY <1>2, <1>3, <1>4, <1>5 DEF RInv, LInv, LocksTypeOK, Call, Selecting, At

LEMMA EnvironsMaps == RInv /\ Environs => Pool!Next \/ UNCHANGED Pool!poolVars
<1> SUFFICES ASSUME RInv, Environs PROVE Pool!Next \/ UNCHANGED Pool!poolVars
  OBVIOUS
<1>1. /\ shown \in [Clients -> {"same", "alive", "dead"}] /\ HealthyIffConnected /\ TypeOK
  BY DEF RInv, LInv, LocksTypeOK
<1>2. ASSUME NEW c \in Clients, PeerDies(c),
             shown' = IF call # NoCall /\ \E i \in call.ok : servers[i + 1] = c
                      THEN [shown EXCEPT ![c] = "alive"] ELSE shown
      PROVE  Pool!Next \/ UNCHANGED Pool!poolVars
  <2>1. /\ UNCHANGED <<phase, servers, index, hasActive, activeIdx, healthy, targetFailures>>
        /\ conn[c] = "alive" /\ conn' = [conn EXCEPT ![c] = "dead"]
    BY <1>2 DEF PeerDies
  <2>2. shown[c] = "same" /\ healthy[c]
    BY <1>1, <2>1, AliveShows DEF HealthyIffConnected, Connected
  <2>3. CASE shown' = shown
    <3>1. connShown[c] = "alive" /\ connShown' = [connShown EXCEPT ![c] = "dead"]
      BY <1>1, <2>1, <2>2, <2>3 DEF connShown, TypeOK
    <3>2. healthyShown' = healthyShown
      BY <2>1, <2>3 DEF healthyShown
    <3>3. Pool!PeerDies(c)
      BY <2>1, <3>1, <3>2 DEF Pool!PeerDies
    <3> QED
      BY <3>3 DEF Pool!Next, Pool!Environment
  <2>4. CASE shown' = [shown EXCEPT ![c] = "alive"]
    <3>1. connShown' = connShown
      BY <1>1, <2>1, <2>2, <2>4 DEF connShown, TypeOK
    <3>2. healthyShown' = healthyShown
      BY <1>1, <2>1, <2>2, <2>4 DEF healthyShown
    <3> QED
      BY <2>1, <3>1, <3>2 DEF Pool!poolVars
  <2> QED
    BY <1>2, <2>3, <2>4
<1>3. ASSUME NEW p \in Addrs \X Targets, Expire(p[1], p[2]), UNCHANGED shown
      PROVE  Pool!Next
  <2>1. UNCHANGED <<connShown, healthyShown>>
    BY <1>3 DEF Expire, connShown, healthyShown
  <2>2. Pool!Expire(p[1], p[2])
    BY <1>3, <2>1 DEF Expire, Pool!Expire
  <2>3. Pool!Addrs = Addrs
    BY DEF Pool!Addrs, Addrs
  <2> QED
    BY <2>2, <2>3 DEF Pool!Next, Pool!Environment
<1> QED
  BY <1>2, <1>3 DEF Environs

-----------------------------------------------------------------------------
(* The steps inside a call that do not show *)

LEMMA MovesMap ==
    ASSUME UNCHANGED <<poolVars, shown>>
    PROVE  UNCHANGED Pool!poolVars
<1>1. UNCHANGED <<connShown, healthyShown>>
  BY DEF connShown, healthyShown, poolVars
<1> QED
  BY <1>1 DEF Pool!poolVars, poolVars

(* A connection that a health check or a shutdown cuts is shown as it was. *)
LEMMA CutMaps ==
    ASSUME RInv, NEW c \in Clients, Cut(c), Connected(c), shown[c] = "same",
           shown' = [shown EXCEPT ![c] = conn[c]]
    PROVE  UNCHANGED <<connShown, healthyShown>>
<1>1. /\ shown \in [Clients -> {"same", "alive", "dead"}] /\ HealthyIffConnected /\ TypeOK
  BY DEF RInv, LInv, LocksTypeOK
<1>2. /\ \A d \in Clients \ {c} : conn'[d] = conn[d] /\ healthy'[d] = healthy[d] /\ shown'[d] = shown[d]
      /\ shown'[c] = conn[c] /\ conn[c] # "same" /\ healthy[c]
  BY <1>1 DEF Cut, TypeOK, HealthyIffConnected, Connected
<1>3. connShown' = connShown
  BY <1>2 DEF connShown
<1>4. healthyShown' = healthyShown
  BY <1>2 DEF healthyShown
<1> QED
  BY <1>3, <1>4

LEMMA KeepaliveMaps == RInv /\ KeepaliveReturns => UNCHANGED Pool!poolVars
<1> SUFFICES ASSUME RInv, KeepaliveReturns PROVE UNCHANGED Pool!poolVars
  OBVIOUS
<1>1. CASE UNCHANGED <<conn, healthy, shown>>
  BY <1>1, MovesMap DEF KeepaliveReturns, poolVars
<1>2. CASE conn[Current] = "dead" /\ Cut(Current) /\ shown' = [shown EXCEPT ![Current] = "dead"]
  <2>1. /\ call # NoCall /\ call.at = "keepalive" /\ servers # <<>> /\ call.step < Len(servers)
        /\ call \in Call /\ call.step \in Nat /\ Len(servers) \in Nat /\ TypeOK /\ NoneTwice
    BY ServersLength DEF KeepaliveReturns, At, RInv, LInv, LocksTypeOK, Ranged, Call
  <2>2. Current \in Clients /\ Current = servers[call.step + 1] /\ call.step + 1 \in DOMAIN servers
    BY <2>1, CurrentInPool, ServersLength DEF RInv, Current, Slot, At
  <2>3. /\ call.ok \subseteq Judged /\ Judged = 0 .. call.step - 1
        /\ \A i \in Judged : i \notin call.ok => conn[servers[i + 1]] = "none"
        /\ shown[Current] = "alive" => \E i \in call.ok : servers[i + 1] = Current
        /\ shown[Current] = "dead" => \E i \in Judged \ call.ok : servers[i + 1] = Current
    BY <2>1, <2>2 DEF RInv, HealthOK, At, Judged
  <2>4. shown[Current] # "dead"
    BY <1>2, <2>3
  <2>5. shown[Current] # "alive"
    <3>1. \A i \in 0 .. call.step - 1 : servers[i + 1] # Current
      <4>1. ASSUME NEW i \in 0 .. call.step - 1 PROVE servers[i + 1] # Current
        <5>1. i + 1 \in DOMAIN servers /\ i + 1 # call.step + 1
          BY <2>1, ServersLength
        <5> QED
          BY <2>1, <2>2, <5>1 DEF NoneTwice
      <4> QED
        BY <4>1
    <3> QED
      BY <2>3, <3>1
  <2>6. shown[Current] = "same"
    BY <2>2, <2>4, <2>5 DEF RInv, LInv, LocksTypeOK
  <2>7. UNCHANGED <<connShown, healthyShown>>
    BY <1>2, <2>2, <2>6, CutMaps DEF Connected
  <2> QED
    BY <2>7 DEF KeepaliveReturns, Pool!poolVars
<1> QED
  BY <1>1, <1>2 DEF KeepaliveReturns

LEMMA CloseNextMaps == RInv /\ CloseNext => UNCHANGED Pool!poolVars
<1> SUFFICES ASSUME RInv, CloseNext PROVE UNCHANGED Pool!poolVars
  OBVIOUS
<1>1. /\ call # NoCall /\ call.at = "close" /\ call.step < Len(servers) /\ Cut(Current)
      /\ call \in Call /\ call.step \in Nat /\ Len(servers) \in Nat /\ TypeOK /\ NoneTwice
      /\ HealthyIffConnected /\ shown \in [Clients -> {"same", "alive", "dead"}]
      /\ shown' = IF Connected(Current) THEN [shown EXCEPT ![Current] = conn[Current]] ELSE shown
      /\ UNCHANGED <<phase, servers, index, hasActive, activeIdx, targetFailures>>
  BY ServersLength DEF CloseNext, At, RInv, LInv, LocksTypeOK, Call
<1>2. Current \in Clients /\ Current = servers[call.step + 1] /\ call.step + 1 \in DOMAIN servers
  BY <1>1, ServersLength DEF Current, Slot, At
<1>3. UNCHANGED <<connShown, healthyShown>>
  <2>1. CASE Connected(Current)
    <3>1. shown[Current] = "same"
      BY <1>1, <1>2, <2>1 DEF RInv, CloseOK, At, Connected
    <3> QED
      BY <1>1, <1>2, <2>1, <3>1, CutMaps
  <2>2. CASE ~Connected(Current)
    <3>1. conn[Current] = "none" /\ ~healthy[Current]
      BY <1>1, <1>2, <2>2 DEF NoneTwice, Connected, HealthyIffConnected, TypeOK
    <3>2. conn' = conn /\ healthy' = healthy /\ shown' = shown
      BY <1>1, <1>2, <2>2, <3>1 DEF Cut, TypeOK
    <3> QED
      BY <3>2 DEF connShown, healthyShown
  <2> QED
    BY <2>1, <2>2
<1> QED
  BY <1>1, <1>3 DEF Pool!poolVars

-----------------------------------------------------------------------------
(* The steps that end a call *)

(* A selection ends with what its scan has met.                            *)
LEMMA SelectionMaps ==
    ASSUME LInv, LInv', phase # "startup", servers # <<>>,
           \A c \in Clients : shown[c] = "same" /\ shown'[c] = "same",
           NEW t \in Targets \cup {NoTarget}, NEW exclude \in SUBSET Addrs,
           NEW k \in 0 .. Len(servers), Passes(t, exclude, k),
           Select(t, exclude, k) \/ SelectNone(k),
           AdvanceIndex, targetFailures' = DropStale(t, SeenAddrs(exclude, k)),
           UNCHANGED <<phase, servers>>
    PROVE  Pool!Next
<1>1. /\ connShown = conn /\ healthyShown = healthy
      /\ connShown' = conn' /\ healthyShown' = healthy'
  BY ShowsItself, ShowsItselfThen
<1>2. /\ Pool!Passes(t, exclude, k)
      /\ Pool!SeenAddrs(exclude, k) = SeenAddrs(exclude, k)
      /\ Pool!Hit(t, exclude, k) <=> Hit(t, exclude, k)
  BY <1>1, SameSelection
<1>3. Pool!Select(t, exclude, k) \/ Pool!SelectNone(k)
  <2>1. CASE Select(t, exclude, k)
    <3>1. k \in Pool!ScanSteps /\ Pool!Scanned(k) = Scanned(k) /\ Pool!ScanSlot(k) = ScanSlot(k)
      BY <1>1, <2>1, SameScan DEF Select
    <3>2. Pool!Dialed(Scanned(k))
      BY <1>1, <2>1, SameScan DEF Select, Dialed, Redials, Pool!Dialed, Pool!Redials
    <3> QED
      BY <1>2, <2>1, <3>1, <3>2 DEF Select, Pool!Select, Activate, Pool!Activate,
            KeepActive, Pool!KeepActive
  <2>2. CASE SelectNone(k)
    BY <1>1, <2>2 DEF SelectNone, Pool!SelectNone, Deactivate, Pool!Deactivate,
          KeepActive, Pool!KeepActive
  <2> QED
    BY <2>1, <2>2
<1>4. Pool!AdvanceIndex
  BY DEF AdvanceIndex, Pool!AdvanceIndex
<1>5. targetFailures' = Pool!DropStale(t, Pool!SeenAddrs(exclude, k))
  BY <1>2 DEF DropStale, Pool!DropStale, NoFailure, Pool!NoFailure
<1>6. Pool!GetForTarget(t, exclude, k)
  BY <1>2, <1>3, <1>4, <1>5 DEF Pool!GetForTarget
<1>7. Pool!Addrs = Addrs
  BY <1>1, SameScan
<1> QED
  BY <1>6, <1>7 DEF Pool!Next, Pool!Request

LEMMA LeavesShowing ==
    ASSUME LInv, \A c \in Clients : shown[c] = "same", NEW p, NEW to, Leave(p, to)
    PROVE  \A c \in Clients : shown'[c] = "same"
BY DEF Leave

LEMMA ReturnMaps == RInv /\ RInv' /\ (Found \/ DialSucceeds) => Pool!Next
<1> SUFFICES ASSUME RInv, RInv', Found \/ DialSucceeds PROVE Pool!Next
  OBVIOUS
<1>1. /\ LInv /\ LInv' /\ call # NoCall /\ call \in Call /\ servers # <<>> /\ phase # "startup"
      /\ Selecting /\ call.t \in Targets \cup {NoTarget} /\ call.exclude \in SUBSET Addrs
      /\ Len(servers) \in Nat
      /\ \A c \in Clients : shown[c] = "same"
      /\ call.at \in {"scan", "dial"} => call.step < Len(servers)
  <2>1. call # NoCall /\ Selecting /\ (call.at = "scan" => call.step < Len(servers))
    BY DEF Found, DialSucceeds, Suitable, InLoop, Selecting, At
  <2>2. LInv /\ LInv' /\ call \in Call /\ servers # <<>> /\ phase # "startup" /\ Len(servers) \in Nat
        /\ (call.at = "dial" => call.step < Len(servers))
    BY <2>1, ServersLength DEF RInv, LInv, LocksTypeOK, Ranged, Phased, Selecting, At
  <2> QED
    BY <2>1, <2>2 DEF Call, RInv, SelectionOK, Selecting
<1> DEFINE k == Passed
<1>2. PICK seen : /\ Return(seen) /\ seen = SeenAddrs(call.exclude, k)
                  /\ k \in ScanSteps /\ k < Len(servers) /\ k \in Nat
                  /\ Slot = ScanSlot(k) /\ Current = Scanned(k)
                  /\ Passes(call.t, call.exclude, k) /\ Hit(call.t, call.exclude, k)
  <2>1. CASE Found
    <3>1. InLoop /\ ~PassedOver /\ ~IsTargetBlocked(Current, call.t) /\ Connected(Current) /\ Return(Looked)
      BY <2>1 DEF Found, Suitable
    <3>2. /\ k \in ScanSteps /\ k < Len(servers) /\ k \in Nat
          /\ Slot = ScanSlot(k) /\ Current = Scanned(k)
          /\ Passes(call.t, call.exclude, k) /\ Looked = SeenAddrs(call.exclude, k)
          /\ AddrOf[Current] \notin call.exclude
      BY <3>1, LookedAt
    <3>3. Hit(call.t, call.exclude, k)
      <4> HIDE DEF k
      <4> QED
        BY <3>1, <3>2 DEF Hit, Eligible
    <3> QED
      BY <3>1, <3>2, <3>3
  <2>2. CASE DialSucceeds
    <3>1. /\ Return(call.seen) /\ k < Len(servers) /\ call.seen = SeenAddrs(call.exclude, k)
          /\ Eligible(Current, call.t, call.exclude) /\ MayDial
      BY <2>2 DEF DialSucceeds, At, RInv, SelectionOK, LInv, Ranged
    <3>2. /\ k \in ScanSteps /\ k \in Nat
          /\ Slot = ScanSlot(k) /\ Current = Scanned(k)
          /\ Passes(call.t, call.exclude, k)
      BY <1>1, <3>1, LoopAt
    <3>3. Hit(call.t, call.exclude, k)
      <4> HIDE DEF k
      <4> QED
        BY <3>1, <3>2 DEF Hit
    <3> QED
      BY <3>1, <3>2, <3>3
  <2> QED
    BY <2>1, <2>2
<1> HIDE DEF k
<1>3. Leave(call.by, "client")
  BY <1>2 DEF Return
<1>4. \A c \in Clients : shown[c] = "same" /\ shown'[c] = "same"
  BY <1>1, <1>3, LeavesShowing
<1>5. Select(call.t, call.exclude, k)
  BY <1>2 DEF Return, Select
<1>6. k \in 0 .. Len(servers)
  BY <1>1, <1>2
<1>7. AdvanceIndex /\ targetFailures' = DropStale(call.t, SeenAddrs(call.exclude, k))
      /\ UNCHANGED <<phase, servers>>
  BY <1>2 DEF Return
<1> QED
  BY <1>1, <1>2, <1>4, <1>5, <1>6, <1>7, SelectionMaps

LEMMA NoServerMaps == RInv /\ RInv' /\ NoServer => Pool!Next
<1> SUFFICES ASSUME RInv, RInv', NoServer PROVE Pool!Next
  OBVIOUS
<1>1. /\ LInv /\ LInv' /\ TypeOK /\ call # NoCall /\ call \in Call /\ servers # <<>> /\ phase # "startup"
      /\ call.at = "scan" /\ call.step = Len(servers)
      /\ call.t \in Targets \cup {NoTarget} /\ call.exclude \in SUBSET Addrs
      /\ Len(servers) \in Nat
  BY ServersLength DEF NoServer, At, RInv, LInv, LocksTypeOK, Ranged, Phased, Call
<1>2. /\ \A c \in Clients : shown[c] = "same"
      /\ Passes(call.t, call.exclude, Passed)
      /\ call.seen = SeenAddrs(call.exclude, Passed - 1)
  BY <1>1 DEF RInv, SelectionOK, At
<1>3. Passed = Len(servers)
  BY <1>1 DEF Passed
<1>4. /\ Passes(call.t, call.exclude, Len(servers))
      /\ call.seen = SeenAddrs(call.exclude, Len(servers))
  BY <1>1, <1>2, <1>3, ScanEnds
<1>5. \A c \in Clients : shown[c] = "same" /\ shown'[c] = "same"
  BY <1>1, <1>2, LeavesShowing DEF NoServer
<1>6. /\ SelectNone(Len(servers)) /\ AdvanceIndex /\ UNCHANGED <<phase, servers>>
      /\ targetFailures' = DropStale(call.t, SeenAddrs(call.exclude, Len(servers)))
  BY <1>4 DEF NoServer, SelectNone
<1>7. Len(servers) \in 0 .. Len(servers)
  BY <1>1
<1> QED
  BY <1>1, <1>4, <1>5, <1>6, <1>7, SelectionMaps

(* Once every slot is judged, the slots that answered are those that show  *)
(* as alive, and the others have lost what they show.                      *)
LEMMA JudgedShows ==
    ASSUME RInv, At({"probe", "redial"}), Judged = 0 .. Len(servers) - 1
    PROVE  /\ \A i \in ScanSteps : Pool!Alive(i) <=> i \in call.ok
           /\ \A c \in Clients :
                 Pool!Probed[c] = IF shown[c] = "alive" THEN "alive" ELSE conn[c]
           /\ \A c \in ToSet(servers) : shown[c] = "alive" \/ conn[c] \in {"none", "alive"}
           /\ \A c \in Clients : shown[c] = "alive" => conn[c] = "dead" /\ c \in ToSet(servers)
           /\ \A c \in Clients \ ToSet(servers) : shown[c] = "same"
<1>1. /\ TypeOK /\ NoneTwice /\ shown \in [Clients -> {"same", "alive", "dead"}]
      /\ Len(servers) \in Nat /\ DOMAIN servers = 1 .. Len(servers)
      /\ call.ok \subseteq ScanSteps /\ Judged = ScanSteps
  BY ServersLength DEF RInv, LInv, LocksTypeOK, HealthOK, At, ScanSteps
<1>2. /\ \A i \in ScanSteps : IF i \in call.ok THEN Connected(servers[i + 1])
                                               ELSE conn[servers[i + 1]] = "none"
      /\ \A c \in Clients :
            /\ shown[c] = "alive" <=> conn[c] = "dead" /\ \E i \in call.ok : servers[i + 1] = c
            /\ shown[c] = "dead" => \E i \in ScanSteps \ call.ok : servers[i + 1] = c
  BY <1>1 DEF RInv, HealthOK, At
<1>3. /\ \A i \in ScanSteps : servers[i + 1] \in Clients /\ servers[i + 1] \in ToSet(servers)
      /\ \A c \in ToSet(servers) : c \in Clients /\ \E i \in ScanSteps : servers[i + 1] = c
  <2>1. \A i \in ScanSteps : servers[i + 1] \in Clients /\ servers[i + 1] \in ToSet(servers)
    BY <1>1, ServersLength DEF ScanSteps
  <2>2. ASSUME NEW c \in ToSet(servers) PROVE \E i \in ScanSteps : servers[i + 1] = c
    <3>1. PICK j \in 1 .. Len(servers) : servers[j] = c
      BY <1>1 DEF ToSet
    <3>2. j - 1 \in ScanSteps /\ j - 1 + 1 = j
      BY <1>1 DEF ScanSteps
    <3> QED
      BY <3>1, <3>2
  <2> QED
    BY <2>1, <2>2
<1>4. \A i, j \in ScanSteps : servers[i + 1] = servers[j + 1] => i = j
  <2>1. ASSUME NEW i \in ScanSteps, NEW j \in ScanSteps, servers[i + 1] = servers[j + 1]
        PROVE  i = j
    <3>1. i + 1 \in DOMAIN servers /\ j + 1 \in DOMAIN servers /\ i \in Int /\ j \in Int
      BY <1>1 DEF ScanSteps
    <3>2. i + 1 = j + 1
      BY <1>1, <2>1, <3>1 DEF NoneTwice
    <3> QED
      BY <3>1, <3>2
  <2> QED
    BY <2>1
<1>5. ASSUME NEW i \in ScanSteps, i \in call.ok
      PROVE  LET c == servers[i + 1]
             IN  \/ conn[c] = "alive" /\ shown[c] = "same"
                 \/ conn[c] = "dead" /\ shown[c] = "alive"
  <2> DEFINE c == servers[i + 1]
  <2>1. c \in Clients /\ conn[c] \in {"alive", "dead"}
    BY <1>2, <1>3, <1>5 DEF Connected
  <2>2. shown[c] # "dead"
    <3>1. \A j \in ScanSteps \ call.ok : servers[j + 1] # c
      BY <1>4, <1>5
    <3> QED
      BY <1>2, <2>1, <3>1
  <2>3. shown[c] = "alive" <=> conn[c] = "dead"
    BY <1>2, <1>5, <2>1
  <2> QED
    BY <1>1, <2>1, <2>2, <2>3
<1>6. ASSUME NEW i \in ScanSteps, i \notin call.ok
      PROVE  LET c == servers[i + 1]
             IN  conn[c] = "none" /\ shown[c] \in {"same", "dead"}
  BY <1>1, <1>2, <1>3, <1>6
<1>7. \A i \in ScanSteps : Pool!Alive(i) <=> i \in call.ok
  BY <1>3, <1>5, <1>6 DEF Pool!Alive, connShown
<1>8. \A c \in Clients \ ToSet(servers) : shown[c] = "same"
  BY <1>1, <1>2, <1>3
<1>9. ASSUME NEW c \in Clients
      PROVE  Pool!Probed[c] = IF shown[c] = "alive" THEN "alive" ELSE conn[c]
  <2>1. Pool!ToSet(servers) = ToSet(servers)
    BY DEF Pool!ToSet, ToSet
  <2>2. Pool!Probed[c] = IF c \in ToSet(servers) /\ connShown[c] = "dead" THEN "none" ELSE connShown[c]
    BY <2>1 DEF Pool!Probed
  <2>3. connShown[c] = IF shown[c] = "same" THEN conn[c] ELSE shown[c]
    BY DEF connShown
  <2>4. CASE c \in ToSet(servers)
    <3>1. PICK i \in ScanSteps : servers[i + 1] = c
      BY <1>3, <2>4
    <3>2. CASE i \in call.ok
      BY <1>5, <2>2, <2>3, <3>1, <3>2
    <3>3. CASE i \notin call.ok
      BY <1>6, <2>2, <2>3, <2>4, <3>1, <3>3
    <3> QED
      BY <3>2, <3>3
  <2>5. CASE c \notin ToSet(servers)
    BY <1>8, <2>2, <2>3, <2>5
  <2> QED
    BY <2>4, <2>5
<1>10. \A c \in ToSet(servers) : shown[c] = "alive" \/ conn[c] \in {"none", "alive"}
  BY <1>3, <1>5, <1>6
<1>11. \A c \in Clients : shown[c] = "alive" => conn[c] = "dead" /\ c \in ToSet(servers)
  BY <1>1, <1>2, <1>3
<1> QED
  BY <1>7, <1>8, <1>9, <1>10, <1>11

(* The health check leaves the connections that showed a live peer, and    *)
(* the health of every client follows from them.                           *)
LEMMA HealthMaps ==
    ASSUME RInv, RInv', At({"probe", "redial"}), Judged = 0 .. Len(servers) - 1,
           LeaveHealth, NEW dialled \in SUBSET ToSet(servers),
           conn' = [c \in Clients |-> IF c \in dialled THEN "alive" ELSE conn[c]],
           healthy' = [c \in Clients |-> c \in dialled \/ healthy[c]],
           dialled # {} => call.ok = {}
    PROVE  /\ connShown' = [c \in Clients |-> IF c \in dialled THEN "alive" ELSE Pool!Probed[c]]
           /\ healthyShown' = [c \in Clients |-> IF c \in ToSet(servers)
                                                 THEN connShown'[c] = "alive" ELSE healthyShown[c]]
           /\ UNCHANGED <<phase, servers, index, targetFailures>>
           /\ phase # "startup" /\ servers # <<>>
<1>1. /\ \A c \in Clients : /\ shown'[c] = IF shown[c] = "alive" /\ conn'[c] = "dead"
                                           THEN "alive" ELSE "same"
                            /\ healthy'[c] <=> conn'[c] \in {"alive", "dead"}
                            /\ healthyShown'[c] = (shown'[c] # "same" \/ healthy'[c])
                            /\ healthyShown[c] = (shown[c] # "same" \/ healthy[c])
                            /\ connShown'[c] = IF shown'[c] = "same" THEN conn'[c] ELSE shown'[c]
                            /\ healthy[c] \in BOOLEAN /\ healthy'[c] \in BOOLEAN
  BY DEF RInv, HealthyIffConnected, Connected, LeaveHealth, Leave, connShown, healthyShown,
         LInv, LocksTypeOK, TypeOK
<1>2. /\ \A c \in Clients :
            Pool!Probed[c] = IF shown[c] = "alive" THEN "alive" ELSE conn[c]
      /\ \A c \in ToSet(servers) : shown[c] = "alive" \/ conn[c] \in {"none", "alive"}
      /\ \A c \in Clients : shown[c] = "alive" => conn[c] = "dead" /\ c \in ToSet(servers)
      /\ \A c \in Clients \ ToSet(servers) : shown[c] = "same"
  BY JudgedShows
<1>3. \A c \in Clients : c \in dialled => shown[c] # "alive"
  <2>1. ASSUME NEW c \in Clients, c \in dialled, shown[c] = "alive" PROVE FALSE
    <3>1. call.ok = {}
      BY <2>1
    <3> QED
      BY <2>1, <3>1 DEF RInv, HealthOK, At
  <2> QED
    BY <2>1
<1>4. ASSUME NEW c \in Clients
      PROVE  connShown'[c] = IF c \in dialled THEN "alive" ELSE Pool!Probed[c]
  <2>1. conn'[c] = IF c \in dialled THEN "alive" ELSE conn[c]
    OBVIOUS
  <2> QED
    BY <1>1, <1>2, <1>3, <2>1
<1>5. connShown' = [c \in Clients |-> IF c \in dialled THEN "alive" ELSE Pool!Probed[c]]
  BY <1>4 DEF connShown
<1>6. ASSUME NEW c \in Clients
      PROVE  healthyShown'[c] = IF c \in ToSet(servers) THEN connShown'[c] = "alive" ELSE healthyShown[c]
  <2>1. /\ conn'[c] = IF c \in dialled THEN "alive" ELSE conn[c]
        /\ healthy'[c] = (c \in dialled \/ healthy[c])
    OBVIOUS
  <2>2. CASE c \in ToSet(servers)
    BY <1>1, <1>2, <1>3, <2>1, <2>2
  <2>3. CASE c \notin ToSet(servers)
    BY <1>1, <1>2, <2>1, <2>3
  <2> QED
    BY <2>2, <2>3
<1>7. healthyShown' = [c \in Clients |-> IF c \in ToSet(servers)
                                         THEN connShown'[c] = "alive" ELSE healthyShown[c]]
  BY <1>6 DEF healthyShown
<1>8. UNCHANGED <<phase, servers, index, targetFailures>>
  BY DEF LeaveHealth
<1>9. phase # "startup" /\ servers # <<>>
  BY DEF At, RInv, Phased, LInv, Ranged
<1> QED
  BY <1>5, <1>7, <1>8, <1>9

LEMMA SameHealth ==
    ASSUME healthyShown' = [c \in Clients |-> IF c \in ToSet(servers)
                                              THEN connShown'[c] = "alive" ELSE healthyShown[c]],
           UNCHANGED <<phase, servers, index, targetFailures>>,
           phase # "startup", servers # <<>>,
           IF Strategy = "failover" THEN Pool!Reactivate
                                    ELSE Pool!KeepActive /\ connShown' = Pool!Probed
    PROVE  Pool!Next
<1>1. Pool!ToSet(servers) = ToSet(servers)
  BY DEF Pool!ToSet, ToSet
<1>2. healthyShown' = [c \in Clients |-> IF c \in Pool!ToSet(servers)
                                         THEN connShown'[c] = "alive" ELSE healthyShown[c]]
  BY <1>1
<1>3. Pool!RunHealthChecks
  BY <1>2 DEF Pool!RunHealthChecks
<1> QED
  BY <1>3 DEF Pool!HealthCheck, Pool!Next

LEMMA JudgeMaps == RInv /\ RInv' /\ Judge => Pool!Next
<1> SUFFICES ASSUME RInv, RInv', Judge PROVE Pool!Next
  OBVIOUS
<1>1. /\ LInv /\ TypeOK /\ call # NoCall /\ call \in Call /\ call.at = "probe" /\ call.step = Len(servers)
      /\ At({"probe", "redial"}) /\ Judged = 0 .. Len(servers) - 1
      /\ LeaveHealth /\ UNCHANGED <<conn, healthy>>
      /\ IF Strategy = "loadbalance" \/ (hasActive /\ activeIdx \in call.ok) THEN KeepActive
         ELSE call.ok # {} /\ Activate(Min(call.ok))
  BY DEF Judge, RInv, LInv, LocksTypeOK, At, Judged
<1>2. /\ call.ok \in SUBSET Nat /\ call.ok \subseteq ScanSteps
      /\ hasActive => activeIdx \in ScanSteps
      /\ Len(servers) \in Nat
  BY <1>1, ServersLength DEF LInv, Ranged, Call, TypeOK, ScanSteps
<1> DEFINE dialled == {}
<1>3. /\ conn' = [c \in Clients |-> IF c \in dialled THEN "alive" ELSE conn[c]]
      /\ healthy' = [c \in Clients |-> c \in dialled \/ healthy[c]]
      /\ dialled \in SUBSET ToSet(servers) /\ dialled = {}
  BY <1>1 DEF TypeOK
<1> HIDE DEF dialled
<1>4. /\ connShown' = [c \in Clients |-> IF c \in dialled THEN "alive" ELSE Pool!Probed[c]]
      /\ healthyShown' = [c \in Clients |-> IF c \in ToSet(servers)
                                            THEN connShown'[c] = "alive" ELSE healthyShown[c]]
      /\ UNCHANGED <<phase, servers, index, targetFailures>>
      /\ phase # "startup" /\ servers # <<>>
  BY <1>1, <1>3, HealthMaps
<1>5. connShown' = Pool!Probed
  BY <1>3, <1>4 DEF Pool!Probed
<1>6. Pool!ScanSteps = ScanSteps /\ \A i \in ScanSteps : Pool!Alive(i) <=> i \in call.ok
  BY <1>1, JudgedShows DEF Pool!ScanSteps, ScanSteps
<1>7. IF Strategy = "failover" THEN Pool!Reactivate
                               ELSE Pool!KeepActive /\ connShown' = Pool!Probed
  <2>1. CASE Strategy = "loadbalance"
    BY <1>1, <1>5, <2>1 DEF KeepActive, Pool!KeepActive
  <2>2. CASE Strategy = "failover" /\ hasActive /\ activeIdx \in call.ok
    BY <1>1, <1>2, <1>5, <1>6, <2>2 DEF KeepActive, Pool!KeepActive, Pool!Reactivate
  <2>3. CASE Strategy = "failover" /\ ~(hasActive /\ activeIdx \in call.ok)
    <3>1. call.ok # {} /\ Activate(Min(call.ok))
      BY <1>1, <2>3
    <3>2. Min(call.ok) \in call.ok /\ \A j \in call.ok : Min(call.ok) <= j
      BY <1>2, <3>1, MinOf
    <3>3. ~(hasActive /\ Pool!Alive(activeIdx))
      BY <1>2, <1>6, <2>3
    <3>4. \E i \in Pool!ScanSteps :
             /\ Pool!Alive(i) /\ \A j \in Pool!ScanSteps : Pool!Alive(j) => i <= j
             /\ Pool!Activate(i) /\ connShown' = Pool!Probed
      <4> DEFINE i == Min(call.ok)
      <4>1. i \in Pool!ScanSteps /\ i \in call.ok /\ \A j \in call.ok : i <= j
        BY <1>2, <1>6, <3>2
      <4>2. Pool!Activate(i)
        BY <3>1 DEF Activate, Pool!Activate
      <4> HIDE DEF i
      <4> QED
        BY <1>5, <1>6, <4>1, <4>2
    <3> QED
      BY <2>3, <3>3, <3>4 DEF Pool!Reactivate
  <2> QED
    BY <2>1, <2>2, <2>3, PoolAssumption
<1> QED
  BY <1>4, <1>7, SameHealth

(* No server answered: the health check dials them in turn.                *)
LEMMA RedialMaps == RInv /\ RInv' /\ (RedialSucceeds \/ NoneAlive) => Pool!Next
<1> SUFFICES ASSUME RInv, RInv', RedialSucceeds \/ NoneAlive PROVE Pool!Next
  OBVIOUS
<1>1. /\ LInv /\ TypeOK /\ call # NoCall /\ call \in Call /\ call.at = "redial" /\ call.ok = {}
      /\ At({"probe", "redial"}) /\ Judged = 0 .. Len(servers) - 1
      /\ LeaveHealth /\ Strategy = "failover" /\ servers # <<>> /\ HealthyIffConnected
      /\ Len(servers) \in Nat /\ call.step \in Nat
  BY ServersLength DEF RedialSucceeds, NoneAlive, RInv, LInv, LocksTypeOK, Ranged, At, Judged,
     HealthOK, Call
<1>2. /\ Pool!ScanSteps = ScanSteps /\ \A i \in ScanSteps : ~Pool!Alive(i)
      /\ hasActive => activeIdx \in ScanSteps
  BY <1>1, JudgedShows DEF Pool!ScanSteps, ScanSteps, LInv, Ranged, TypeOK
<1>3. CASE NoneAlive
  <2>1. /\ conn' = [c \in Clients |-> IF c \in {} THEN "alive" ELSE conn[c]]
        /\ healthy' = [c \in Clients |-> c \in {} \/ healthy[c]]
        /\ Deactivate
    BY <1>1, <1>3 DEF NoneAlive, TypeOK
  <2>2. /\ connShown' = [c \in Clients |-> IF c \in {} THEN "alive" ELSE Pool!Probed[c]]
        /\ healthyShown' = [c \in Clients |-> IF c \in ToSet(servers)
                                              THEN connShown'[c] = "alive" ELSE healthyShown[c]]
        /\ UNCHANGED <<phase, servers, index, targetFailures>>
        /\ phase # "startup" /\ servers # <<>>
    BY <1>1, <2>1, HealthMaps
  <2>3. connShown' = Pool!Probed
    BY <2>2 DEF Pool!Probed
  <2>4. Pool!Reactivate
    BY <1>2, <2>1, <2>3 DEF Deactivate, Pool!Deactivate, Pool!Reactivate
  <2> QED
    BY <1>1, <2>2, <2>4, SameHealth
<1>4. CASE RedialSucceeds
  <2>1. /\ Slot \in ScanSteps /\ Current = servers[Slot + 1] /\ Current \in ToSet(servers)
        /\ Current \in Clients /\ Dialed(Current) /\ Activate(Slot)
        /\ conn[Current] = "none" /\ ~healthy[Current]
    <3>1. call.step < Len(servers)
      BY <1>4 DEF RedialSucceeds
    <3>2. Slot = call.step /\ Slot \in ScanSteps /\ Current \in Clients /\ Current \in ToSet(servers)
      BY <1>1, <3>1, CurrentInPool DEF Slot, At, ScanSteps
    <3>3. conn[Current] = "none"
      BY <1>1, <3>2 DEF RInv, HealthOK, At, Current, ScanSteps
    <3> QED
      BY <1>1, <1>4, <3>2, <3>3 DEF RedialSucceeds, Current, HealthyIffConnected, Connected
  <2> DEFINE dialled == {Current}
  <2>2. /\ conn' = [c \in Clients |-> IF c \in dialled THEN "alive" ELSE conn[c]]
        /\ healthy' = [c \in Clients |-> c \in dialled \/ healthy[c]]
    BY <1>1, <2>1 DEF Dialed, Redials, Connected, TypeOK
  <2>3. dialled \in SUBSET ToSet(servers)
    BY <2>1
  <2>4. \A c : c \in dialled <=> c = Current
    OBVIOUS
  <2> HIDE DEF dialled
  <2>5. /\ connShown' = [c \in Clients |-> IF c \in dialled THEN "alive" ELSE Pool!Probed[c]]
        /\ healthyShown' = [c \in Clients |-> IF c \in ToSet(servers)
                                              THEN connShown'[c] = "alive" ELSE healthyShown[c]]
        /\ UNCHANGED <<phase, servers, index, targetFailures>>
        /\ phase # "startup" /\ servers # <<>>
    BY <1>1, <2>2, <2>3, HealthMaps
  <2>6. connShown' = [Pool!Probed EXCEPT ![servers[Slot + 1]] = "alive"]
    BY <2>1, <2>4, <2>5 DEF Pool!Probed
  <2>7. Pool!Reactivate
    <3>1. \E i \in Pool!ScanSteps : /\ Pool!Activate(i)
                                    /\ connShown' = [Pool!Probed EXCEPT ![servers[i + 1]] = "alive"]
      BY <1>2, <2>1, <2>6 DEF Activate, Pool!Activate
    <3> QED
      BY <1>2, <3>1 DEF Pool!Reactivate
  <2> QED
    BY <1>1, <2>5, <2>7, SameHealth
<1> QED
  BY <1>3, <1>4

(* A shutdown has cut every connection when it ends.                       *)
LEMMA CloseDoneMaps == RInv /\ RInv' /\ CloseDone => Pool!Next
<1> SUFFICES ASSUME RInv, RInv', CloseDone PROVE Pool!Next
  OBVIOUS
<1>1. /\ TypeOK /\ call # NoCall /\ call.at = "close" /\ call.step = Len(servers)
      /\ HealthyIffConnected /\ Len(servers) \in Nat /\ DOMAIN servers = 1 .. Len(servers)
      /\ shown \in [Clients -> {"same", "alive", "dead"}]
      /\ \A i \in 0 .. Len(servers) - 1 : conn[servers[i + 1]] = "none"
      /\ \A c \in Clients : shown[c] # "same" => \E i \in 0 .. Len(servers) - 1 : servers[i + 1] = c
      /\ phase' = "closed" /\ servers' = <<>> /\ Deactivate
      /\ UNCHANGED <<index, conn, healthy, targetFailures>> /\ Leave("shutdown", "idle")
  BY ServersLength DEF CloseDone, At, RInv, CloseOK, LInv, LocksTypeOK
<1>2. phase = "running"
  BY <1>1 DEF Leave, Goto, RInv, Phased
<1>3. \A c \in ToSet(servers) : conn[c] = "none"
  <2>1. ASSUME NEW c \in ToSet(servers) PROVE conn[c] = "none"
    <3>1. PICK j \in 1 .. Len(servers) : servers[j] = c
      BY <1>1 DEF ToSet
    <3>2. j - 1 \in 0 .. Len(servers) - 1 /\ j - 1 + 1 = j
      BY <1>1
    <3> QED
      BY <1>1, <3>1, <3>2
  <2> QED
    BY <2>1
<1>4. \A c \in Clients : shown[c] # "same" => c \in ToSet(servers)
  BY <1>1, ServersLength
<1>5. \A c \in Clients : shown'[c] = "same"
  BY <1>1, <1>3, <1>4 DEF Leave
<1>6. connShown' = [c \in Clients |-> IF c \in ToSet(servers) THEN "none" ELSE connShown[c]]
  BY <1>1, <1>3, <1>4, <1>5 DEF connShown
<1>7. healthyShown' = [c \in Clients |-> c \notin ToSet(servers) /\ healthyShown[c]]
  <2>1. ASSUME NEW c \in Clients
        PROVE  healthyShown'[c] = (c \notin ToSet(servers) /\ healthyShown[c])
    <3>1. /\ healthyShown'[c] = healthy[c]
          /\ healthyShown[c] = (shown[c] # "same" \/ healthy[c])
          /\ healthy[c] \in BOOLEAN
      BY <1>1, <1>5 DEF healthyShown, TypeOK
    <3>2. CASE c \in ToSet(servers)
      BY <1>1, <1>3, <3>1, <3>2 DEF HealthyIffConnected, Connected
    <3>3. CASE c \notin ToSet(servers)
      BY <1>4, <3>1, <3>3
    <3> QED
      BY <3>2, <3>3
  <2> QED
    BY <2>1 DEF healthyShown
<1>8. Pool!ToSet(servers) = ToSet(servers)
  BY DEF Pool!ToSet, ToSet
<1>9. Pool!Closed(Pool!ToSet(servers))
  BY <1>6, <1>7, <1>8 DEF Pool!Closed
<1>10. Pool!CloseAll
  BY <1>1, <1>2, <1>9 DEF Pool!CloseAll, Deactivate, Pool!Deactivate
<1> QED
  BY <1>10 DEF Pool!Next

-----------------------------------------------------------------------------

LEMMA InitMaps == LocksInit => Pool!Init
<1> SUFFICES ASSUME LocksInit PROVE Pool!Init
  OBVIOUS
<1>1. /\ connShown = [c \in Clients |-> "absent"]
      /\ healthyShown = [c \in Clients |-> FALSE]
  BY DEF LocksInit, Init, connShown, healthyShown
<1> QED
  BY <1>1 DEF LocksInit, Init, Pool!Init, Addrs, Pool!Addrs, NoFailure, Pool!NoFailure

LEMMA StepMaps == RInv /\ RInv' /\ [LocksNext]_vars => [Pool!Next]_Pool!poolVars
<1> SUFFICES ASSUME RInv, RInv', [LocksNext]_vars PROVE [Pool!Next]_Pool!poolVars
  OBVIOUS
<1>1. ASSUME NEW p \in Procs, Want(p) \/ Enters(p) PROVE UNCHANGED Pool!poolVars
  BY <1>1, MovesMap DEF Want, Enters, EnterEmpty, EnterGet, EnterHealth, EnterClose, Enter
<1>2. ASSUME NEW p \in Requesters, ReadClient(p) PROVE UNCHANGED Pool!poolVars
  BY <1>2, MovesMap DEF ReadClient
<1>3. CASE Skip \/ StartDial \/ Probe \/ StartRedial \/ DialFails \/ RedialFails
  BY <1>3, MovesMap DEF Skip, StartDial, Probe, StartRedial, DialFails, RedialFails
<1>4. CASE Works \/ NetworkReturns
  BY <1>3, <1>4, ReturnMaps, NoServerMaps, JudgeMaps, RedialMaps, CloseDoneMaps, KeepaliveMaps,
     CloseNextMaps DEF Works, NetworkReturns
<1>5. CASE UNCHANGED vars
  BY <1>5, MovesMap DEF vars
<1> QED
  BY <1>1, <1>2, <1>4, <1>5, SettleMaps, BriefMaps, EnvironsMaps DEF LocksNext

(* When the loop of a selection ends without a server, it has passed the   *)
(* whole scan.                                                             *)
LEMMA EndOfScan == RInv => NoneLeftOut
<1> SUFFICES ASSUME RInv, At({"scan"}), call.step = Len(servers), ~ScanWraps,
                    NEW c \in ToSet(servers), Eligible(c, call.t, call.exclude)
             PROVE  ~Connected(c) /\ AddrOf[c] \in call.seen
  BY DEF NoneLeftOut
<1>1. TypeOK /\ servers # <<>> /\ Len(servers) \in Nat
  BY LenProperties DEF RInv, LInv, LocksTypeOK, TypeOK, ToSet
<1>2. call.at = "scan" /\ Passed = Len(servers)
  BY <1>1 DEF At, Passed
<1>3. /\ Passes(call.t, call.exclude, Len(servers))
      /\ call.seen = SeenAddrs(call.exclude, Len(servers) - 1)
  BY <1>2 DEF RInv, SelectionOK, At
<1>4. PICK j \in ScanSteps : Scanned(j) = c
  BY <1>1, TypeOKCovers DEF ScanCovers
<1>5. j < Len(servers) /\ j <= Len(servers) - 1
  BY <1>1, <1>4 DEF ScanSteps
<1>6. ~Connected(c)
  BY <1>3, <1>4, <1>5 DEF Passes
<1>7. AddrOf[c] \in call.seen
  BY <1>3, <1>4, <1>5 DEF SeenAddrs, Eligible
<1> QED
  BY <1>6, <1>7

(* A selection gives up only when no server of the pool would have done:   *)
(* the loops leave no eligible one out (strategy.go:14-60,88-114).         *)
THEOREM NobodyIsLeftOut == LocksSpec => []NoneLeftOut
<1> QED
  BY RInvariance, EndOfScan, PTL

(* A client is healthy exactly when it is connected at every moment of a   *)
(* call too: a dial, a keepalive that fails and a shutdown set both under  *)
(* one hold of c.mu (lifecycle.go), and a peer that dies changes neither.  *)
THEOREM HealthyInCalls == LocksSpec => []HealthyIffConnected
<1>1. RInv => HealthyIffConnected
  BY DEF RInv
<1> QED
  BY RInvariance, <1>1, PTL

(* The loops under rr.mu implement the calls of RoundRobin: every step of  *)
(* GetForTarget, RunHealthChecks and CloseAll is either the one in which   *)
(* the whole call happens or shows nothing, whatever connections die and   *)
(* whoever reads them in between.                                          *)
THEOREM CallsAreAtomic == LocksSpec => AtomicCalls
<1>1. RInv /\ RInv' /\ [LocksNext]_vars => [Pool!Next]_Pool!poolVars
  BY StepMaps
<1> QED
  BY <1>1, InitMaps, RInvariance, PTL DEF LocksSpec, AtomicCalls, Pool!Spec
================================================================================
