-------------------------- MODULE RoundRobinProofs --------------------------
(***************************************************************************)
(* The invariants of RoundRobin, proved for every number of servers, every *)
(* target and every value of the limits.                                   *)
(***************************************************************************)
EXTENDS RoundRobin, TLAPS, FiniteSetTheorems

(* A sequence of n values has n different ones at most.                    *)
LEMMA ValuesCounted ==
    ASSUME NEW n \in Nat, NEW f, f = [i \in 1 .. n |-> f[i]]
    PROVE  /\ IsFiniteSet({f[i] : i \in 1 .. n})
           /\ Cardinality({f[i] : i \in 1 .. n}) <= n
<1>1. f \in Surjection(1 .. n, {f[i] : i \in 1 .. n})
  BY DEF Surjection
<1>2. /\ IsFiniteSet(1 .. n)
      /\ Cardinality(1 .. n) = IF 1 > n THEN 0 ELSE n - 1 + 1
  BY FS_Interval
<1>3. (IF 1 > n THEN 0 ELSE n - 1 + 1) = n
  OBVIOUS
<1>4. /\ IsFiniteSet({f[i] : i \in 1 .. n})
      /\ Cardinality({f[i] : i \in 1 .. n}) <= Cardinality(1 .. n)
  BY <1>1, <1>2, FS_Surjection
<1> QED
  BY <1>2, <1>3, <1>4

LOCAL INSTANCE SequenceTheorems

-----------------------------------------------------------------------------
(* Lemmas about the operators of the pool *)

(* What is left of a sequence without its i-th element.                    *)
LEMMA RemoveAtProperties ==
    ASSUME NEW S, NEW s \in Seq(S), NEW i \in 1 .. Len(s)
    PROVE  /\ RemoveAt(s, i) \in Seq(S)
           /\ Len(RemoveAt(s, i)) = Len(s) - 1
           /\ \A j \in 1 .. Len(s) - 1 :
                 RemoveAt(s, i)[j] = s[IF j < i THEN j ELSE j + 1]
<1> DEFINE l == SubSeq(s, 1, i - 1)
           r == SubSeq(s, i + 1, Len(s))
<1>1. /\ Len(s) \in Nat
      /\ \A j \in 1 .. Len(s) : s[j] \in S
  BY LenProperties, ElementOfSeq
<1>2. /\ l \in Seq(S) /\ Len(l) = i - 1
      /\ \A j \in 1 .. i - 1 : l[j] = s[j]
  BY <1>1, SubSeqProperties
<1>3. /\ r \in Seq(S) /\ Len(r) = Len(s) - i
      /\ \A j \in 1 .. Len(s) - i : r[j] = s[j + i]
  BY <1>1, SubSeqProperties
<1> HIDE DEF l, r
<1>4. /\ l \o r \in Seq(S)
      /\ Len(l \o r) = Len(l) + Len(r)
      /\ \A j \in 1 .. Len(l) + Len(r) :
            (l \o r)[j] = IF j <= Len(l) THEN l[j] ELSE r[j - Len(l)]
  BY <1>2, <1>3, ConcatProperties
<1>5. ASSUME NEW j \in 1 .. Len(s) - 1
      PROVE  (l \o r)[j] = s[IF j < i THEN j ELSE j + 1]
  <2>1. CASE j < i
    <3>1. (l \o r)[j] = l[j]
      BY <1>1, <1>2, <1>3, <1>4, <2>1
    <3> QED
      BY <1>1, <1>2, <2>1, <3>1
  <2>2. CASE ~(j < i)
    <3>1. /\ (l \o r)[j] = r[j - (i - 1)]
          /\ j - (i - 1) \in 1 .. Len(s) - i
      BY <1>1, <1>2, <1>3, <1>4, <2>2
    <3>2. r[j - (i - 1)] = s[(j - (i - 1)) + i]
      BY <1>3, <3>1
    <3>3. (j - (i - 1)) + i = j + 1
      BY <1>1
    <3> QED
      BY <2>2, <3>1, <3>2, <3>3
  <2> QED
    BY <2>1, <2>2
<1>6. Len(l \o r) = Len(s) - 1
  BY <1>1, <1>2, <1>3, <1>4
<1> QED
  BY <1>4, <1>5, <1>6 DEF RemoveAt, l, r

(* A remainder is a slot.                                                  *)
LEMMA ModRange ==
    ASSUME NEW a \in Nat, NEW n \in Nat \ {0}
    PROVE  a % n \in 0 .. n - 1
  OBVIOUS

(* Quotient and remainder.                                                 *)
LEMMA DivMod ==
    ASSUME NEW a \in Nat, NEW n \in Nat \ {0}
    PROVE  a \div n \in Nat /\ a % n \in 0 .. n - 1 /\ a = (a \div n) * n + (a % n)
  OBVIOUS

(* Quotient and remainder are determined by what they are for.            *)
LEMMA ModUnique ==
    ASSUME NEW n \in Nat \ {0}, NEW q \in Nat, NEW r \in 0 .. n - 1
    PROVE  (q * n + r) % n = r
<1> DEFINE a == q * n + r
           p == a \div n
           v == a % n
<1>1. a \in Nat /\ p \in Nat /\ v \in 0 .. n - 1 /\ a = p * n + v
  <2>1. q * n \in Nat
    OBVIOUS
  <2>2. a \in Nat
    BY <2>1
  <2> HIDE DEF a
  <2> QED
    BY <2>2, DivMod
<1>2. a = q * n + r
  OBVIOUS
<1> HIDE DEF a, p, v
<1>3. (p - q) * n = r - v
  BY <1>1, <1>2
<1>4. p - q >= 1 => (p - q) * n >= n
  BY <1>1
<1>5. p - q <= -1 => (p - q) * n <= -n
  BY <1>1
<1>6. p = q
  BY <1>1, <1>3, <1>4, <1>5
<1> QED
  BY <1>1, <1>3, <1>6 DEF v, a

(* A remainder modulo a multiple of n loses nothing modulo n.              *)
LEMMA ModOfMultiple ==
    ASSUME NEW x \in Nat, NEW m \in Nat \ {0}, NEW n \in Nat \ {0}, m % n = 0
    PROVE  (x % m) % n = x % n
<1> DEFINE y == x % m
           p == m \div n
           q == x \div m
           u == y \div n
           v == y % n
<1>1. p \in Nat /\ m = p * n
  BY DivMod
<1>2. q \in Nat /\ y \in Nat /\ x = q * m + y
  BY DivMod
<1>3. u \in Nat /\ v \in 0 .. n - 1 /\ y = u * n + v
  <2> HIDE DEF y
  <2> QED
    BY <1>2, DivMod
<1> HIDE DEF p, q, u, v, y
<1> DEFINE w == q * p
<1>4. w \in Nat /\ q * m = w * n
  BY <1>1, <1>2
<1> HIDE DEF w
<1>5. (w + u) * n = w * n + u * n
  BY <1>3, <1>4
<1>6. x = (w + u) * n + v /\ w + u \in Nat
  BY <1>2, <1>3, <1>4, <1>5
<1>7. ((w + u) * n + v) % n = v
  BY <1>3, <1>6, ModUnique
<1> QED
  BY <1>6, <1>7 DEF v, y

(* Counting n steps from anywhere meets every remainder.                   *)
LEMMA Rotation ==
    ASSUME NEW s \in Nat, NEW n \in Nat \ {0}, NEW i \in 0 .. n - 1
    PROVE  \E k \in 0 .. n - 1 : (s + k) % n = i
<1> DEFINE q == s \div n
           r == s % n
<1>1. q \in Nat /\ r \in 0 .. n - 1 /\ s = q * n + r
  BY DivMod
<1> HIDE DEF q, r
<1>2. CASE r <= i
  <2>1. i - r \in 0 .. n - 1 /\ s + (i - r) = q * n + i
    BY <1>1, <1>2
  <2>2. (q * n + i) % n = i
    BY <1>1, ModUnique
  <2> QED
    BY <2>1, <2>2
<1>3. CASE r > i
  <2>1. i - r + n \in 0 .. n - 1 /\ s + (i - r + n) = (q + 1) * n + i
    BY <1>1, <1>3
  <2>2. ((q + 1) * n + i) % n = i
    BY <1>1, ModUnique
  <2> QED
    BY <2>1, <2>2
<1> QED
  BY <1>1, <1>2, <1>3

(* Every step of a scan looks at a server of the pool.                     *)
LEMMA ScanSlotInRange ==
    ASSUME TypeOK, NEW k \in ScanSteps
    PROVE  /\ ScanSlot(k) \in 0 .. Len(servers) - 1
           /\ ScanSlot(k) + 1 \in DOMAIN servers
           /\ Scanned(k) \in Clients
           /\ Scanned(k) \in ToSet(servers)
<1>1. /\ Len(servers) \in Nat \ {0}
      /\ DOMAIN servers = 1 .. Len(servers)
      /\ k \in Nat
  BY LenProperties DEF TypeOK, ScanSteps
<1>2. IndexSize \in Nat \ {0} /\ index \in Nat /\ activeIdx \in Nat
  BY PoolAssumption DEF TypeOK
<1>3. /\ index + k \in Nat /\ activeIdx + k \in Nat
      /\ (index + k) % IndexSize \in Nat
  BY <1>1, <1>2, ModRange
<1>4. ScanSlot(k) \in 0 .. Len(servers) - 1
  <2>1. ((index + k) % IndexSize) % Len(servers) \in 0 .. Len(servers) - 1
    BY <1>1, <1>3, ModRange
  <2>2. (activeIdx + k) % Len(servers) \in 0 .. Len(servers) - 1
    BY <1>1, <1>3, ModRange
  <2>3. (index + k) % Len(servers) \in 0 .. Len(servers) - 1
    BY <1>1, <1>3, ModRange
  <2> QED
    BY <2>1, <2>2, <2>3 DEF ScanSlot
<1>5. ScanSlot(k) + 1 \in DOMAIN servers
  BY <1>1, <1>4
<1> QED
  BY <1>4, <1>5, <1>1, ElementOfSeq DEF Scanned, TypeOK, ToSet

(* A scan that does not wrap around meets every slot.                      *)
LEMMA ScanMeets ==
    ASSUME TypeOK, servers # <<>>, ~ScanWraps, NEW i \in 0 .. Len(servers) - 1
    PROVE  \E k \in ScanSteps : ScanSlot(k) = i
<1> DEFINE n == Len(servers)
<1>1. n \in Nat \ {0} /\ ScanSteps = 0 .. n - 1
  BY EmptySeq, LenProperties DEF TypeOK, ScanSteps
<1>2. /\ IndexSize \in Nat \ {0}
      /\ index \in Nat /\ index < IndexSize
      /\ activeIdx \in Nat
  BY PoolAssumption DEF TypeOK
<1>3. \A s \in Nat : \E k \in 0 .. n - 1 : (s + k) % n = i
  <2> TAKE s \in Nat
  <2> QED
    BY <1>1, Rotation
<1> HIDE DEF n
<1>4. CASE Strategy = "loadbalance"
  <2>1. PICK k \in 0 .. n - 1 : (index + k) % n = i
    BY <1>2, <1>3
  <2>2. index + k \in Nat
    BY <1>1, <1>2
  <2>3. ((index + k) % IndexSize) % n = (index + k) % n
    <3>1. CASE IndexSize % n = 0
      BY <1>1, <1>2, <2>2, <3>1, ModOfMultiple
    <3>2. CASE index + n <= IndexSize
      <4>1. index + k \in 0 .. IndexSize - 1
        BY <1>1, <1>2, <3>2
      <4>2. (0 * IndexSize + (index + k)) % IndexSize = index + k
        BY <1>2, <4>1, ModUnique
      <4>3. 0 * IndexSize + (index + k) = index + k
        BY <1>2, <4>1
      <4> QED
        BY <4>2, <4>3
    <3> QED
      BY <1>1, <1>2, <1>4, <3>1, <3>2 DEF ScanWraps, n
  <2> QED
    BY <1>1, <1>4, <2>1, <2>3 DEF ScanSlot, n
<1>5. CASE Strategy # "loadbalance"
  <2> DEFINE s == IF hasActive THEN activeIdx ELSE index
  <2>1. s \in Nat
    BY <1>2
  <2>2. \A k : ScanSlot(k) = (s + k) % n
    BY <1>5 DEF ScanSlot, n
  <2> HIDE DEF s
  <2>3. PICK k \in 0 .. n - 1 : (s + k) % n = i
    BY <2>1, <1>3
  <2> QED
    BY <1>1, <2>2, <2>3
<1> QED
  BY <1>4, <1>5

(* Hence it looks at every server of the pool.                             *)
LEMMA TypeOKCovers == TypeOK => ScanCovers
<1> SUFFICES ASSUME TypeOK, servers # <<>>, ~ScanWraps
             PROVE  {Scanned(k) : k \in ScanSteps} = ToSet(servers)
  BY DEF ScanCovers
<1>1. DOMAIN servers = 1 .. Len(servers) /\ Len(servers) \in Nat
  BY LenProperties DEF TypeOK
<1>2. \A k \in ScanSteps : Scanned(k) \in ToSet(servers)
  BY ScanSlotInRange
<1>3. ASSUME NEW j \in DOMAIN servers
      PROVE  \E k \in ScanSteps : Scanned(k) = servers[j]
  <2>1. j - 1 \in 0 .. Len(servers) - 1 /\ (j - 1) + 1 = j
    BY <1>1
  <2>2. PICK k \in ScanSteps : ScanSlot(k) = j - 1
    BY <2>1, ScanMeets
  <2> QED
    BY <2>1, <2>2 DEF Scanned
<1> QED
  BY <1>2, <1>3 DEF ToSet

(* The clients of the pool, and those of them with a connection, are       *)
(* finitely many.                                                          *)
LEMMA PoolFinite ==
    ASSUME TypeOK
    PROVE  /\ ToSet(servers) \subseteq Clients
           /\ ConnectedClients \subseteq Clients
           /\ IsFiniteSet(ConnectedClients)
           /\ ConnectedCount \in Nat
<1>1. ToSet(servers) \subseteq Clients
  BY LenProperties, ElementOfSeq DEF TypeOK, ToSet
<1>2. ConnectedClients \subseteq Clients
  BY <1>1 DEF ConnectedClients
<1>3. IsFiniteSet(ConnectedClients)
  BY <1>2, PoolAssumption, FS_Subset
<1> QED
  BY <1>1, <1>2, <1>3, FS_CardinalityType DEF ConnectedCount

(* Closing connections or dropping servers never raises the count.         *)
LEMMA CountShrinks ==
    ASSUME TypeOK, ConnectedClients' \subseteq ConnectedClients
    PROVE  ConnectedCount' \in Nat /\ ConnectedCount' <= ConnectedCount
  BY PoolFinite, FS_Subset, FS_CardinalityType DEF ConnectedCount

(* One more connected client raises it by one at most.                     *)
LEMMA CountGrows ==
    ASSUME TypeOK, NEW c, ConnectedClients' \subseteq ConnectedClients \cup {c}
    PROVE  ConnectedCount' \in Nat /\ ConnectedCount' <= ConnectedCount + 1
<1> DEFINE more == ConnectedClients \cup {c}
<1>1. /\ IsFiniteSet(more)
      /\ Cardinality(more) <= Cardinality(ConnectedClients) + 1
      /\ Cardinality(more) \in Nat
      /\ ConnectedCount \in Nat
  BY PoolFinite, FS_AddElement, FS_CardinalityType DEF ConnectedCount
<1>2. ConnectedClients' \in SUBSET more
  OBVIOUS
<1>3. IsFiniteSet(ConnectedClients') /\ Cardinality(ConnectedClients') <= Cardinality(more)
  BY <1>1, <1>2, FS_Subset
<1>4. Cardinality(ConnectedClients') \in Nat
  BY <1>3, FS_CardinalityType
<1> HIDE DEF more
<1> QED
  BY <1>1, <1>3, <1>4 DEF ConnectedCount

-----------------------------------------------------------------------------
(* The inductive invariant *)

(* TypeOK alone is not inductive with the properties: a removal keeps the  *)
(* active server only because no client is in the pool twice, and a dial   *)
(* keeps the pool closed because it only reaches servers of the pool.      *)
IInv ==
    /\ TypeOK
    /\ NoneTwice
    /\ OrphansClosed
    /\ HealthyIffConnected
    /\ ActiveConnected
    /\ MaxActiveBound

(* The steps that only touch the table of target failures keep it.         *)
LEMMA FailuresOnly ==
    ASSUME IInv, TypeOK',
           UNCHANGED <<servers, hasActive, activeIdx, conn, healthy>>
    PROVE  IInv'
<1>1. ConnectedClients' = ConnectedClients
  BY DEF ConnectedClients, Connected
<1>2. MaxActiveBound'
  BY <1>1 DEF IInv, MaxActiveBound, ConnectedCount
<1> QED
  BY <1>2 DEF IInv, NoneTwice, OrphansClosed, HealthyIffConnected, ActiveConnected,
              Connected

LEMMA InitIInv == Init => IInv
<1> SUFFICES ASSUME Init PROVE IInv
  OBVIOUS
<1>1. TypeOK
  <2>1. NoFailure \in Failure
    BY PoolAssumption DEF Failure, NoFailure
  <2>2. servers \in Seq(Clients) /\ index \in 0 .. IndexSize - 1
    BY PoolAssumption, EmptySeq DEF Init
  <2> QED
    BY <2>1, <2>2 DEF Init, TypeOK
<1>2. ToSet(servers) = {} /\ DOMAIN servers = {} /\ ConnectedClients = {}
  BY DEF Init, ToSet, ConnectedClients
<1>3. MaxActiveBound
  BY <1>2, PoolAssumption, FS_EmptySet DEF MaxActiveBound, ConnectedCount
<1> QED
  BY <1>1, <1>2, <1>3 DEF Init, IInv, NoneTwice, OrphansClosed, HealthyIffConnected,
                          ActiveConnected, Connected

LEMMA ConnectServerIInv ==
    ASSUME IInv, NEW c \in Clients, NEW outcome \in {"connected", "failed", "lazy"},
           ConnectServer(c, outcome)
    PROVE  IInv'
<1> USE DEF IInv
<1>1. TypeOK'
  BY AppendProperties DEF ConnectServer, TypeOK
<1>2. /\ servers' \in Seq(Clients)
      /\ Len(servers) \in Nat
      /\ DOMAIN servers = 1 .. Len(servers)
      /\ DOMAIN servers' = 1 .. Len(servers) + 1
      /\ \A i \in 1 .. Len(servers) : servers'[i] = servers[i]
      /\ servers'[Len(servers) + 1] = c
      /\ Len(servers') = Len(servers) + 1
  BY AppendProperties, LenProperties DEF ConnectServer, TypeOK
<1>3. \A i \in DOMAIN servers : servers[i] # c /\ servers[i] \in Clients
  BY ElementOfSeq, <1>2 DEF ConnectServer, NoneTwice, TypeOK
<1>4. /\ conn'[c] # "absent"
      /\ Connected(c)' <=> outcome = "connected"
      /\ healthy'[c] <=> outcome = "connected"
      /\ \A d \in Clients \ {c} : conn'[d] = conn[d] /\ healthy'[d] = healthy[d]
  BY DEF ConnectServer, TypeOK, Connected
<1>5. NoneTwice'
  BY <1>2, <1>3, <1>4 DEF NoneTwice
<1>6. ToSet(servers') = ToSet(servers) \cup {c}
  BY <1>2 DEF ToSet
<1>7. OrphansClosed'
  BY <1>4, <1>6 DEF OrphansClosed, Connected
<1>8. HealthyIffConnected'
  BY <1>4 DEF HealthyIffConnected, Connected
<1>9. ActiveConnected'
  BY <1>2, <1>3, <1>4 DEF ActiveConnected, ConnectServer, Connected, TypeOK
<1>10. MaxActiveBound'
  <2>1. CASE outcome = "connected"
    <3>1. ConnectedClients' \subseteq ConnectedClients \cup {c}
      BY <1>3, <1>4, <1>6, PoolFinite DEF ConnectedClients, Connected
    <3>2. ~(ConnectedCount >= EagerLimit)
      BY <2>1 DEF ConnectServer
    <3> QED
      BY <3>1, <3>2, CountGrows, PoolFinite, <1>1, PoolAssumption
      DEF MaxActiveBound, EagerLimit
  <2>2. CASE outcome # "connected"
    <3>1. ConnectedClients' \subseteq ConnectedClients
      BY <1>4, <1>6, <2>2, PoolFinite DEF ConnectedClients, Connected
    <3> QED
      BY <3>1, CountShrinks, PoolFinite, <1>1, PoolAssumption DEF MaxActiveBound
  <2> QED
    BY <2>1, <2>2
<1> QED
  BY <1>1, <1>5, <1>7, <1>8, <1>9, <1>10

LEMMA StartIInv == IInv /\ Start => IInv'
<1> SUFFICES ASSUME IInv, Start PROVE IInv'
  OBVIOUS
<1>1. TypeOK'
  BY DEF IInv, Start, TypeOK
<1> QED
  BY <1>1, FailuresOnly DEF Start

LEMMA FailureOperators ==
    ASSUME TypeOK
    PROVE  /\ NoFailure \in Failure
           /\ \A f \in Failure : Counted(f) \in Failure
           /\ \A f \in Failure : [f EXCEPT !.until = "past"] \in Failure
<1>1. Threshold \in Nat \ {0}
  BY PoolAssumption
<1>2. ASSUME NEW f \in Failure PROVE Counted(f) \in Failure
  <2>1. f.count \in 0 .. Threshold /\ f.until \in {"zero", "future", "past"}
    BY <1>2 DEF Failure
  <2>2. (IF f.count < Threshold THEN f.count + 1 ELSE Threshold) \in 0 .. Threshold
    BY <1>1, <2>1
  <2> QED
    BY <2>1, <2>2 DEF Counted, Failure
<1>3. NoFailure \in Failure
  BY <1>1 DEF NoFailure, Failure
<1> QED
  BY <1>2, <1>3 DEF Failure

LEMMA ReportIInv == IInv /\ Report => IInv'
<1> SUFFICES ASSUME IInv, NEW c \in Clients, NEW t \in Targets,
                    ReportTargetFailure(c, t) \/ ReportTargetSuccess(c, t)
             PROVE  IInv'
  BY DEF Report
<1>1. <<AddrOf[c], t>> \in Addrs \X Targets /\ TypeOK
  BY DEF Addrs, IInv
<1>2. targetFailures' \in [Addrs \X Targets -> Failure]
  BY <1>1, FailureOperators DEF ReportTargetFailure, ReportTargetSuccess, Forget, TypeOK
<1>3. TypeOK'
  BY <1>1, <1>2 DEF ReportTargetFailure, ReportTargetSuccess, TypeOK
<1> QED
  BY <1>3, FailuresOnly DEF ReportTargetFailure, ReportTargetSuccess

LEMMA CleanupIInv == IInv /\ Cleanup => IInv'
<1> SUFFICES ASSUME IInv, CleanupExpiredTargets PROVE IInv'
  BY DEF Cleanup
<1>1. TypeOK
  BY DEF IInv
<1>2. targetFailures' \in [Addrs \X Targets -> Failure]
  BY <1>1, FailureOperators DEF CleanupExpiredTargets, TypeOK
<1>3. TypeOK'
  BY <1>1, <1>2 DEF CleanupExpiredTargets, TypeOK
<1> QED
  BY <1>3, FailuresOnly DEF CleanupExpiredTargets

LEMMA ExpireIInv ==
    ASSUME IInv, NEW p \in Addrs \X Targets, Expire(p[1], p[2])
    PROVE  IInv'
<1>1. TypeOK /\ <<p[1], p[2]>> \in Addrs \X Targets
  BY DEF IInv
<1>2. targetFailures[<<p[1], p[2]>>] \in Failure
  BY <1>1 DEF TypeOK
<1>3. [targetFailures[<<p[1], p[2]>>] EXCEPT !.until = "past"] \in Failure
  BY <1>1, <1>2, FailureOperators
<1>4. targetFailures' \in [Addrs \X Targets -> Failure]
  BY <1>1, <1>3 DEF Expire, TypeOK
<1>5. TypeOK'
  BY <1>1, <1>4 DEF Expire, TypeOK
<1> QED
  BY <1>5, FailuresOnly DEF Expire

LEMMA PeerDiesIInv ==
    ASSUME IInv, NEW c \in Clients, PeerDies(c)
    PROVE  IInv'
<1> USE DEF IInv
<1>1. TypeOK'
  BY DEF PeerDies, TypeOK
<1>2. \A d \in Clients : Connected(d)' <=> Connected(d)
  BY DEF PeerDies, TypeOK, Connected
<1>3. ConnectedClients' = ConnectedClients
  BY <1>2, PoolFinite DEF ConnectedClients, PeerDies
<1>4. MaxActiveBound'
  BY <1>3 DEF MaxActiveBound, ConnectedCount
<1>5. NoneTwice'
  BY <1>1, LenProperties, ElementOfSeq DEF NoneTwice, PeerDies, TypeOK
<1>6. OrphansClosed' /\ HealthyIffConnected'
  BY <1>2 DEF OrphansClosed, HealthyIffConnected, PeerDies
<1>7. ActiveConnected'
  <2>1. CASE hasActive
    <3>1. activeIdx + 1 \in DOMAIN servers
      BY <2>1, LenProperties DEF ActiveConnected, TypeOK
    <3>2. servers[activeIdx + 1] \in Clients
      BY <3>1, LenProperties, ElementOfSeq DEF TypeOK
    <3> QED
      BY <2>1, <3>2, <1>2 DEF ActiveConnected, PeerDies
  <2>2. CASE ~hasActive
    BY <2>2 DEF ActiveConnected, PeerDies
  <2> QED
    BY <2>1, <2>2
<1> QED
  BY <1>1, <1>4, <1>5, <1>6, <1>7

(* CloseAll and RemoveClient close connections and drop what they closed.  *)
LEMMA CloseAllIInv == IInv /\ CloseAll => IInv'
<1> SUFFICES ASSUME IInv, CloseAll PROVE IInv'
  OBVIOUS
<1> USE DEF IInv
<1>1. TypeOK'
  BY EmptySeq DEF CloseAll, Closed, Deactivate, TypeOK
<1>2. servers' = <<>> /\ ToSet(servers') = {} /\ DOMAIN servers' = {}
  BY DEF CloseAll, ToSet
<1>3. \A c \in Clients : ~Connected(c)' /\ ~healthy'[c]
  <2> TAKE c \in Clients
  <2>1. CASE c \in ToSet(servers)
    BY <2>1 DEF CloseAll, Closed, Connected
  <2>2. CASE c \notin ToSet(servers)
    BY <2>2 DEF CloseAll, Closed, OrphansClosed, HealthyIffConnected, Connected
  <2> QED
    BY <2>1, <2>2
<1>4. ConnectedClients' \subseteq ConnectedClients
  BY <1>2 DEF ConnectedClients
<1>5. MaxActiveBound'
  BY <1>4, CountShrinks, PoolFinite, PoolAssumption DEF MaxActiveBound
<1> QED
  BY <1>1, <1>2, <1>3, <1>5
  DEF NoneTwice, OrphansClosed, HealthyIffConnected, ActiveConnected, CloseAll, Deactivate

LEMMA RemoveClientIInv ==
    ASSUME IInv, NEW c \in Clients, RemoveClient(c)
    PROVE  IInv'
<1> USE DEF IInv
<1>1. PICK i \in DOMAIN servers :
        /\ servers[i] = c
        /\ Closed({c})
        /\ servers' = RemoveAt(servers, i)
        /\ IF Len(servers) = 1 \/ (hasActive /\ i - 1 = activeIdx) THEN Deactivate
           ELSE UNCHANGED hasActive /\ activeIdx' = ShiftedBy(i - 1)
        /\ UNCHANGED <<phase, index, targetFailures>>
  BY DEF RemoveClient
<1>2. /\ Len(servers) \in Nat
      /\ DOMAIN servers = 1 .. Len(servers)
      /\ i \in 1 .. Len(servers)
      /\ \A j \in 1 .. Len(servers) : servers[j] \in Clients
  BY LenProperties, ElementOfSeq DEF TypeOK
<1>3. /\ servers' \in Seq(Clients)
      /\ Len(servers') = Len(servers) - 1
      /\ \A j \in 1 .. Len(servers) - 1 :
            servers'[j] = servers[IF j < i THEN j ELSE j + 1]
  BY <1>1, <1>2, RemoveAtProperties DEF TypeOK
<1>4. DOMAIN servers' = 1 .. Len(servers) - 1
  BY <1>3, LenProperties
<1>5. /\ activeIdx \in Nat /\ (hasActive => activeIdx < Len(servers))
      /\ hasActive \in BOOLEAN
  BY DEF TypeOK, ActiveConnected
<1>6. activeIdx' \in Nat /\ hasActive' \in BOOLEAN
  <2>1. ShiftedBy(i - 1) \in Nat
    BY <1>2, <1>5 DEF ShiftedBy
  <2>2. activeIdx' = 0 \/ activeIdx' = ShiftedBy(i - 1)
    BY <1>1 DEF Deactivate
  <2>3. hasActive' = FALSE \/ hasActive' = hasActive
    BY <1>1 DEF Deactivate
  <2>4. activeIdx' \in Nat
    BY <2>1, <2>2
  <2>5. hasActive' \in BOOLEAN
    BY <1>5, <2>3, Zenon
  <2> QED
    BY <2>4, <2>5
<1>7. TypeOK'
  BY <1>1, <1>3, <1>6 DEF TypeOK, Closed
<1>8. /\ ~Connected(c)' /\ ~healthy'[c] /\ conn'[c] # "absent"
      /\ \A d \in Clients \ {c} : conn'[d] = conn[d] /\ (healthy'[d] <=> healthy[d])
  BY <1>1 DEF Closed, Connected
<1>9. \A j \in DOMAIN servers' : servers'[j] \in Clients \ {c}
  BY <1>1, <1>2, <1>3, <1>4 DEF NoneTwice
<1>10. NoneTwice'
  <2>1. ASSUME NEW j \in DOMAIN servers', NEW k \in DOMAIN servers',
               servers'[j] = servers'[k]
        PROVE  j = k
    <3> DEFINE old(x) == IF x < i THEN x ELSE x + 1
    <3>1. /\ servers'[j] = servers[old(j)] /\ old(j) \in DOMAIN servers
          /\ servers'[k] = servers[old(k)] /\ old(k) \in DOMAIN servers
      BY <1>2, <1>3, <1>4
    <3>2. old(j) = old(k)
      <4> HIDE DEF old
      <4> QED
        BY <2>1, <3>1 DEF NoneTwice
    <3> QED
      BY <1>2, <1>4, <3>2
  <2>2. \A j \in DOMAIN servers' : conn'[servers'[j]] # "absent"
    BY <1>2, <1>3, <1>4, <1>8, <1>9 DEF NoneTwice
  <2> QED
    BY <2>1, <2>2 DEF NoneTwice
<1>11. ToSet(servers') = ToSet(servers) \ {c}
  <2>1. ToSet(servers') \subseteq ToSet(servers) \ {c}
    BY <1>2, <1>3, <1>4, <1>9 DEF ToSet
  <2>2. ASSUME NEW d \in ToSet(servers) \ {c} PROVE d \in ToSet(servers')
    <3>1. PICK j \in 1 .. Len(servers) : servers[j] = d
      BY <1>2 DEF ToSet
    <3>2. j # i
      BY <1>1, <3>1
    <3>3. CASE j < i
      BY <1>2, <1>3, <1>4, <3>1, <3>3 DEF ToSet
    <3>4. CASE j > i
      <4>1. j - 1 \in 1 .. Len(servers) - 1 /\ ~(j - 1 < i) /\ (j - 1) + 1 = j
        BY <1>2, <3>4
      <4>2. servers'[j - 1] = d
        BY <1>3, <3>1, <4>1
      <4> QED
        BY <1>4, <4>1, <4>2 DEF ToSet
    <3> QED
      BY <1>2, <3>2, <3>3, <3>4
  <2> QED
    BY <2>1, <2>2
<1>12. OrphansClosed'
  BY <1>8, <1>11 DEF OrphansClosed, Connected
<1>13. HealthyIffConnected'
  BY <1>8 DEF HealthyIffConnected, Connected
<1>14. ActiveConnected'
  <2>1. CASE Len(servers) = 1 \/ (hasActive /\ i - 1 = activeIdx)
    BY <1>1, <2>1 DEF Deactivate, ActiveConnected
  <2>2. CASE ~hasActive /\ Len(servers) # 1
    BY <1>1, <2>2 DEF ActiveConnected, ShiftedBy
  <2>3. CASE hasActive /\ Len(servers) # 1 /\ i - 1 # activeIdx
    <3>1. hasActive' = hasActive /\ activeIdx' = ShiftedBy(i - 1)
      BY <1>1, <2>3
    <3>2. activeIdx' < Len(servers')
      BY <1>2, <1>3, <1>5, <2>3, <3>1 DEF ShiftedBy
    <3>3. servers'[activeIdx' + 1] = servers[activeIdx + 1]
      BY <1>2, <1>3, <1>5, <2>3, <3>1 DEF ShiftedBy
    <3>4. servers[activeIdx + 1] \in Clients \ {c}
      BY <1>1, <1>2, <1>5, <2>3 DEF NoneTwice
    <3> QED
      BY <1>8, <2>3, <3>1, <3>2, <3>3, <3>4 DEF ActiveConnected, Connected
  <2> QED
    BY <2>1, <2>2, <2>3
<1>15. MaxActiveBound'
  <2>1. ConnectedClients' \subseteq ConnectedClients
    BY <1>8, <1>11, PoolFinite DEF ConnectedClients, Connected
  <2> QED
    BY <2>1, CountShrinks, PoolFinite, PoolAssumption DEF MaxActiveBound
<1> QED
  BY <1>7, <1>10, <1>12, <1>13, <1>14, <1>15

LEMMA GetForTargetIInv ==
    ASSUME IInv, NEW t, NEW exclude, NEW k \in 0 .. Len(servers),
           GetForTarget(t, exclude, k)
    PROVE  IInv'
<1> USE DEF IInv
<1>1. CASE servers = <<>>
  <2>1. UNCHANGED poolVars
    BY <1>1 DEF GetForTarget
  <2>2. TypeOK'
    BY <2>1 DEF poolVars, TypeOK
  <2> QED
    BY <2>1, <2>2, FailuresOnly DEF poolVars
<1>2. CASE servers # <<>>
  <2>1. /\ Select(t, exclude, k) \/ SelectNone(k)
        /\ AdvanceIndex
        /\ targetFailures' = DropStale(t, SeenAddrs(exclude, k))
        /\ UNCHANGED <<phase, servers>>
    BY <1>2 DEF GetForTarget
  <2>2. targetFailures' \in [Addrs \X Targets -> Failure]
    BY <2>1, FailureOperators DEF DropStale, TypeOK
  <2>3. index' \in 0 .. IndexSize - 1
    <3>1. index + 1 \in Nat /\ IndexSize \in Nat \ {0}
      BY PoolAssumption DEF TypeOK
    <3>2. (index + 1) % IndexSize \in 0 .. IndexSize - 1
      BY <3>1, ModRange
    <3> QED
      BY <2>1, <3>2 DEF AdvanceIndex, TypeOK
  <2>4. Len(servers) \in Nat \ {0}
    BY <1>2, EmptySeq DEF TypeOK
  <2>5. CASE SelectNone(k)
    <3>1. TypeOK'
      <4>1. (hasActive' = FALSE /\ activeIdx' = 0) \/ KeepActive
        BY <2>5 DEF SelectNone, Deactivate
      <4>2. activeIdx' \in Nat
        BY <4>1 DEF KeepActive, TypeOK
      <4>3. hasActive' \in BOOLEAN
        BY <4>1, Zenon DEF KeepActive, TypeOK
      <4> QED
        BY <2>1, <2>2, <2>3, <2>5, <4>2, <4>3 DEF SelectNone, TypeOK
    <3>2. CASE Strategy = "failover"
      <4>1. ConnectedClients' = ConnectedClients
        BY <2>1, <2>5 DEF SelectNone, ConnectedClients, Connected
      <4>2. MaxActiveBound'
        BY <4>1 DEF MaxActiveBound, ConnectedCount
      <4> QED
        BY <2>1, <2>5, <3>1, <3>2, <4>2
        DEF SelectNone, Deactivate, NoneTwice, OrphansClosed, HealthyIffConnected,
            ActiveConnected, Connected
    <3>3. CASE Strategy # "failover"
      BY <2>1, <2>5, <3>1, <3>3, FailuresOnly DEF SelectNone, KeepActive
    <3> QED
      BY <3>2, <3>3
  <2>6. CASE Select(t, exclude, k)
    <3>a. PICK c \in Clients : c = Scanned(k)
      BY <2>6, ScanSlotInRange DEF Select
    <3>1. /\ k \in ScanSteps /\ Hit(t, exclude, k) /\ Dialed(c)
          /\ IF Strategy = "failover" THEN Activate(ScanSlot(k)) ELSE KeepActive
      BY <2>6, <3>a DEF Select
    <3>2. /\ ScanSlot(k) \in 0 .. Len(servers) - 1
          /\ c \in Clients /\ c \in ToSet(servers)
          /\ c = servers[ScanSlot(k) + 1]
      BY <3>1, <3>a, ScanSlotInRange DEF Scanned
    <3>3. TypeOK'
      <4>1. activeIdx' \in Nat /\ hasActive' \in BOOLEAN
        <5>1. CASE Strategy = "failover"
          BY <2>4, <3>1, <3>2, <5>1 DEF Activate
        <5>2. CASE Strategy # "failover"
          BY <3>1, <5>2 DEF KeepActive, TypeOK
        <5> QED
          BY <5>1, <5>2
      <4>2. /\ conn' \in [Clients -> {"absent", "none", "alive", "dead"}]
            /\ healthy' \in [Clients -> BOOLEAN]
        BY <3>1, <3>2 DEF Dialed, Redials, TypeOK
      <4> QED
        BY <2>1, <2>2, <2>3, <4>1, <4>2 DEF TypeOK
    <3>4. /\ Connected(c)' /\ conn'[c] # "absent"
          /\ healthy'[c]
          /\ \A d \in Clients \ {c} : conn'[d] = conn[d] /\ (healthy'[d] <=> healthy[d])
      <4>1. /\ Connected(c)' /\ conn'[c] # "absent"
            /\ \A d \in Clients \ {c} : conn'[d] = conn[d]
        BY <3>1, <3>2 DEF Dialed, Redials, Connected, TypeOK
      <4>2. healthy'[c]
        BY <3>1, <3>2, Zenon DEF Dialed, Redials, TypeOK, HealthyIffConnected
      <4>3. \A d \in Clients \ {c} : healthy'[d] <=> healthy[d]
        BY <3>1, <3>2, Zenon DEF Dialed, Redials, TypeOK
      <4> QED
        BY <4>1, <4>2, <4>3
    <3>5. NoneTwice'
      BY <2>1, <3>4, LenProperties, ElementOfSeq DEF NoneTwice, TypeOK
    <3>6. OrphansClosed' /\ HealthyIffConnected'
      <4>1. OrphansClosed'
        BY <2>1, <3>2, <3>4 DEF OrphansClosed, Connected
      <4>2. HealthyIffConnected'
        <5>1. healthy'[c] <=> Connected(c)'
          BY <3>4, Zenon
        <5>2. \A d \in Clients \ {c} : healthy'[d] <=> Connected(d)'
          BY <3>4 DEF HealthyIffConnected, Connected
        <5> QED
          BY <5>1, <5>2, Zenon DEF HealthyIffConnected
      <4> QED
        BY <4>1, <4>2
    <3>7. ActiveConnected'
      <4>1. CASE Strategy = "failover"
        <5>1. hasActive' = TRUE /\ activeIdx' = ScanSlot(k)
          BY <3>1, <4>1 DEF Activate
        <5>2. activeIdx' < Len(servers)
          BY <2>4, <3>2, <5>1
        <5>3. Connected(servers[activeIdx + 1])'
          BY <2>1, <3>2, <3>4, <5>1
        <5> QED
          BY <2>1, <4>1, <5>1, <5>2, <5>3 DEF ActiveConnected
      <4>2. CASE Strategy # "failover"
        BY <3>1, <4>2 DEF KeepActive, ActiveConnected
      <4> QED
        BY <4>1, <4>2
    <3>8. MaxActiveBound'
      <4>1. CASE Connected(c)
        <5>1. ConnectedClients' \subseteq ConnectedClients
          BY <2>1, <3>4, <4>1, PoolFinite DEF ConnectedClients, Connected
        <5> QED
          BY <5>1, CountShrinks, PoolFinite, PoolAssumption DEF MaxActiveBound
      <4>2. CASE ~Connected(c)
        <5>1. ConnectedClients' \subseteq ConnectedClients \cup {c}
          BY <2>1, <3>4, PoolFinite DEF ConnectedClients, Connected
        <5>2. Strategy = "loadbalance" => ConnectedCount < MaxActive
          BY <3>1, <3>a, <4>2 DEF Hit, MayDial
        <5> QED
          BY <5>1, <5>2, CountGrows, PoolFinite, PoolAssumption DEF MaxActiveBound
      <4> QED
        BY <4>1, <4>2
    <3> QED
      BY <3>3, <3>5, <3>6, <3>7, <3>8
  <2> QED
    BY <2>1, <2>5, <2>6
<1> QED
  BY <1>1, <1>2

(* What a health check does to the connections: the pool's dead ones go,   *)
(* the others stay, and a failover pool may dial one of its servers.       *)
LEMMA ProbedProperties ==
    ASSUME IInv
    PROVE  /\ Probed \in [Clients -> {"absent", "none", "alive"}]
           /\ \A c \in Clients : conn[c] = "alive" => Probed[c] = "alive"
           /\ \A c \in Clients : Probed[c] = "alive" => conn[c] = "alive"
           /\ \A c \in ToSet(servers) : Probed[c] \in {"none", "alive"}
           /\ \A c \in Clients \ ToSet(servers) : Probed[c] = conn[c]
<1>1. \A c \in Clients : conn[c] = "dead" => c \in ToSet(servers)
  BY DEF IInv, OrphansClosed, Connected
<1>2. \A c \in ToSet(servers) : conn[c] # "absent" /\ c \in Clients
  BY PoolFinite DEF IInv, NoneTwice, ToSet
<1> QED
  BY <1>1, <1>2 DEF Probed, IInv, TypeOK

LEMMA RunHealthChecksIInv == IInv /\ RunHealthChecks => IInv'
<1> SUFFICES ASSUME IInv, RunHealthChecks PROVE IInv'
  OBVIOUS
<1> USE DEF IInv
<1>1. /\ UNCHANGED <<phase, servers, index, targetFailures>>
      /\ healthy' = [c \in Clients |-> IF c \in ToSet(servers)
                                        THEN conn'[c] = "alive" ELSE healthy[c]]
      /\ IF Strategy = "failover" THEN Reactivate ELSE KeepActive /\ conn' = Probed
  BY DEF RunHealthChecks
<1>2. /\ Len(servers) \in Nat
      /\ DOMAIN servers = 1 .. Len(servers)
      /\ \A i \in ScanSteps : servers[i + 1] \in ToSet(servers) /\ servers[i + 1] \in Clients
      /\ \A i \in ScanSteps : i \in Nat /\ i < Len(servers)
  BY LenProperties, ElementOfSeq DEF TypeOK, ScanSteps, ToSet
<1>3. \/ conn' = Probed
      \/ /\ Strategy = "failover"
         /\ \E c \in ToSet(servers) : conn' = [Probed EXCEPT ![c] = "alive"]
  BY <1>1, <1>2 DEF Reactivate
<1>4. ToSet(servers) \subseteq Clients /\ ToSet(servers') = ToSet(servers)
  BY <1>1, PoolFinite
<1>5. /\ conn' \in [Clients -> {"absent", "none", "alive"}]
      /\ \A c \in ToSet(servers) : conn'[c] \in {"none", "alive"}
      /\ \A c \in Clients \ ToSet(servers) : conn'[c] = conn[c]
  BY <1>3, <1>4, ProbedProperties
<1>6. /\ hasActive' => /\ Strategy = "failover"
                       /\ activeIdx' \in ScanSteps
                       /\ conn'[servers[activeIdx' + 1]] = "alive"
      /\ ~hasActive' => activeIdx' = 0
      /\ hasActive' \in BOOLEAN
  <2>1. CASE Strategy = "failover"
    <3>1. CASE hasActive /\ Alive(activeIdx)
      <4>1. hasActive' = hasActive /\ activeIdx' = activeIdx /\ conn' = Probed
        BY <1>1, <2>1, <3>1 DEF Reactivate, KeepActive
      <4>2. activeIdx \in ScanSteps
        BY <1>2, <3>1 DEF ActiveConnected, TypeOK, ScanSteps
      <4>3. Probed[servers[activeIdx + 1]] = "alive"
        BY <1>2, <3>1, <4>2, ProbedProperties DEF Alive
      <4> QED
        BY <2>1, <3>1, <4>1, <4>2, <4>3
    <3>2. CASE ~(hasActive /\ Alive(activeIdx))
      <4>1. CASE \E i \in ScanSteps : Alive(i) /\ Activate(i) /\ conn' = Probed
        <5>1. PICK i \in ScanSteps : Alive(i) /\ Activate(i) /\ conn' = Probed
          BY <4>1
        <5>2. Probed[servers[i + 1]] = "alive"
          BY <1>2, <5>1, ProbedProperties DEF Alive
        <5> QED
          BY <2>1, <5>1, <5>2 DEF Activate
      <4>2. CASE \E i \in ScanSteps :
                   Activate(i) /\ conn' = [Probed EXCEPT ![servers[i + 1]] = "alive"]
        <5>1. PICK i \in ScanSteps :
                Activate(i) /\ conn' = [Probed EXCEPT ![servers[i + 1]] = "alive"]
          BY <4>2
        <5>2. conn'[servers[i + 1]] = "alive"
          BY <1>2, <5>1, ProbedProperties
        <5> QED
          BY <2>1, <5>1, <5>2 DEF Activate
      <4>3. CASE Deactivate
        BY <4>3 DEF Deactivate
      <4> QED
        BY <1>1, <2>1, <3>2, <4>1, <4>2, <4>3 DEF Reactivate
    <3> QED
      BY <3>1, <3>2
  <2>2. CASE Strategy # "failover"
    <3>1. hasActive' = hasActive /\ activeIdx' = activeIdx
      BY <1>1, <2>2 DEF KeepActive
    <3>2. ~hasActive /\ activeIdx = 0
      BY <2>2 DEF ActiveConnected
    <3>3. hasActive' = FALSE /\ activeIdx' = 0
      BY <3>1, <3>2 DEF TypeOK
    <3> QED
      BY <3>3
  <2> QED
    BY <2>1, <2>2
<1>7. TypeOK'
  <2>1. activeIdx' \in Nat
    BY <1>2, <1>6
  <2>2. healthy' \in [Clients -> BOOLEAN]
    BY <1>1 DEF TypeOK
  <2>3. conn' \in [Clients -> {"absent", "none", "alive", "dead"}]
    BY <1>5
  <2> QED
    BY <1>1, <1>6, <2>1, <2>2, <2>3 DEF TypeOK
<1>8. NoneTwice'
  <2>1. \A i \in DOMAIN servers : servers[i] \in ToSet(servers)
    BY DEF ToSet
  <2> QED
    BY <1>1, <1>5, <2>1 DEF NoneTwice
<1>9. OrphansClosed'
  BY <1>4, <1>5 DEF OrphansClosed, Connected
<1>10. HealthyIffConnected'
  <2>1. ASSUME NEW c \in ToSet(servers) PROVE healthy'[c] <=> Connected(c)'
    BY <1>1, <1>4, <1>5 DEF Connected
  <2>2. ASSUME NEW c \in Clients \ ToSet(servers) PROVE healthy'[c] <=> Connected(c)'
    BY <1>1, <1>5 DEF Connected, HealthyIffConnected
  <2> QED
    BY <2>1, <2>2 DEF HealthyIffConnected
<1>11. ActiveConnected'
  <2>1. CASE hasActive'
    BY <1>1, <1>2, <1>6, <2>1 DEF ActiveConnected, Connected
  <2>2. CASE ~hasActive'
    BY <1>6, <2>2 DEF ActiveConnected
  <2> QED
    BY <2>1, <2>2
<1>12. MaxActiveBound'
  <2>1. CASE conn' = Probed
    <3>1. ConnectedClients' \subseteq ConnectedClients
      BY <1>4, <2>1, ProbedProperties DEF ConnectedClients, Connected
    <3> QED
      BY <3>1, CountShrinks, PoolFinite, PoolAssumption DEF MaxActiveBound
  <2>2. CASE Strategy = "failover"
    BY <2>2 DEF MaxActiveBound
  <2> QED
    BY <1>3, <2>1, <2>2
<1> QED
  BY <1>7, <1>8, <1>9, <1>10, <1>11, <1>12

-----------------------------------------------------------------------------
(* The theorems *)

LEMMA NextIInv == IInv /\ [Next]_poolVars => IInv'
<1> SUFFICES ASSUME IInv, [Next]_poolVars PROVE IInv'
  OBVIOUS
<1>1. CASE UNCHANGED poolVars
  <2>1. TypeOK'
    BY <1>1 DEF poolVars, IInv, TypeOK
  <2> QED
    BY <1>1, <2>1, FailuresOnly DEF poolVars
<1>2. CASE Startup
  BY <1>2, ConnectServerIInv, StartIInv DEF Startup
<1>3. CASE Request
  BY <1>3, GetForTargetIInv DEF Request
<1>4. CASE Report
  BY <1>4, ReportIInv
<1>5. CASE HealthCheck
  BY <1>5, RunHealthChecksIInv DEF HealthCheck
<1>6. CASE Cleanup
  BY <1>6, CleanupIInv
<1>7. CASE Removal
  BY <1>7, RemoveClientIInv DEF Removal
<1>8. CASE CloseAll
  BY <1>8, CloseAllIInv
<1>9. CASE Environment
  BY <1>9, PeerDiesIInv, ExpireIInv DEF Environment
<1> QED
  BY <1>1, <1>2, <1>3, <1>4, <1>5, <1>6, <1>7, <1>8, <1>9 DEF Next

-----------------------------------------------------------------------------
(* A removal and the active server *)

(* Slot activeIdx holds the same client before and after a removal that    *)
(* leaves an active server.                                                *)
LEMMA RemovalShifts ==
    ASSUME IInv, NEW c \in Clients, RemoveClient(c), hasActive'
    PROVE  /\ hasActive /\ activeIdx' < Len(servers')
           /\ ActiveClient' = ActiveClient
<1>1. PICK i \in DOMAIN servers :
        /\ servers' = RemoveAt(servers, i)
        /\ IF Len(servers) = 1 \/ (hasActive /\ i - 1 = activeIdx) THEN Deactivate
           ELSE UNCHANGED hasActive /\ activeIdx' = ShiftedBy(i - 1)
  BY DEF RemoveClient
<1>2. /\ Len(servers) \in Nat
      /\ i \in 1 .. Len(servers)
      /\ activeIdx \in Nat
  BY LenProperties DEF IInv, TypeOK
<1>3. /\ Len(servers') = Len(servers) - 1
      /\ \A j \in 1 .. Len(servers) - 1 :
            servers'[j] = servers[IF j < i THEN j ELSE j + 1]
  BY <1>1, <1>2, RemoveAtProperties DEF IInv, TypeOK
<1>4. /\ ~(Len(servers) = 1 \/ (hasActive /\ i - 1 = activeIdx))
      /\ hasActive
      /\ activeIdx' = ShiftedBy(i - 1)
  BY <1>1 DEF Deactivate
<1>5. i - 1 # activeIdx /\ activeIdx < Len(servers)
  BY <1>4 DEF IInv, ActiveConnected
<1>6. activeIdx' < Len(servers')
  BY <1>2, <1>3, <1>4, <1>5 DEF ShiftedBy
<1>7. servers'[activeIdx' + 1] = servers[activeIdx + 1]
  BY <1>2, <1>3, <1>4, <1>5 DEF ShiftedBy
<1> QED
  BY <1>4, <1>6, <1>7 DEF ActiveClient

(* Only Remove and CloseAll take servers out of the pool.                  *)
LEMMA OnlyRemovalShrinks ==
    ASSUME IInv, [Next]_poolVars, Len(servers') < Len(servers)
    PROVE  Removal \/ CloseAll
<1>1. Len(servers) \in Nat
  BY LenProperties DEF IInv, TypeOK
<1>2. servers' # servers
  BY <1>1
<1>3. ASSUME Startup PROVE FALSE
  <2>1. ~Start
    BY <1>2 DEF Start
  <2>2. ASSUME NEW c \in Clients, servers' = Append(servers, c)
        PROVE  FALSE
    <3>1. Len(servers') = Len(servers) + 1
      BY <2>2, AppendProperties DEF IInv, TypeOK
    <3> QED
      BY <1>1, <3>1
  <2> QED
    BY <1>3, <2>1, <2>2 DEF Startup, ConnectServer
<1>4. ~Request
  BY <1>2 DEF Request, GetForTarget, poolVars
<1>5. ~Report
  BY <1>2 DEF Report, ReportTargetFailure, ReportTargetSuccess
<1>6. ~HealthCheck
  BY <1>2 DEF HealthCheck, RunHealthChecks
<1>7. ~Cleanup
  BY <1>2 DEF Cleanup, CleanupExpiredTargets
<1>8. ~Environment
  BY <1>2 DEF Environment, PeerDies, Expire
<1> QED
  BY <1>2, <1>3, <1>4, <1>5, <1>6, <1>7, <1>8 DEF Next, poolVars

-----------------------------------------------------------------------------
(* The theorems *)

(* The inductive invariant holds of every behaviour of the pool, in        *)
(* whatever order its interface is used.                                   *)
THEOREM Invariance == Spec => []IInv
  BY InitIInv, NextIInv, PTL DEF Spec

(* Every variable of the pool keeps its type (roundrobin.go:19-28).        *)
THEOREM TypeCorrect == Spec => []TypeOK
<1>1. IInv => TypeOK
  BY DEF IInv
<1> QED
  BY Invariance, <1>1, PTL

(* A load balancing pool never holds more than maxActive connections.      *)
THEOREM ConnectionsBounded == Spec => []MaxActiveBound
<1>1. IInv => MaxActiveBound
  BY DEF IInv
<1> QED
  BY Invariance, <1>1, PTL

(* The active server of a failover pool is a connected server of the pool. *)
THEOREM ActiveIsConnected == Spec => []ActiveConnected
<1>1. IInv => ActiveConnected
  BY DEF IInv
<1> QED
  BY Invariance, <1>1, PTL

(* c.healthy agrees with c.client between any two calls.                   *)
THEOREM HealthyMeansConnected == Spec => []HealthyIffConnected
<1>1. IInv => HealthyIffConnected
  BY DEF IInv
<1> QED
  BY Invariance, <1>1, PTL

(* No connection survives the removal of its client or the shutdown.       *)
THEOREM NoOrphans == Spec => []OrphansClosed
<1>1. IInv => OrphansClosed
  BY DEF IInv
<1> QED
  BY Invariance, <1>1, PTL

(* A scan reaches every server, at every value of the counter but those    *)
(* from which it wraps around (strategy.go:16).                            *)
THEOREM ScansCover == Spec => []ScanCovers
  BY TypeCorrect, TypeOKCovers, PTL

(* Removing a server never makes another one active (roundrobin.go:156).   *)
THEOREM ActiveSurvivesRemoval == Spec => RemoveKeepsActive
<1> DEFINE Kept == Len(servers') < Len(servers) /\ hasActive' =>
                      /\ hasActive /\ activeIdx' < Len(servers')
                      /\ ActiveClient' = ActiveClient
<1>1. IInv /\ [Next]_poolVars => Kept
  <2> SUFFICES ASSUME IInv, [Next]_poolVars, Len(servers') < Len(servers), hasActive'
               PROVE  /\ hasActive /\ activeIdx' < Len(servers')
                      /\ ActiveClient' = ActiveClient
    OBVIOUS
  <2>1. ~CloseAll
    BY DEF CloseAll, Deactivate
  <2>2. Removal
    BY <2>1, OnlyRemovalShrinks
  <2> QED
    BY <2>2, RemovalShifts DEF Removal
<1>2. Spec => [][Kept]_poolVars
  BY <1>1, Invariance, PTL DEF Spec
<1> QED
  BY <1>2 DEF RemoveKeepsActive
=============================================================================
