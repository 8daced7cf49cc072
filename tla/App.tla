-------------------------------- MODULE App ---------------------------------
(***************************************************************************)
(* One serving process: acceptLoop (internal/app/app.go), the goroutine of *)
(* handleSignals (shutdown.go), the handlers of internal/proxy with their  *)
(* SOCKS5 handshake, dial and tunnel, and the slots of connSem.            *)
(*                                                                         *)
(* The pool is seen through rr.mu alone: "dial" and "report" stand for the *)
(* calls that Proxy and PoolLocks detail, and whoever holds rr.mu may wait *)
(* for the network for ever.  client and target are the two byte streams   *)
(* as far as the process has read them: "open", "eof" when the other side  *)
(* has finished sending, "gone" when it does not take data either.         *)
(***************************************************************************)
EXTENDS Naturals, FiniteSets, Sequences

CONSTANTS
    Conns,      \* the connections clients make
    MaxConns    \* the capacity of connSem

ASSUME AppAssumption ==
    /\ IsFiniteSet(Conns)
    /\ MaxConns \in Nat \ {0}

VARIABLES
    cfg,        \* the fields of a.cfg that matter here
    main,       \* acceptLoop, then "returned", or "killed" by a second signal
    cleanup,    \* how many of the steps of Shutdown are done
    disturbed,  \* auxiliary: since the signal, main was not always in Accept
    mu,         \* who holds rr.mu while it waits for the network, or "free"
    connSem,    \* the slots taken
    sess,       \* what becomes of each connection
    client,     \* the stream from its client
    target,     \* the stream from its target
    copying     \* the directions its tunnel still copies

vars == <<cfg, main, cleanup, disturbed, mu, connSem, sess, client, target, copying>>
network == <<client, target, copying>>

Configs == [Mode : {"socks5", "tcp-forward"}, ShowUpstreamStats : BOOLEAN]
Streams == {"open", "eof", "gone"}
Handshake == {"hello", "methods", "request"}

(* A handler runs, and its connection holds a slot.                        *)
Handled(c) == sess[c] \in Handshake \cup {"dial", "target", "tunnel", "report"}

(* Mutants: the port is closed last; the status file is written last.      *)
ShutdownCloseLast == <<"signal", "shutdownCh", "healthStop", "stats", "flush", "tracker",
                       "pool", "listener", "logFile">>
ShutdownFlushLast == <<"signal", "shutdownCh", "healthStop", "stats", "tracker",
                       "listener", "flush", "pool", "logFile">>

(* The steps of the signal goroutine, after the arrival of the signal.     *)
Shutdown == <<"signal", "shutdownCh", "healthStop", "stats", "flush", "tracker",
              "listener", "pool", "logFile">>

Done(step) == \E i \in 1 .. cleanup : Shutdown[i] = step

Ended == main \in {"returned", "killed"}

Init ==
    /\ cfg \in Configs
    /\ main = "check"
    /\ cleanup = 0
    /\ disturbed = FALSE
    /\ mu = "free"
    /\ connSem = 0
    /\ sess = [c \in Conns |-> "unborn"]
    /\ client = [c \in Conns |-> "open"]
    /\ target = [c \in Conns |-> "open"]
    /\ copying = [c \in Conns |-> {}]

-----------------------------------------------------------------------------
(* acceptLoop *)

Goto(c, from, to) == sess[c] = from /\ sess' = [sess EXCEPT ![c] = to]
Loop(from, to) == main = from /\ main' = to

Check ==
    /\ Loop("check", IF Done("shutdownCh") THEN "returned" ELSE "accept")
    /\ UNCHANGED <<cfg, cleanup, disturbed, mu, connSem, sess, network>>

Disturb == disturbed' = (disturbed \/ (Done("signal") /\ ~Done("listener")))

Accept ==
    /\ ~Done("listener")
    /\ Loop("accept", "admit")
    /\ \E c \in Conns : Goto(c, "backlog", "accepted")
    /\ Disturb
    /\ UNCHANGED <<cfg, cleanup, mu, connSem, network>>

(* The listener is closed, or has another reason such as a lack of files.  *)
AcceptFails ==
    /\ Loop("accept", IF Done("shutdownCh") THEN "returned" ELSE "check")
    /\ Disturb
    /\ UNCHANGED <<cfg, cleanup, mu, connSem, sess, network>>

(* Mutant: acceptLoop waits for a slot.                                    *)
AdmitWaiting ==
    /\ Loop("admit", "check")
    /\ connSem < MaxConns
    /\ connSem' = connSem + 1
    /\ \E c \in Conns : Goto(c, "accepted", IF cfg.Mode = "socks5" THEN "hello" ELSE "dial")
    /\ UNCHANGED <<cfg, cleanup, disturbed, mu, network>>

(* A slot is free or the connection is closed at once.                     *)
Admit ==
    /\ Loop("admit", "check")
    /\ \E c \in Conns :
          \/ /\ connSem < MaxConns
             /\ connSem' = connSem + 1
             /\ Goto(c, "accepted", IF cfg.Mode = "socks5" THEN "hello" ELSE "dial")
          \/ /\ connSem = MaxConns
             /\ UNCHANGED connSem
             /\ Goto(c, "accepted", "rejected")
    /\ UNCHANGED <<cfg, cleanup, disturbed, mu, network>>

-----------------------------------------------------------------------------
(* A handler *)

(* The deferred calls: both connections are closed, the slot comes back.   *)
Finish(c, from) ==
    /\ Goto(c, from, "over")
    /\ connSem' = connSem - 1
    /\ client' = [client EXCEPT ![c] = "gone"]
    /\ target' = [target EXCEPT ![c] = "gone"]
    /\ UNCHANGED copying

(* The bytes a step of the handshake waits for; no read has a deadline.    *)
Read(c) ==
    /\ client[c] = "open"
    /\ \/ Goto(c, "hello", "methods")
       \/ Goto(c, "methods", "request")
       \/ Goto(c, "request", "dial")
    /\ UNCHANGED <<cfg, main, cleanup, disturbed, mu, connSem, network>>

(* Another version, no method, a command or an address type that is not    *)
(* supported; the last two are answered.                                   *)
Refuse(c) ==
    /\ client[c] = "open"
    /\ Finish(c, "hello") \/ Finish(c, "request")
    /\ UNCHANGED <<cfg, main, cleanup, disturbed, mu>>

(* Mutant: a handler that finds its client gone leaves its slot taken.     *)
ShortReadKeepsSlot(c) ==
    /\ client[c] # "open"
    /\ \E from \in Handshake : Goto(c, from, "over")
    /\ UNCHANGED <<cfg, main, cleanup, disturbed, mu, connSem, network>>

ShortRead(c) ==
    /\ client[c] # "open"
    /\ \E from \in Handshake : Finish(c, from)
    /\ UNCHANGED <<cfg, main, cleanup, disturbed, mu>>

(* A selection, with the report of the attempt before it.                  *)
Dial(c) ==
    /\ sess[c] = "dial" /\ mu = "free"
    /\ mu' = c
    /\ UNCHANGED <<cfg, main, cleanup, disturbed, connSem, sess, network>>

DialReturns(c) ==
    /\ mu = c
    /\ mu' = "free"
    /\ UNCHANGED <<cfg, main, cleanup, disturbed>>
    /\ \/ Goto(c, "dial", "target") /\ UNCHANGED <<connSem, network>>
       \/ Finish(c, "dial")

(* The channel to the target is opened without rr.mu.                      *)
TargetOpens(c) ==
    /\ ~Done("pool")
    /\ Goto(c, "target", "tunnel")
    /\ copying' = [copying EXCEPT ![c] = {"up", "down"}]
    /\ UNCHANGED <<cfg, main, cleanup, disturbed, mu, connSem, client, target>>

TargetFails(c) ==
    /\ Goto(c, "target", "dial")
    /\ UNCHANGED <<cfg, main, cleanup, disturbed, mu, connSem, network>>

-----------------------------------------------------------------------------
(* TunnelBidirectional *)

Stops(c, direction) ==
    /\ sess[c] = "tunnel" /\ direction \in copying[c]
    /\ copying' = [copying EXCEPT ![c] = @ \ {direction}]
    /\ UNCHANGED <<cfg, main, cleanup, disturbed, mu, connSem, sess, client, target>>

(* Mutant: the end of what the client sends is not noticed.                *)
ReadsEndOfTarget(c) == target[c] # "open" /\ Stops(c, "down")

ReadsEnd(c) ==
    \/ client[c] # "open" /\ Stops(c, "up")
    \/ target[c] # "open" /\ Stops(c, "down")

(* Data arrives for a side that takes none any more.                       *)
WriteFails(c) ==
    \/ client[c] = "open" /\ target[c] = "gone" /\ Stops(c, "up")
    \/ target[c] = "open" /\ client[c] = "gone" /\ Stops(c, "down")

(* Mutant: one direction that has ended ends the tunnel.                   *)
TunnelEndsEarly(c) ==
    /\ copying[c] # {"up", "down"}
    /\ Goto(c, "tunnel", "report")
    /\ UNCHANGED <<cfg, main, cleanup, disturbed, mu, connSem, network>>

(* wg.Wait: both directions have ended, neither ends the other.            *)
TunnelEnds(c) ==
    /\ copying[c] = {}
    /\ Goto(c, "tunnel", "report")
    /\ UNCHANGED <<cfg, main, cleanup, disturbed, mu, connSem, network>>

(* ReportTargetFailure or ReportTargetSuccess: both take rr.mu.            *)
Report(c) ==
    /\ mu = "free"
    /\ Finish(c, "report")
    /\ UNCHANGED <<cfg, main, cleanup, disturbed, mu>>

-----------------------------------------------------------------------------
(* The other goroutines *)

Signal ==
    /\ cleanup = 0
    /\ cleanup' = 1
    /\ disturbed' = (main # "accept")
    /\ UNCHANGED <<cfg, main, mu, connSem, sess, network>>

(* StatsSummary and CloseAll wait for rr.mu.  CloseAll takes every tunnel  *)
(* its target.                                                             *)
CleanupStep ==
    /\ cleanup \in 1 .. Len(Shutdown) - 1
    /\ cleanup' = cleanup + 1
    /\ LET step == Shutdown[cleanup + 1] IN
       /\ \/ mu = "free"
          \/ step = "stats" /\ ~cfg.ShowUpstreamStats
          \/ step \notin {"stats", "pool"}
       /\ target' = IF step = "pool"
                    THEN [c \in Conns |-> IF sess[c] = "tunnel" THEN "gone" ELSE target[c]]
                    ELSE target
    /\ UNCHANGED <<cfg, main, disturbed, mu, connSem, sess, client, copying>>

(* signal.Stop has given the signal its default action back.               *)
SecondSignal ==
    /\ cleanup > 0
    /\ main' = "killed"
    /\ UNCHANGED <<cfg, cleanup, disturbed, mu, connSem, sess, network>>

(* The health check goroutine: after healthStop is closed it may win one   *)
(* more tick of its select, and more only with luck.                       *)
HealthCycle ==
    /\ \/ mu = "free" /\ mu' = "health"
       \/ mu = "health" /\ mu' = "free"
    /\ UNCHANGED <<cfg, main, cleanup, disturbed, connSem, sess, network>>

-----------------------------------------------------------------------------
(* Clients and targets *)

Connect(c) ==
    /\ ~Done("listener")
    /\ Goto(c, "unborn", "backlog")
    /\ UNCHANGED <<cfg, main, cleanup, disturbed, mu, connSem, network>>

Fades(stream, c) ==
    \/ stream[c] = "open" /\ stream' = [stream EXCEPT ![c] = "eof"]
    \/ stream[c] # "gone" /\ stream' = [stream EXCEPT ![c] = "gone"]

(* A client that leaves during a dial is noticed by the tunnel.            *)
ClientLeaves(c) ==
    /\ sess[c] \in Handshake \cup {"tunnel"}
    /\ Fades(client, c)
    /\ UNCHANGED <<cfg, main, cleanup, disturbed, mu, connSem, sess, target, copying>>

(* The target, or the SSH connection to its upstream.                      *)
TargetLeaves(c) ==
    /\ sess[c] = "tunnel"
    /\ Fades(target, c)
    /\ UNCHANGED <<cfg, main, cleanup, disturbed, mu, connSem, sess, client, copying>>

-----------------------------------------------------------------------------
LoopStep == Check \/ Accept \/ Admit \/ (Done("listener") /\ AcceptFails)

Runs(c) == ShortRead(c) \/ ReadsEnd(c) \/ TunnelEnds(c)

Handler(c) ==
    \/ Runs(c) \/ Read(c) \/ Refuse(c) \/ Dial(c) \/ DialReturns(c)
    \/ TargetOpens(c) \/ TargetFails(c) \/ WriteFails(c) \/ Report(c)

World(c) == Connect(c) \/ ClientLeaves(c) \/ TargetLeaves(c)

(* Nothing happens in a process that has ended.                            *)
Next ==
    /\ ~Ended
    /\ \/ LoopStep \/ AcceptFails
       \/ Signal \/ CleanupStep \/ SecondSignal \/ HealthCycle
       \/ \E c \in Conns : Handler(c) \/ World(c)

Spec == Init /\ [][Next]_vars

(* Goroutines are scheduled, rr.mu starves no one, and Accept does not fail *)
(* for ever.  No client, target or SSH server has to do anything.          *)
FairSpec ==
    /\ Spec
    /\ WF_vars(~Ended /\ LoopStep)
    /\ SF_vars(~Ended /\ Accept)
    /\ SF_vars(~Ended /\ CleanupStep)
    /\ SF_vars(~Ended /\ \E c \in Conns : Report(c))
    /\ \A c \in Conns : WF_vars(~Ended /\ Runs(c))

-----------------------------------------------------------------------------
(* Properties *)

AppTypeOK ==
    /\ cfg \in Configs /\ disturbed \in BOOLEAN
    /\ main \in {"check", "accept", "admit", "returned", "killed"}
    /\ cleanup \in 0 .. Len(Shutdown)
    /\ mu \in Conns \cup {"free", "health"}
    /\ connSem \in 0 .. MaxConns
    /\ sess \in [Conns -> {"unborn", "backlog", "accepted", "rejected", "hello", "methods",
                           "request", "dial", "target", "tunnel", "report", "over"}]
    /\ client \in [Conns -> Streams] /\ target \in [Conns -> Streams]
    /\ copying \in [Conns -> SUBSET {"up", "down"}]

(* Every slot of connSem belongs to a handler that is still at work: none  *)
(* leaks on an early return, none is given back twice.                     *)
SlotsCounted == connSem = Cardinality({c \in Conns : Handled(c)})

(* Somebody waits for the network with rr.mu and never gets an answer.     *)
Stuck == <>[](mu # "free")

(* No slot is lost for good: once its client is gone in the handshake, or  *)
(* both ends of its tunnel have finished, a connection gives its slot      *)
(* back, unless rr.mu is never released.  A tunnel of which one end stays  *)
(* keeps its slot as long as that end likes.                               *)
Deserted(c) ==
    /\ client[c] # "open"
    /\ sess[c] \in Handshake \/ (sess[c] = "tunnel" /\ target[c] # "open")

SlotsComeBack == Stuck \/ \A c \in Conns : Deserted(c) ~> Ended \/ ~Handled(c)

(* Whatever the handlers, the pool and the limit do, a client that has     *)
(* connected gets a handler or is turned away: acceptLoop waits neither    *)
(* for a slot nor for rr.mu.                                               *)
Waits(c) == sess[c] \in {"backlog", "accepted"}
NobodyWaits == \A c \in Conns : Waits(c) ~> Ended \/ ~Waits(c)

(* The first signal ends the process even while rr.mu is held for ever,    *)
(* unless SHOW_UPSTREAM_STATS makes the shutdown ask for it                *)
(* (shutdown.go:71) before the listener is closed.                         *)
ShutdownEnds == (cfg.ShowUpstreamStats /\ Stuck) \/ (Done("signal") ~> Ended)

(* A process that ends by itself has flushed the status file, provided     *)
(* that acceptLoop was waiting in Accept from the signal on.               *)
FlushedUndisturbed == main = "returned" /\ ~disturbed => Done("flush")

(* README.md:136: "Server health is tracked and persisted to survive       *)
(* restarts": the final flush precedes the end of the process.             *)
FlushedAtExit == main = "returned" => Done("flush")

(* A tunnel ends only when each of its directions is over, its sender      *)
(* having finished or its receiver gone: neither takes the other with it   *)
(* (tunnel.go:37).  What a client that has finished sending can still      *)
(* receive is what its target sends of itself: the end of a stream is not  *)
(* passed on (tunnel.go:19-35), so that a target waiting for it does not   *)
(* answer, and such a tunnel lasts until one side leaves.                  *)
NothingCutShort ==
    [][\A c \in Conns : sess[c] = "tunnel" /\ sess'[c] # "tunnel" =>
          /\ client[c] # "open" \/ target[c] = "gone"
          /\ target[c] # "open" \/ client[c] = "gone"]_vars
=============================================================================
