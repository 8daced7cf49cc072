# TLA+ models of ssh-roundrobin

ssh-roundrobin is a local proxy that forwards TCP connections through a pool of
SSH servers. This directory holds TLA+ models of the parts of it in which the
order of events matters, TLC configurations that check them on small instances,
and TLAPS proofs for instances of any size. Paths such as
`strategy.go:34` are relative to the package the text speaks of, below
`src/internal/`.

- [Inventory](#inventory): components, state, operations, interactions
- [Modules](#modules): what models what
- [Runs](#runs): what is checked, with which bounds
- [Fairness](#fairness)
- [Proofs](#proofs)
- [Findings](#findings)
- [Not modelled](#not-modelled)
- [Plan](#plan)

## Inventory

### Components

| Component | State | Operations |
|---|---|---|
| Pool, `sshroundrobin.RoundRobin` | `servers`, `index`, `hasActive`, `activeIdx`, `targetFailures`, under `rr.mu` | `Add`, `Get`, `GetForTarget`, `GetWithRetry`, `Remove`, `CloseAll`, `ReportTargetFailure`, `ReportTargetSuccess`, `CleanupExpiredTargets`, `RunHealthChecks`, `StatsSnapshot`, `StatsSummary` |
| Upstream, `sshroundrobin.SSHClient` | `client`, `healthy`, `lastErr` under `c.mu`; counters by atomics | `EnsureConnected`, `Reconnect`, `IsConnected`, `HealthCheck`, `Close`, `Client` |
| ProxyCommand connection, `commandConn` | a child process and its pipes | `Read`, `Write`, `Close` |
| Request handling, `proxy` | per connection: excluded addresses, loop counter, the client and connection in use | `HandleConnection`, `HandleSocks5Connection`, `DialTargetWithRetries` |
| Tunnel, `proxy.TunnelBidirectional` | two byte counts | two copying goroutines, `IsLikelyTargetBlocked` |
| Status tracker, `status.ServerStatusTracker` | `entries` under `t.mu`; the status file; `stopCh` | `RecordSuccess`, `RecordFail`, `Load`, `Flush`, `StartPeriodicFlush`, `Stop` |
| Application, `app.App` | `connSem`, `shutdownCh`, `healthStop`, the listener | `connectServers`, `startHealthCheck`, `handleSignals`, `acceptLoop` |
| Daemon, `daemon` and `cmd/main.go` | the PID file | `Daemonize`, `WritePID`, `RemovePID`, `Stop`, `Status` |
| Configuration, `config` | none after startup | `ParseConfig`, `ParseServersFile` |

### Interaction

The goroutines of a running process are the accept loop (the main goroutine),
one handler per accepted connection, the health check, the periodic flush, the
signal goroutine and two copiers per tunnel. They meet in:

- `rr.mu`. Every writing method of the pool holds it from its first statement
  to its return, including the SSH dials of a selection and the keepalives of a
  health check. A selection calls `OnConnectionError`, which takes `t.mu`, with
  `rr.mu` held.
- `c.mu`. `HealthCheck` holds it during a keepalive; `Client()` takes it to read
  the connection a handler will use. From then on the handler uses that
  connection without any lock.
- `t.mu`. Records are made under it. `Flush` copies the entries under it and
  then works on the disk without it.
- `connSem`, a counting semaphore that the accept loop takes without blocking
  and the handler gives back.
- `shutdownCh` and `healthStop`, closed by the signal goroutine, which then
  flushes, closes the listener and closes the pool, in this order, while the
  others still run.

### What is hard

- *State used after the lock is gone.* A handler selects a client under
  `rr.mu`, reads its connection under `c.mu`, dials over it under nothing, and
  reports about the pair under `rr.mu` again. Health checks, shutdown and the
  other handlers act between any two of these.
- *One state for all requests.* A failover pool has one active server and one
  table of failed pairs. A request whose target is blocked everywhere changes
  the active server for all others.
- *Positions.* `activeIdx` is a position in a slice that `Remove` shortens, and
  `index` is a `uint32` that wraps.
- *A table that forgets.* Looking at a pair deletes its entry if it is not in
  force.
- *Limits that are counted in several places*: at startup, in every selection,
  not at all in failover mode and in health checks.
- *Two writers of one file*, with crashes and failed writes in between, and a
  start that goes on when the file cannot be loaded.
- *A configuration read twice*: the daemon inherits the environment that its
  parent has completed from `.env`.
- *Peers that go silent* while locks are held.
- *A shutdown that is one goroutine among others*, raced by the return of `main`.

`PROJECT.json` lists each of these as a hazard at its line, with the properties
that watch it.

### What makes each component correct

- Pool: the active server exists and is connected; the cap holds; `healthy`
  agrees with `client`; no connection is lost track of; removal does not switch
  servers; dead connections are found; an active server is found again.
- Requests: no upstream tried twice, none left out; a block is lifted only for a
  reason; each request ends its dialling; a connection that works is not taken
  from under the handler that uses it.
- Tracker: entries are coherent; nothing is counted twice over restarts; the
  file does not go back; every result reaches it.
- Application and Tunnel: every taken slot comes back; nobody waits for a slot;
  a shutdown ends, and is complete before the process ends; one direction of a
  tunnel does not cut the other.
- Daemon: the PID file names the process that serves; `-stop` and `-status` can
  be believed.
- Configuration: the program, in the foreground or as a daemon, runs with values
  it can use, from the source that ranks first; what is accepted at the start can
  be dialled.
- ProxyCommand connection: no child process is left behind.

## Modules

```
FiniteSets, SequencesExt
   RoundRobin ──── PoolLocks          the pool: calls; locks and loops
       └────────── Proxy ─── FailureThreshold
   StatusTracker                      entries and their file
   App                                accept loop, handlers, shutdown
   Daemon                             processes, PID file, port
   Settings ────── Upstream           options; one SSH connection
```

The modules meet where one takes for granted what another details. `App` sees
the pool as `rr.mu` alone, `Proxy` sees the accept loop as its handlers and the
tracker as one status per address, `Daemon` sees the life of `App` after the
signal as `"leaving"`. Two of these joints are refinements that are checked:
`PoolLocks` implements `RoundRobin` (`AtomicCalls`), and `Proxy` implements it
too (`UsesPool`), both also by proof.

### RoundRobin

The pool, its clients and the table of failed pairs. Because `rr.mu` covers
every method, one call is one action.

| Model | Code |
|---|---|
| `servers`, `index`, `hasActive`, `activeIdx` | the fields of `RoundRobin` (roundrobin.go:19-28); `activeIdx` counts from 0 |
| `conn[c]` | `c.client`: `"none"` is nil; a non-nil client has a peer that is `"alive"` or, unnoticed, `"dead"`; `"absent"` before the SSHClient is built |
| `healthy[c]` | `c.healthy` |
| `targetFailures[a, t]` | the entry of address `a` and target `t`: its count, up to the threshold, and whether `BlockedUntil` is zero, ahead or past |
| `phase` | `connectServers`, then running, then after `CloseAll` |
| `ConnectServer`, `Start` | connect.go:40-60 |
| `GetForTarget(t, exclude, k)` | strategy.go, both scans; `k` is how many servers were passed over, `Result(k)` what the caller receives |
| `ReportTargetFailure`, `ReportTargetSuccess`, `CleanupExpiredTargets` | targetfailure.go |
| `RunHealthChecks` | healthcheck.go:76-143 with `SSHClient.HealthCheck` and `EnsureConnected` |
| `RemoveClient`, `CloseAll` | roundrobin.go:144-181 |
| `PeerDies`, `Expire` | the network, the clock |

A scan is not unrolled into steps here. The servers it meets are given by
`ScanSlot`, those it may stop at by `Eligible` and `MayDial`, and a scan that
ends at step `k` is one that stopped at no earlier step (`Passes`) and either
stopped there (`Select`) or ran out of servers (`SelectNone`). A dial may
succeed or fail; that is the choice of `k`. Two lines of the servers file may
name one address, so the address is a function of the client, not the client.

`Next` lets callers use the interface of the pool in any order, `Remove`
included, which the program itself never calls.

### PoolLocks

The same pool with the loops of the code. `call` is the call that holds `rr.mu`
and its local variables: where its loop is (`at`), the counter (`step`), the
addresses looked at, the servers that answered. `pc` says of each goroutine
whether it is outside, waits for `rr.mu`, holds it, or is about to call
`Client()`. A dial and a keepalive are two steps each, the beginning and the
answer, and nothing obliges the answer to come. Peers die in the middle of a
call, readers of `c.mu` look in.

That a call is a loop, and yet one atomic action of `RoundRobin`, is the
refinement `AtomicCalls`. The loop writes connections as it goes, although to
the rest of the program the call happens when `rr.mu` is released. The
refinement mapping therefore shows a connection as the call has left it: the
auxiliary variable `shown` keeps what a peer that died during a health check
looked like to that check, and settles afterwards.

### Proxy

Extends `RoundRobin` with its real callers. A handler is a program counter and
the local variables of `DialTargetWithRetries`:

| `pc` | the handler is about to |
|---|---|
| `idle` | be started by an accepted connection |
| `get` | call `GetForTarget` |
| `client` | call `client.Client()` |
| `dial` | dial the target over the SSH connection it read |
| `opened` | call `RecordSuccess` and start the tunnel |
| `refused` | call `RecordFail` |
| `blame` | call `ReportTargetFailure`, and go on or give up |
| `tunnel` | end the tunnel and report on the pair |

There is one step for each lock that is taken and one for the target dial, so
anything can happen in between. `held` says whether the connection the handler
took is still in order. Connections have an identity in it: one that was lost,
closed, or in whose place another was dialled (`Redials`: `EnsureConnected` finds
the client without a connection) stays broken, although the client may have been
given another. The health check is two steps
(`cycle`): expired entries are dropped, then the servers are probed. `Shutdown`
is `CloseAll` under running handlers. The end of a tunnel is left open: either
verdict of `IsLikelyTargetBlocked` is possible for every tunnel, since it
depends on bytes and time.

### FailureThreshold

`Proxy` with a history variable, the failures a pair has had in a row, to
compare the table with the meaning of `TARGET_FAIL_THRESHOLD`.

### StatusTracker

The entries, the two callers of `Flush` (periodic and shutdown), the file, and
a process that can die anywhere and start again. A flush is copy (under
`t.mu`), write of the temporary file, rename; it can fail at the last two. A
start loads the file; when that fails it goes on without entries, as
`connectServers` does (connect.go:29-31). The history variable `results` counts
what really happened, the auxiliary `loaded` remembers whether this process
began with what the file had. Timestamps and error texts are left out.

### App

One serving process.

| Model | Code |
|---|---|
| `main` | `acceptLoop`: the look at `shutdownCh`, `Accept`, the select on `connSem`; `"returned"` ends the process, `"killed"` is a second signal, whose action `signal.Stop` has given back |
| `cleanup`, `Shutdown` | the signal goroutine (shutdown.go:59-83), statement by statement |
| `connSem` | the slots taken |
| `sess[c]` | a connection: in the backlog, accepted, in one of the three reads of the SOCKS5 handshake, dialling, at its target, tunnelling, reporting, over |
| `client[c]`, `target[c]`, `copying[c]` | the two streams and the directions that `TunnelBidirectional` still copies |
| `mu` | who holds `rr.mu` while it waits for the network |
| `disturbed` | history: since the signal, `main` was not always in `Accept` |

Whoever holds `rr.mu` may hold it for ever, so `Dial` and `Report` of handlers,
the health check, `StatsSummary` and `CloseAll` can all be stopped by one silent
peer. Every early return of the handshake is a step that gives the slot back.

### Daemon

The processes of one configuration, one PID file, one port, and a user who types
one command after the other: start (`Daemonize` or `-fg`), `-status`, `-stop`.
The parent of a daemon writes the PID of its child as a step of its own
(daemon.go:72) that may come after anything the child does. Processes hang, crash
and receive signals at any point; a failed bind or a pool without servers is
`log.Fatalf`, which runs no deferred call. `Orderly` says that the user starts a
process only when the last command answered that none is left.

### Settings and Upstream

`Settings` follows one option through `ParseConfig`: defaults taken before
`.env` is read, `godotenv.Load`, the other defaults, the command line,
validation, the second look at `TARGET_PORT`, the defaults of `App.New` and the
tracker. Without `-fg` this happens twice: the parent's `godotenv.Load` has set
its environment, `Daemonize` hands that environment and the command line to the
child (daemon.go:27-66), and the child begins again (`process`). The variable
`environ` is what `os.Getenv` finds, with its origin, so that the second round
differs from the first. A source is silent or holds a text that is empty, does
not parse, is out of range, is 0 where the help gives 0 a meaning, or is good;
for a boolean it is "true" or "false". `-cf` and `-cloudflared` are two sources
of one field and are combined by `||` (config.go:127). All options are looked at,
those that the code treats alike as one. Of a boolean only the words are modelled
that flags and variables read alike: the flag also takes `1` or `t` for true,
the variable takes any other text than "true" for false.

`Upstream` goes on from there to one SSH connection: a line of the servers file
becomes an `SSHServer`, which offers ways to authenticate, and is dialled through
the child process of a ProxyCommand, or directly when that fails; the child
exits by itself at any time, and is killed and waited for by `Close`.

### Proof modules

`RoundRobinProofs`, `PoolLocksProofs`, `AtomicityProofs`, `ProxyProofs`,
`StatusTrackerProofs`, `AppProofs`, `DaemonProofs`, `UpstreamProofs`; see
[Proofs](#proofs).

### MC modules

`MCRoundRobin`, `MCPoolLocks`, `MCProxy` and `MCFailureThreshold` give the
constants their small values: `OwnAddr` has one address per server, `SharedAddr`
lets two servers share one. The other modules are checked as they are.

Operators marked *Mutant* in the modules are slips one could make in the
definition below them; no specification uses them. Each serves to show that a
property does fail when the code is wrong in that way.

## Runs

| Run | Instance | Distinct states | Checks |
|---|---|---|---|
| `pool_failover` | 3 servers, 1 target, threshold 1, failover, fair health check | 74 098 | `TypeOK`, `ActiveConnected`, `HealthyIffConnected`, `OrphansClosed`, `RemoveKeepsActive`, `DeadDropped`, `ActiveRestored` |
| `locks_failover` | 1 requester, health check, shutdown, 2 servers, failover, fair | 125 345 | `AtomicCalls`, `CallsReturn`, `ReadsReturn` |
| `locks_loadbalance` | the same, 3 servers on 2 addresses, cap 1, loadbalance | 214 801 | `MaxActiveBound`, `NoneLeftOut`, `AtomicCalls` |
| `proxy_failover` | 2 handlers, 2 servers, 1 target, failover | 1 172 173 | `LiveKept`, `TryAll`, `BlockStands`, `ActiveKept` |
| `proxy_requests` | 1 handler, 3 servers on 2 addresses, cap 2, threshold 2, loadbalance, fair | 252 190 | `FreshUpstream`, `TryAll`, `RequestSettles`, `UsesPool` |
| `threshold` | 1 handler, 1 server, threshold 2 | violated | `BlockedAtThreshold` |
| `tracker_restart` | 1 address, 2 results of each kind, 3 starts, fair | 37 133 | `Coherent`, `NothingInvented`, `FileGrows`, `Persisted` |
| `app_serving` | 2 connections, 1 slot, both modes, fair | 158 368 | `SlotsCounted`, `FlushedUndisturbed`, `SlotsComeBack`, `NobodyWaits`, `ShutdownEnds`, `NothingCutShort` |
| `app_final_flush` | the same, without fairness | violated | `FlushedAtExit` |
| `daemon_orderly` | 3 processes, an orderly user, fair | 1 364 | `FileNamesServer`, `StopReleases`, `StatusTruthful`, `StopSettles` |
| `daemon_second_instance` | 3 processes, any user | violated | `StatusTruthful` |
| `upstream` | every option, source, foreground and daemon, line of the servers file | 134 312 | `ValuesUsable`, `SourcesRanked`, `NoChildLeft`, `CanAuthenticate` |

The states of `proxy_failover` are counted up to symmetry of handlers and
servers, those of `locks_loadbalance` up to symmetry of the two servers that
share an address. Neither checks liveness; the runs that do use no symmetry,
which would not be sound there. `UsesPool` in failover mode is left to its
theorem: with two handlers it takes TLC longer than all the rest of that run.

### What the properties say

*Pool.*
`ActiveConnected`: an active server is a slot of the pool with a connection.
Selections, health checks and removals each write both variables in several
branches. `HealthyIffConnected`: `healthy` and `client` are written by
several methods; between calls they agree. `OrphansClosed`: an open connection
belongs to a server of the pool; handlers keep clients after their removal, but
cannot revive them. `MaxActiveBound`: startup and selection count separately;
together they respect the cap, at every moment of a call. `RemoveKeepsActive`: `activeIdx` follows
its server when the slice shrinks. `DeadDropped`, `ActiveRestored`: what the
health check exists for.

*Locks.*
`AtomicCalls`: see above. `CallsReturn`: every call gets `rr.mu` and returns,
unless one dial or keepalive never does; the locks by themselves stop nobody.
`NoneLeftOut`: a loop of a selection that gives up has looked at every server
that its request could use, and none of them is connected: its skips, failing
dials and the peers that die meanwhile hide nobody, but at the wrap-around of
`index` where the size of the pool does not divide 2^32.
`ReadsReturn`: a request that has its upstream gets on with it while others
dial, even if that dial lasts for ever, because `Reconnect` releases `c.mu` over
it; only a keepalive, which does not, can stop it.

*Requests.*
`FreshUpstream`: at most `maxUpstreams` attempts, each on a new address.
`TryAll`: with `TARGET_RETRY_UPSTREAMS=0` a request that gives up has tried
every server in this request, as an upstream or by a dial of its last selection
that was recorded as failed, except those blocked for its target, those a load
balancing pool may not connect at its cap, and at the wrap-around of the counter.
`LiveKept`: a connection that works is not closed and not replaced while a
handler has been handed it, dials over it or tunnels through it, although
selections, health checks and other handlers share the client: only the network
and the shutdown end it. A `Reconnect` of a client that is connected would break
it (the mutant). `BlockStands`: a block ends by time or
because a tunnel over that very pair ended; neither looking at the table, nor
cleaning it, nor a dial lifts it. `ActiveKept`: a working active server is left
only for a request that cannot use it. `RequestSettles`: each request ends in a
tunnel or is refused, although connections may vanish under every attempt.
`UsesPool`: all of it is a behaviour of `RoundRobin`.

*Tracker.*
`Coherent`: status, runs and totals of an entry agree in memory, in each copy
and on disk. `NothingInvented`: what is loaded and counted on never exceeds what
happened. `FileGrows`: a process that could load the file takes back nothing that
is in it until its final flush is written. Neither condition can be dropped: after
a failed load the next flush replaces the file by what was counted since, and of
two flushes in flight at the end the later rename wins, whichever copied first.
`Persisted`: each result, success or failure, reaches the disk, unless the process
stops first.

*Application.*
`SlotsCounted`: `connSem` counts the handlers at work, over every early return.
`SlotsComeBack`: a handler whose client left in the handshake, or whose two
streams have finished, gives its slot back, unless `rr.mu` is never released.
`NobodyWaits`: a client that has connected is served or turned away, however full
the limit and however stuck the pool. `ShutdownEnds`: the first signal ends the
process even while `rr.mu` is held for ever, except with `SHOW_UPSTREAM_STATS`,
which asks for `rr.mu` before the listener is closed. `FlushedUndisturbed`: the
final flush precedes the end if the accept loop was in `Accept` all the time from
the signal to the closing of the listener. `NothingCutShort`: a tunnel ends only
when each direction is over for a reason of its own; the end of one does not take
the other with it. It does not say that a half-closed connection is answered: the
end of a stream is not passed on (tunnel.go:19-35), so that a target which waits
for it sends nothing, and such a tunnel stays until one side leaves.

*Daemon*, for an orderly user.
`FileNamesServer`: the PID file names the process that serves, whatever its
predecessors and its parent still write or remove. `StopReleases`: after a
success of `-stop` nothing of a process is left, and no start finds the port
taken by one. `StatusTruthful`: `-status` does not deny a serving process.
`StopSettles`: `-stop` ends.

*Configuration.*
`ValuesUsable`: strategy, mode, limits and times in use are those the other
modules assume; the one option found out too late is the health interval. Usable
is not always what was asked for: `-max-connections 0`, unlimited by its help
(config.go:104), is the built-in limit of 100 (app.go:31-33).
`SourcesRanked`: the command line beats the environment, which beats the file,
with the exceptions the order of the statements makes: `TARGET_PORT`, whose
variable beats the flag; the options whose variable is never read; and those whose
default is taken before the file is read, for which the file counts in the daemon,
as it is in the environment there, and does not with `-fg`. For the two flags of
Cloudflare, one that is true is enough, and `-cf=false` alone does not undo
`CLOUDFLARED=true`. `NoChildLeft`: a child process exists only behind a handshake
or a connection in use.
`CanAuthenticate`: what is accepted can authenticate, but for a ProxyCommand
without key and password.

### Why the bounds are enough

- *Servers.* Three give a removal below, at and above the active slot, a scan
  that wraps around in the middle, and a dial that fails before one that
  succeeds. With two handlers, two servers already let one handler move the
  active server, break or block what the other one holds.
- *Targets.* Entries of different targets do not interact except through the
  active server, and for that the empty target of `Get` and arbitrary exclusions
  stand in as the second request.
- *`IndexSize`* is 2^32 in the code. 4 with three servers keeps the fact that
  2^32 is not a multiple of the number of servers, so that the wrap-around of
  the load balancing scan visits a server twice.
- *Thresholds* 1 (the default) and 2, the first with a partly counted entry.
- *Caps* 1 and 2, each below the number of servers.
- *Handlers and requesters.* They meet only in the pool and in the tracker, and
  a handler's step depends on the others only through these; two reach every pair
  of positions. One requester of `PoolLocks` already meets the health check, the
  shutdown, reports and cleanups in every order.
- *Connections and slots.* Two connections for one slot give a full limit, a
  rejection, and a slot used again.
- *Processes.* Three of them give a successor and a predecessor of the one that
  serves, both with a parent that still has to write.
- *Results and starts.* Two results of a kind make a run that is reset and one
  that goes on; three starts make a process that continues what a restarted
  process saved.

Where a theorem of the same property exists, it needs none of these bounds.

Deadlock is not checked: the pool may be closed and every handler idle, a process
that has ended does nothing more, and one that used up its starts stays down.

## Fairness

Safety-only runs use specifications without fairness.

- `RoundRobin!FairSpec`: weak fairness of the health check. `HEALTH_CHECK` is
  true by default and the ticker of shutdown.go:20 fires for ever; a cycle waits
  only for keepalives and dials. That these return is an assumption about the
  network: neither has a deadline in the code. For `ActiveRestored` a second
  conjunct demands that health checks do not fail in all their dials for ever.
- `PoolLocks!LocksFairSpec`: weak fairness of what the holder of `rr.mu` does
  without the network (the Go scheduler), strong fairness of getting a mutex:
  `sync.Mutex` and `sync.RWMutex` hand the lock to a waiter of more than one
  millisecond. The network owes nothing; the properties name it as the one
  exception. That `shown` settles is fair too; that is bookkeeping and no
  step of the program.
- `Proxy!ProxyFairSpec`: weak fairness of each handler's steps while it dials
  and of the health cycle. The end of a tunnel is not fair: a tunnel may stay
  open for ever. No dial is assumed to succeed.
- `App!FairSpec`: the accept loop runs, an `Accept` that could succeed again and
  again does, the signal goroutine and reports get `rr.mu` if it is released again
  and again, and a handler notices the end of what it reads. For the reports it
  is enough that *some* handler that waits gets the lock: there are finitely many
  connections and each reports once, so that none waits for ever. No client,
  target or SSH server has to do anything.
- `Daemon!FairSpec`: weak fairness of a `-stop` that has begun. Processes may
  hang anywhere.
- `StatusTracker!FairSpec`: weak fairness of the copy (the ticker), strong
  fairness of write and rename: the disk may fail again and again, but not
  always.

## Proofs

Proved for any finite set of clients, any assignment of addresses, any targets,
both strategies, all positive limits, any number of handlers, requesters,
connections, slots, results, starts and processes:

| Module | Theorem | States |
|---|---|---|
| `RoundRobinProofs` | `Invariance` | `Spec => []IInv`, the inductive invariant |
| | `TypeCorrect` | `Spec => []TypeOK` |
| | `ConnectionsBounded` | `Spec => []MaxActiveBound` |
| | `ActiveIsConnected` | `Spec => []ActiveConnected` |
| | `HealthyMeansConnected` | `Spec => []HealthyIffConnected` |
| | `NoOrphans` | `Spec => []OrphansClosed` |
| | `ActiveSurvivesRemoval` | `Spec => RemoveKeepsActive` |
| | `ScansCover` | `Spec => []ScanCovers` |
| `PoolLocksProofs` | `LocksInvariance` | `LocksSpec => []LInv`, the inductive invariant |
| | `BoundedInCalls` | `LocksSpec => []MaxActiveBound` |
| | `LocksTypeCorrect` | `LocksSpec => []LocksTypeOK` |
| `AtomicityProofs` | `RInvariance` | `LocksSpec => []RInv`, the inductive invariant of the refinement |
| | `CallsAreAtomic` | `LocksSpec => AtomicCalls`: the loops implement the pool's specification |
| | `HealthyInCalls` | `LocksSpec => []HealthyIffConnected` |
| | `NobodyIsLeftOut` | `LocksSpec => []NoneLeftOut` |
| `ProxyProofs` | `ImplementsPool` | `ProxySpec => UsesPool`: the program implements the pool's specification |
| | `UpstreamsAreFresh` | `ProxySpec => []FreshUpstream` |
| | `LiveIsKept` | `ProxySpec => LiveKept` |
| | `ProxyTypeCorrect` | `ProxySpec => []ProxyTypeOK` |
| | `BlocksStand` | `ProxySpec => BlockStands` |
| | `ActiveIsKept` | `ProxySpec => ActiveKept` |
| | `AllAreTried` | `ProxySpec => TryAll` |
| `StatusTrackerProofs` | `EntriesCoherent` | `Spec => []Coherent` |
| | `CountsHappened` | `Spec => []NothingInvented` |
| | `FileOnlyGrows` | `Spec => FileGrows` |
| | `TypeCorrect` | `Spec => []TypeOK` |
| `AppProofs` | `SlotsAreCounted` | `Spec => []SlotsCounted` |
| | `FlushHolds` | `Spec => []FlushedUndisturbed` |
| | `TunnelsComplete` | `Spec => NothingCutShort` |
| | `TypeCorrect` | `Spec => []AppTypeOK` |
| `DaemonProofs` | `ServerIsNamed` | `Spec => [](Orderly => FileNamesServer)` |
| | `StopIsBelievable` | `Spec => [](Orderly => StopReleases)` |
| | `StatusIsBelievable` | `Spec => [](Orderly => StatusTruthful)` |
| | `TypeCorrect` | `Spec => []DaemonTypeOK` |
| `UpstreamProofs` | `ChildrenReaped` | `Spec => []NoChildLeft` |
| | `TypeCorrect` | `Spec => []UpstreamTypeOK` |
| | `ValuesAreUsable` | `Spec => []ValuesUsable` |
| | `SourcesAreRanked` | `Spec => []SourcesRanked` |
| | `AcceptedAuthenticates` | `Spec => []CanAuthenticate` |

The assumptions are the named ones of the modules: finite sets (the lines of a
file, the connections of a process), markers that are none of the values, and
positive limits, as `ParseConfig` makes them (`ValuesUsable` is about that). The
type invariants are proved and need no run of their own; only the pool's is
checked by a run, for the counter that wraps around.

The arguments:

- **RoundRobin.** The properties are not inductive one by one. `IInv` is their
  conjunction with `NoneTwice`, and each part is used for another.
  `ActiveConnected` survives a removal only because no client occupies two slots:
  closing the removed client must not close the active one. `OrphansClosed`
  survives a removal for the same reason, and a dial because selections only reach
  servers of the pool (`ScanSlotInRange`). `MaxActiveBound` counts clients: a
  selection adds one only below the cap (`CountGrows`), everything else shrinks
  the set (`CountShrinks`), and in loadbalance mode `ActiveConnected` says that
  there is no active server, so that the failover branches never apply.
  `RemoveKeepsActive` needs the range of the slot, and that no step but a removal
  or `CloseAll` shortens the pool (`OnlyRemovalShrinks`). There is one lemma for
  each action with a step for each conjunct it can disturb.
  `ScanCovers` is arithmetic: adding `k` modulo the size of the pool is a rotation
  of its slots (`Rotation`), and a `uint32` that wraps does not disturb it where
  the size divides the number of its values (`ModOfMultiple`).
- **PoolLocks.** Most of `IInv` does not hold in the middle of a call: a health
  check has cut the active connection and not yet judged it. `LInv` keeps what
  does: the types, the ranges of every loop and of `activeIdx` (`Ranged`), and the
  cap. The cap is inductive only together with the part of `Ranged` that
  remembers, while a dial is under way, that it was begun below the cap: peers may
  die meanwhile, but nobody else opens a connection. `CurrentInPool` says that
  whatever the loop looks at is a server of the pool, and `MinOf` that the first
  server that answered is one of those that did, and none of them is before it.
- **Atomicity.** A call of `RoundRobin` happens in the step that releases `rr.mu`;
  every step before it must leave what the pool shows alone (`StepMaps`). `RInv` is
  what the last step needs to know of those before. *A selection*
  (`SelectionOK`): the number of servers that the loop has passed, `Passed`, is a
  number of steps of `RoundRobin`'s scan, and none of these would have stopped it
  (`Passes`); the addresses looked at are `SeenAddrs` of that number. This needs
  the arithmetic of `LoopScans`: the loop of the code starts behind the active
  server, and comes back to it exactly when the scan of `RoundRobin`, which starts
  with it, is over. *A health check* (`HealthOK`): a server that answered still has
  its connection, one that did not has none, and `shown` differs from the truth for
  no others; hence the connections that show as alive when all are judged are those
  of the servers that answered (`JudgedShows`), which is what `RunHealthChecks`
  looks at. *A shutdown* (`CloseOK`): what it passed is cut. That no client has two
  slots (`NoneTwice`) is used throughout: a keepalive that fails must not cut what
  an earlier one has found alive. `Phased` says that only one `CloseAll` runs, in a
  pool that is still open. `NoneLeftOut` is read off the same invariant at the end
  of the loop (`EndOfScan`): what it has passed are all the steps of the scan, which
  are all servers (`ScanCovers`), and none of these could have stopped it.
- **Proxy.** `PInv` adds to the pool's `IInv` what a handler can rely on where it
  stands: once it has a client, that client was built (`Working`), and one that
  asks for another upstream may have one (`MayAsk`). Every step is then a step of
  the pool's `Next` or leaves it alone (`StepOfPool`), which is the refinement;
  `IInv` comes back from `NextIInv` for each of them. `PInv` contains `HeldInPool`:
  a connection that is held live is the one its client has, so that what the pool
  does to that client decides about it. `LiveKept` then needs of each step of the
  pool that it leaves connections that work where they are (`AliveStays`): a
  selection dials only clients without one (`SelectionBreaksNone`), a health check
  cuts only what does not answer, and `HeldBreaks` turns this into what a handler
  sees. `BlockStands` and `ActiveKept` follow from `PInv` step by step:
  a selection looks only at entries and servers that it may give up
  (`BlockSurvives`, `ActiveStays`). `TryAll` needs the history of a request:
  by `AsksAll` the limit of a request without one is the number of servers, and the
  addresses it has excluded are theirs. As each attempt excludes one more
  (`FreshUpstream`), one that gives up at the limit has excluded them all
  (`AddrsCounted`, `AllExcluded`), and one that gives up in a selection had nobody
  left that it could use (`NobodyLeft`, by `ScanCovers`).
- **StatusTracker.** The properties are strengthened to all maps, the two copies
  included: `MapsCoherent`, `MapsHappened`. `Growing` orders them until the
  final flush has returned, if the file was loaded: the file is at most the copy of
  the periodic flush, and that at most the entries.
- **App.** `SlotsCounted` is inductive with the types: each step moves one
  connection, and the set of handled ones changes by it or not at all.
  `Undisturbed`: as long as `main` was not disturbed it is in `Accept` between the
  signal and the closing of the listener, which is after the flush. `HalvesOver`: a
  direction that is not copied any more is over for a reason of its own, and a
  stream never opens again.
- **Daemon.** For an orderly user at most one process is there and every command
  under way is about it (`Alone`), and the PID file names it from its first step
  until it removes the file (`Named`), because the parent can only write what the
  child has written (it forks one process and waits with the next command).
  Without the types of `answer` and `then` the claim of a past command would not
  carry over to the next start.
- **Upstream.** A child exists only in the two stages that end by `CloseConn`;
  the types carry the configuration with them. `SInv` says that after every step of
  `ParseConfig` the environment, the default and the value are what the sources
  determine (`Determined`, with `Environ`, `Default`, `Parsed`, ... as functions of
  the texts and of the process): each step takes the next of these definitions, and
  `Daemonize` returns to the first with the environment of the last. What they come
  to is then a matter of cases, `UsedText` for the values, `OthersRanked` and
  `EitherRanked` for the sources. `CanAuthenticate` is kept because nothing after
  `ParseServersFile` changes the server.

Only model-checked: the liveness properties (`DeadDropped`, `ActiveRestored`,
`RequestSettles`, `CallsReturn`, `ReadsReturn`, `SlotsComeBack`, `NobodyWaits`,
`ShutdownEnds`, `StopSettles`, `Persisted`), which are out of the prover's reach.
Every invariant, action property and refinement that a passing run checks is
proved as well.

## Findings

Runs that show the code to disagree with what its documents say of it:

1. `threshold`. README.md:99 has `TARGET_FAIL_THRESHOLD` count the failures
   before a block. With 2 or more no sequence of single requests ever blocks:
   isTargetBlockedLocked (targetfailure.go:23) deletes every entry that is not
   in force, the one that is still counting too, and a selection looks at the
   entry between any two failures of one handler. Only failures that overlap
   can add up.
2. `app_final_flush`. README.md:136 says that server health is persisted to
   survive restarts. The signal goroutine closes `shutdownCh` before it flushes; an
   accept loop that looks at the channel in between (app.go:98) returns, and the
   process ends without the final flush.
3. `daemon_second_instance`. README.md:119 has `-status` check the daemon. A
   second instance overwrites the PID file before it fails to bind and leaves it
   behind; `-status` then denies the instance that serves.

Met while modelling, without a run of their own:

- `-max-connections` is "0 = unlimited" in its help (config.go:104); app.go:31-33
  makes 100 of it. `ValuesUsable` states what the code does.
- A process that cannot read or parse the status file warns, goes on without
  entries (connect.go:29-31), and its next flush replaces the file, whatever
  README.md:136 says of restarts. `Restart` has that case; `FileGrows` leaves it out.
- `Stop` of the tracker does not wait for a periodic flush that has copied the
  entries: its rename can follow the final one (persistence.go:76) and put the older
  entries over it. The model does this; `FileGrows` ends with the final flush.
- Where the counter of a load balancing pool wraps around within a scan
  (strategy.go:16), one server is met twice and another skipped, and a request may
  be refused with that one untried, against "try all" (README.md:98, config.go:112).
  `TryAll` and `NoneLeftOut` name the exception (`ScanWraps`).
- README.md:15 has options managed by `.env` files, and `.env.example` lists
  `TARGET_FAIL_TTL` and `SHOW_UPSTREAM_STATS`. The first is never read from the
  environment (it is a flag only, as is the health interval); the second is read
  before the file is loaded, so that the file counts in the daemon, which inherits it
  as a variable, and not with `-fg`. `SourcesRanked` states this.
- README.md:103 calls `MAX_ACTIVE_UPSTREAMS` the maximum of concurrent SSH
  connections, by default 1. The default in the code is 2, and a failover pool
  dials whatever server it scans (strategy.go:103) and never closes the one it
  left.
- In loadbalance mode servers without a connection are skipped at the cap, so that
  "try all" (README.md:98) leaves them out; `TryAll` names the exception.
- README.md:101 names the flag of `SHOW_UPSTREAM_STATS` `-show-upstream-stats` with
  default true; it is `-upstream-stats`, with default false. `RETRY_COUNT` is read
  and not used.
- With `CLOUDFLARED=true`, `-cf=false` has no effect: `-cloudflared` keeps the
  default and the two are combined by `||` (config.go:127).
- The end of a stream is not passed on by a tunnel (no `CloseWrite` in
  tunnel.go:19-35).
- `-status` after a clean stop ends with an error, as there is no PID file.
  `Daemonize` reports its success before the child has done anything.
- A health interval of zero or less panics in the health check goroutine.
- The slot of a scan is `int(startIdx+uint32(checked)) % len(rr.servers)`
  (strategy.go:16): the sum wraps at 2^32 and is converted *before* the remainder.
  Where `int` has 64 bits the slot is in range, and that is what `RoundRobin` models.
  In the 32-bit builds of the Makefile (arm, 386) a sum of 2^31 or more is a negative
  `int`, so the remainder can be negative and the index panics. Not modelled.

## Not modelled

- *Statistics and logging*: `StatsSnapshot`, `StatsSummary`, hit counters,
  times, error texts. These only read. That `StatsSummary` takes `rr.mu` is in
  `App`.
- *The verdict of `IsLikelyTargetBlocked`*: a comparison of bytes and times;
  `Proxy` leaves it open, so that its properties hold for either.
- *The network below SSH*: whether a dial or a keepalive succeeds, and when.
- *Text*: the splitting of a line of the servers file, the expansion of `~`, the
  replies of SOCKS5, the format of the status file.
- *PIDs that are given to other programs*, a PID file that cannot be read or
  written: they depend on the rest of the machine.
- *Loss of power*: the status file is never synced; a rename is taken to be
  durable.
- *Deadlines of `commandConn`*: nobody sets one. Its `Read` and `Write` are the
  SSH library's business.
- `GetDeprioritized`, `SeedTargetFailures`, `Snapshot`, `GetEntry` of the
  tracker: they read only, and the program never calls them.

## Plan

What is left, most valuable first.

1. **An abstract failure table**: blocked pairs with reasons to enter and to
   leave, implemented by `Proxy`, checked and proved.
2. **App over Proxy**: the handlers of one in place of those of the other, with
   the shutdown that closes the pool under them.
3. **The safety half of liveness, by proof**: that a step which lets a request, a
   slot or a stop come nearer to its end is never undone (what the counters of
   `RequestSettles` and `SlotsComeBack` decrease by), so that only fairness itself
   is left to TLC.
