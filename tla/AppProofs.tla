----------------------------- MODULE AppProofs ------------------------------
(***************************************************************************)
(* The safety properties of App, proved for any number of connections and  *)
(* any limit.                                                              *)
(***************************************************************************)
EXTENDS App, TLAPS, FiniteSetTheorems

States == {"unborn", "backlog", "accepted", "rejected", "hello", "methods",
           "request", "dial", "target", "tunnel", "report", "over"}

Working == Handshake \cup {"dial", "target", "tunnel", "report"}

Slots == {c \in Conns : Handled(c)}

(* Until the listener is closed main waits in Accept, unless it was        *)
(* disturbed; and an undisturbed return follows the flush.                 *)
Undisturbed ==
    /\ ~disturbed /\ Done("signal") /\ ~Done("listener") => main \in {"accept", "killed"}
    /\ FlushedUndisturbed

(* A direction that is not copied any more has lost its sender or its      *)
(* receiver.                                                               *)
HalvesOver ==
    \A c \in Conns : sess[c] = "tunnel" =>
        /\ "up" \notin copying[c] => client[c] # "open" \/ target[c] = "gone"
        /\ "down" \notin copying[c] => target[c] # "open" \/ client[c] = "gone"

-----------------------------------------------------------------------------
(* Lemmas *)

(* The order of the shutdown, as numbers.                                  *)
LEMMA DoneSteps ==
    ASSUME cleanup \in 0 .. Len(Shutdown)
    PROVE  /\ Len(Shutdown) = 9
           /\ Done("signal") <=> cleanup >= 1
           /\ Done("shutdownCh") <=> cleanup >= 2
           /\ Done("flush") <=> cleanup >= 5
           /\ Done("listener") <=> cleanup >= 7
BY DEF Done, Shutdown

(* A move of one connection, and the slots in use after it.                *)
LEMMA MoveOne ==
    ASSUME AppTypeOK, NEW c \in Conns, NEW from, NEW to \in States, Goto(c, from, to)
    PROVE  /\ sess' \in [Conns -> States]
           /\ c \in Slots <=> from \in Working
           /\ Slots' = IF to \in Working THEN Slots \cup {c} ELSE Slots \ {c}
BY DEF AppTypeOK, States, Goto, Slots, Handled, Working, Handshake

LEMMA SlotsFinite == IsFiniteSet(Slots)
  BY AppAssumption, FS_Subset DEF Slots

(* A step that takes no slot and gives none back.                          *)
LEMMA SameSlots ==
    ASSUME AppTypeOK, SlotsCounted, UNCHANGED connSem, Slots' = Slots
    PROVE  SlotsCounted'
BY DEF SlotsCounted, Slots

(* The end of a handler gives back the slot it held.                       *)
LEMMA FinishSlots ==
    ASSUME AppTypeOK, SlotsCounted, NEW c \in Conns, NEW from \in Working, Finish(c, from)
    PROVE  /\ sess' \in [Conns -> States] /\ connSem' \in 0 .. MaxConns
           /\ client' \in [Conns -> Streams] /\ target' \in [Conns -> Streams]
           /\ copying' = copying
           /\ SlotsCounted'
<1>1. Goto(c, from, "over") /\ connSem' = connSem - 1 /\ copying' = copying
  BY DEF Finish
<1>2. /\ sess' \in [Conns -> States]
      /\ c \in Slots /\ Slots' = Slots \ {c}
  BY <1>1, MoveOne DEF States, Working, Handshake
<1>3. /\ Cardinality(Slots) \in Nat /\ Slots # {}
      /\ Cardinality(Slots \ {c}) = Cardinality(Slots) - 1
  BY <1>2, SlotsFinite, FS_RemoveElement, FS_CardinalityType
<1>4. connSem = Cardinality(Slots) /\ connSem \in 0 .. MaxConns
  BY DEF SlotsCounted, Slots, AppTypeOK
<1>5. Cardinality(Slots) # 0
  BY <1>3, SlotsFinite, FS_EmptySet
<1>6. connSem' = Cardinality(Slots') /\ connSem' \in 0 .. MaxConns
  BY <1>1, <1>2, <1>3, <1>4, <1>5, AppAssumption
<1>7. client' \in [Conns -> Streams] /\ target' \in [Conns -> Streams]
  BY DEF Finish, AppTypeOK, Streams
<1> QED
  BY <1>1, <1>2, <1>6, <1>7 DEF SlotsCounted, Slots

-----------------------------------------------------------------------------
(* Types and slots *)

LEMMA InitTypeSlots == Init => AppTypeOK /\ SlotsCounted
<1> SUFFICES ASSUME Init PROVE AppTypeOK /\ SlotsCounted
  OBVIOUS
<1>1. AppTypeOK
  <2>1. cleanup \in 0 .. Len(Shutdown)
    BY DEF Init, Shutdown
  <2>2. connSem \in 0 .. MaxConns
    BY AppAssumption DEF Init
  <2> QED
    BY <2>1, <2>2 DEF Init, AppTypeOK, Streams
<1>2. {c \in Conns : Handled(c)} = {}
  BY DEF Init, Handled, Handshake
<1> QED
  BY <1>1, <1>2, FS_EmptySet DEF SlotsCounted, Init

LEMMA LoopTypeSlots ==
    AppTypeOK /\ SlotsCounted /\ (LoopStep \/ AcceptFails) => AppTypeOK' /\ SlotsCounted'
<1> SUFFICES ASSUME AppTypeOK, SlotsCounted, LoopStep \/ AcceptFails
             PROVE  AppTypeOK' /\ SlotsCounted'
  OBVIOUS
<1>1. CASE Check \/ AcceptFails
  <2>1. sess' = sess /\ connSem' = connSem /\ main' \in {"returned", "check", "accept"}
    BY <1>1 DEF Check, AcceptFails, Loop
  <2>2. AppTypeOK'
    BY <1>1, <2>1 DEF AppTypeOK, Check, AcceptFails, Disturb, network
  <2> QED
    BY <2>1, <2>2, SameSlots DEF Slots, Handled
<1>2. CASE Accept
  <2>1. PICK c \in Conns : Goto(c, "backlog", "accepted")
    BY <1>2 DEF Accept
  <2>2. sess' \in [Conns -> States] /\ Slots' = Slots
    BY <2>1, MoveOne DEF States, Working, Handshake
  <2>3. AppTypeOK'
    BY <1>2, <2>2 DEF AppTypeOK, Accept, Loop, Disturb, network, States
  <2> QED
    BY <1>2, <2>2, <2>3, SameSlots DEF Accept
<1>3. CASE Admit
  <2>1. PICK c \in Conns :
           \/ /\ connSem < MaxConns /\ connSem' = connSem + 1
              /\ Goto(c, "accepted", IF cfg.Mode = "socks5" THEN "hello" ELSE "dial")
           \/ UNCHANGED connSem /\ Goto(c, "accepted", "rejected")
    BY <1>3 DEF Admit
  <2>2. CASE /\ connSem < MaxConns /\ connSem' = connSem + 1
             /\ Goto(c, "accepted", IF cfg.Mode = "socks5" THEN "hello" ELSE "dial")
    <3>1. /\ sess' \in [Conns -> States]
          /\ c \notin Slots /\ Slots' = Slots \cup {c}
      BY <2>2, MoveOne DEF States, Working, Handshake
    <3>2. Cardinality(Slots') = Cardinality(Slots) + 1
      BY <3>1, SlotsFinite, FS_AddElement
    <3>3. SlotsCounted'
      BY <2>2, <3>2 DEF SlotsCounted, Slots
    <3>4. AppTypeOK'
      BY <1>3, <2>2, <3>1, AppAssumption DEF AppTypeOK, Admit, Loop, network, States
    <3> QED
      BY <3>3, <3>4
  <2>3. CASE UNCHANGED connSem /\ Goto(c, "accepted", "rejected")
    <3>1. sess' \in [Conns -> States] /\ Slots' = Slots
      BY <2>3, MoveOne DEF States, Working, Handshake
    <3>2. AppTypeOK'
      BY <1>3, <2>3, <3>1 DEF AppTypeOK, Admit, Loop, network, States
    <3> QED
      BY <2>3, <3>1, <3>2, SameSlots
  <2> QED
    BY <2>1, <2>2, <2>3
<1> QED
  BY <1>1, <1>2, <1>3 DEF LoopStep

(* A handler moves on within its work, or gives its slot back.             *)
LEMMA HandlerTypeSlots ==
    ASSUME AppTypeOK, SlotsCounted, NEW c \in Conns, Handler(c)
    PROVE  AppTypeOK' /\ SlotsCounted'
<1>1. ASSUME NEW from \in Working, Finish(c, from),
             UNCHANGED <<cfg, main, cleanup, disturbed>>, mu' \in {mu, "free"}
      PROVE  AppTypeOK' /\ SlotsCounted'
  <2>1. /\ sess' \in [Conns -> States] /\ connSem' \in 0 .. MaxConns
        /\ client' \in [Conns -> Streams] /\ target' \in [Conns -> Streams]
        /\ copying' = copying
        /\ SlotsCounted'
    BY <1>1, FinishSlots
  <2> QED
    BY <1>1, <2>1 DEF AppTypeOK, States
<1>2. ASSUME NEW from \in Working, NEW to \in Working, Goto(c, from, to),
             UNCHANGED <<cfg, main, cleanup, disturbed, connSem, client, target>>,
             mu' \in {mu, c, "free"}, copying' \in [Conns -> SUBSET {"up", "down"}]
      PROVE  AppTypeOK' /\ SlotsCounted'
  <2>1. sess' \in [Conns -> States] /\ Slots' = Slots
    BY <1>2, MoveOne DEF States, Working, Handshake
  <2>2. AppTypeOK'
    BY <1>2, <2>1 DEF AppTypeOK, States
  <2> QED
    BY <1>2, <2>1, <2>2, SameSlots
<1>3. ASSUME UNCHANGED <<cfg, main, cleanup, disturbed, connSem, sess, client, target>>,
             mu' \in {mu, c}, copying' \in [Conns -> SUBSET {"up", "down"}]
      PROVE  AppTypeOK' /\ SlotsCounted'
  <2>1. AppTypeOK'
    BY <1>3 DEF AppTypeOK
  <2> QED
    BY <1>3, <2>1, SameSlots DEF Slots, Handled
<1>4. copying \in [Conns -> SUBSET {"up", "down"}]
  BY DEF AppTypeOK
<1>5. CASE ShortRead(c)
  BY <1>1, <1>5 DEF ShortRead, Working
<1>6. CASE ReadsEnd(c) \/ WriteFails(c)
  <2>1. PICK direction \in {"up", "down"} : Stops(c, direction)
    BY <1>6 DEF ReadsEnd, WriteFails
  <2> QED
    BY <1>3, <1>4, <2>1 DEF Stops
<1>7. CASE TunnelEnds(c)
  BY <1>2, <1>4, <1>7 DEF TunnelEnds, network, Working
<1>8. CASE Read(c)
  BY <1>2, <1>4, <1>8 DEF Read, network, Working, Handshake
<1>9. CASE Refuse(c)
  BY <1>1, <1>9 DEF Refuse, Working, Handshake
<1>10. CASE Dial(c)
  BY <1>3, <1>4, <1>10 DEF Dial, network
<1>11. CASE DialReturns(c)
  BY <1>1, <1>2, <1>4, <1>11 DEF DialReturns, network, Working
<1>12. CASE TargetOpens(c)
  BY <1>2, <1>4, <1>12 DEF TargetOpens, Working
<1>13. CASE TargetFails(c)
  BY <1>2, <1>4, <1>13 DEF TargetFails, network, Working
<1>14. CASE Report(c)
  BY <1>1, <1>14 DEF Report, Working
<1> QED
  BY <1>5, <1>6, <1>7, <1>8, <1>9, <1>10, <1>11, <1>12, <1>13, <1>14 DEF Handler, Runs

LEMMA OthersTypeSlots ==
    ASSUME AppTypeOK, SlotsCounted,
           Signal \/ CleanupStep \/ SecondSignal \/ HealthCycle \/ \E c \in Conns : World(c)
    PROVE  AppTypeOK' /\ SlotsCounted'
<1>1. CASE Signal \/ CleanupStep \/ SecondSignal \/ HealthCycle
  <2>1. sess' = sess /\ connSem' = connSem
    BY <1>1 DEF Signal, CleanupStep, SecondSignal, HealthCycle
  <2>2. AppTypeOK'
    <3>1. CASE Signal
      <4>1. cleanup' = 1
        BY <3>1 DEF Signal
      <4>2. cleanup' \in 0 .. Len(Shutdown)
        BY <4>1 DEF Shutdown
      <4>3. disturbed' \in BOOLEAN
        BY <3>1 DEF Signal
      <4> QED
        BY <3>1, <4>2, <4>3 DEF Signal, AppTypeOK, network
    <3>2. CASE CleanupStep
      <4>1. target' \in [Conns -> Streams]
        BY <3>2 DEF CleanupStep, AppTypeOK, Streams
      <4>2. cleanup' \in 0 .. Len(Shutdown)
        BY <3>2, DoneSteps DEF CleanupStep, AppTypeOK
      <4> QED
        BY <3>2, <4>1, <4>2 DEF CleanupStep, AppTypeOK
    <3>3. CASE SecondSignal
      BY <3>3 DEF SecondSignal, AppTypeOK, network
    <3>4. CASE HealthCycle
      BY <3>4 DEF HealthCycle, AppTypeOK, network
    <3> QED
      BY <1>1, <3>1, <3>2, <3>3, <3>4
  <2> QED
    BY <2>1, <2>2, SameSlots DEF Slots, Handled
<1>2. ASSUME NEW c \in Conns, Connect(c)
      PROVE  AppTypeOK' /\ SlotsCounted'
  <2>1. sess' \in [Conns -> States] /\ Slots' = Slots
    BY <1>2, MoveOne DEF Connect, States, Working, Handshake
  <2>2. AppTypeOK'
    BY <1>2, <2>1 DEF Connect, AppTypeOK, network, States
  <2> QED
    BY <1>2, <2>1, <2>2, SameSlots DEF Connect, network
<1>3. ASSUME NEW c \in Conns, ClientLeaves(c) \/ TargetLeaves(c)
      PROVE  AppTypeOK' /\ SlotsCounted'
  <2>1. sess' = sess /\ connSem' = connSem
    BY <1>3 DEF ClientLeaves, TargetLeaves
  <2>2. AppTypeOK'
    BY <1>3 DEF ClientLeaves, TargetLeaves, Fades, AppTypeOK, Streams
  <2> QED
    BY <2>1, <2>2, SameSlots DEF Slots, Handled
<1> QED
  BY <1>1, <1>2, <1>3 DEF World

LEMMA NextTypeSlots ==
    AppTypeOK /\ SlotsCounted /\ [Next]_vars => AppTypeOK' /\ SlotsCounted'
<1> SUFFICES ASSUME AppTypeOK, SlotsCounted, [Next]_vars
             PROVE  AppTypeOK' /\ SlotsCounted'
  OBVIOUS
<1>1. CASE UNCHANGED vars
  BY <1>1 DEF vars, AppTypeOK, SlotsCounted, Handled
<1> QED
  BY <1>1, LoopTypeSlots, HandlerTypeSlots, OthersTypeSlots DEF Next

(* Every variable keeps its type; connSem stays within the limit.          *)
THEOREM TypeCorrect == Spec => []AppTypeOK
  BY InitTypeSlots, NextTypeSlots, PTL DEF Spec

(* connSem counts the handlers at work, for any number of connections, any *)
(* limit and every way out of a handler (app.go:113-126).                  *)
THEOREM SlotsAreCounted == Spec => []SlotsCounted
  BY InitTypeSlots, NextTypeSlots, PTL DEF Spec

-----------------------------------------------------------------------------
(* The flush *)

LEMMA InitUndisturbed == Init => Undisturbed
<1> SUFFICES ASSUME Init PROVE Undisturbed
  OBVIOUS
<1>1. ~Done("signal")
  BY DEF Init, Done
<1> QED
  BY <1>1 DEF Init, Undisturbed, FlushedUndisturbed

(* main leaves Accept only disturbed or after the listener is closed.      *)
LEMMA LoopUndisturbed ==
    ASSUME AppTypeOK, Undisturbed, LoopStep \/ AcceptFails
    PROVE  Undisturbed'
<1>1. cleanup' = cleanup
  BY DEF LoopStep, Check, Accept, AcceptFails, Admit
<1>2. \A step : Done(step)' <=> Done(step)
  BY <1>1 DEF Done
<1>3. /\ Done("shutdownCh") => Done("signal")
      /\ Done("listener") => Done("flush")
  BY DoneSteps DEF AppTypeOK
<1>4. CASE Check
  BY <1>2, <1>3, <1>4 DEF Check, Loop, Undisturbed, FlushedUndisturbed
<1>5. CASE Accept
  BY <1>2, <1>3, <1>5 DEF Accept, Loop, Disturb, Undisturbed, FlushedUndisturbed
<1>6. CASE AcceptFails
  BY <1>2, <1>3, <1>6 DEF AcceptFails, Loop, Disturb, Undisturbed, FlushedUndisturbed
<1>7. CASE Admit
  BY <1>2, <1>3, <1>7 DEF Admit, Loop, Undisturbed, FlushedUndisturbed
<1> QED
  BY <1>4, <1>5, <1>6, <1>7 DEF LoopStep

(* No step but those of acceptLoop and of the signal goroutine matters.    *)
LEMMA NextUndisturbed ==
    ASSUME AppTypeOK, Undisturbed, [Next]_vars
    PROVE  Undisturbed'
<1>1. CASE LoopStep \/ AcceptFails
  BY <1>1, LoopUndisturbed
<1>2. CASE ~Ended /\ Signal
  <2>1. main' = main /\ main # "returned"
    BY <1>2 DEF Signal, Ended
  <2>2. ~disturbed' => main = "accept"
    BY <1>2 DEF Signal
  <2> QED
    BY <2>1, <2>2 DEF Undisturbed, FlushedUndisturbed
<1>3. CASE CleanupStep
  <2>1. /\ cleanup \in 1 .. Len(Shutdown) - 1 /\ cleanup' = cleanup + 1
        /\ main' = main /\ disturbed' = disturbed
    BY <1>3 DEF CleanupStep
  <2>2. /\ Done("signal") /\ (Done("listener") => Done("listener")')
        /\ Done("flush") => Done("flush")'
    BY <2>1 DEF Done, Shutdown
  <2> QED
    BY <2>1, <2>2 DEF Undisturbed, FlushedUndisturbed
<1>4. CASE SecondSignal
  BY <1>4 DEF SecondSignal, Undisturbed, FlushedUndisturbed
<1>5. CASE UNCHANGED <<main, cleanup, disturbed>>
  BY <1>5 DEF Undisturbed, FlushedUndisturbed, Done
<1>6. ASSUME NEW c \in Conns, Handler(c) \/ World(c)
      PROVE  UNCHANGED <<main, cleanup, disturbed>>
  BY <1>6 DEF Handler, Runs, World, ShortRead, ReadsEnd, WriteFails, Stops, TunnelEnds,
     Read, Refuse, Dial, DialReturns, TargetOpens, TargetFails, Report,
     Connect, ClientLeaves, TargetLeaves
<1>7. HealthCycle \/ UNCHANGED vars => UNCHANGED <<main, cleanup, disturbed>>
  BY DEF HealthCycle, vars
<1> QED
  BY <1>1, <1>2, <1>3, <1>4, <1>5, <1>6, <1>7 DEF Next

(* main returns without the final flush only if it was not waiting in      *)
(* Accept all the time from the signal on (app.go:98-111, shutdown.go).    *)
THEOREM FlushHolds == Spec => []FlushedUndisturbed
<1>1. Init => AppTypeOK /\ Undisturbed
  BY InitTypeSlots, InitUndisturbed
<1>2. Undisturbed => FlushedUndisturbed
  BY DEF Undisturbed
<1>3. AppTypeOK /\ Undisturbed /\ [Next]_vars => Undisturbed'
  BY NextUndisturbed
<1> QED
  BY <1>1, <1>2, <1>3, TypeCorrect, PTL DEF Spec

-----------------------------------------------------------------------------
(* The tunnels *)

(* A stream only fades.                                                    *)
Fading(stream, later) ==
    \A c \in Conns : /\ stream[c] # "open" => later[c] # "open"
                     /\ stream[c] = "gone" => later[c] = "gone"

(* A step that starts no tunnel and stops no direction of one.             *)
LEMMA TunnelsKept ==
    ASSUME HalvesOver, Fading(client, client'), Fading(target, target'),
           \A c \in Conns : sess'[c] = "tunnel" => sess[c] = "tunnel" /\ copying'[c] = copying[c]
    PROVE  HalvesOver'
BY DEF HalvesOver, Fading

LEMMA FinishFades ==
    ASSUME AppTypeOK, HalvesOver, NEW c \in Conns, NEW from \in Working, Finish(c, from)
    PROVE  HalvesOver'
<1>1. /\ sess' = [sess EXCEPT ![c] = "over"] /\ copying' = copying
      /\ client' = [client EXCEPT ![c] = "gone"] /\ target' = [target EXCEPT ![c] = "gone"]
  BY DEF Finish, Goto
<1>2. Fading(client, client') /\ Fading(target, target')
  BY <1>1 DEF Fading, AppTypeOK
<1>3. \A d \in Conns : sess'[d] = "tunnel" => sess[d] = "tunnel" /\ copying'[d] = copying[d]
  BY <1>1 DEF AppTypeOK
<1> QED
  BY <1>2, <1>3, TunnelsKept

(* A move of a connection that is not the start of a tunnel.               *)
LEMMA MoveFades ==
    ASSUME AppTypeOK, HalvesOver, UNCHANGED network,
           NEW c \in Conns, NEW from, NEW to \in States \ {"tunnel"}, Goto(c, from, to)
    PROVE  HalvesOver'
<1>1. Fading(client, client') /\ Fading(target, target')
  BY DEF network, Fading
<1>2. \A d \in Conns : sess'[d] = "tunnel" => sess[d] = "tunnel" /\ copying'[d] = copying[d]
  BY DEF Goto, AppTypeOK, network
<1> QED
  BY <1>1, <1>2, TunnelsKept

LEMMA HandlerHalves ==
    ASSUME AppTypeOK, HalvesOver, NEW c \in Conns, Handler(c)
    PROVE  HalvesOver'
<1>1. ASSUME NEW direction \in {"up", "down"}, Stops(c, direction),
             direction = "up" => client[c] # "open" \/ target[c] = "gone",
             direction = "down" => target[c] # "open" \/ client[c] = "gone"
      PROVE  HalvesOver'
  <2>1. /\ sess' = sess /\ client' = client /\ target' = target
        /\ copying' = [copying EXCEPT ![c] = copying[c] \ {direction}]
    BY <1>1 DEF Stops
  <2> QED
    BY <1>1, <2>1 DEF HalvesOver, AppTypeOK
<1>2. CASE ReadsEnd(c) \/ WriteFails(c)
  BY <1>1, <1>2 DEF ReadsEnd, WriteFails
<1>3. CASE ShortRead(c)
  BY <1>3, FinishFades DEF ShortRead, Working
<1>4. CASE TunnelEnds(c)
  BY <1>4, MoveFades DEF TunnelEnds, States
<1>5. CASE Read(c)
  BY <1>5, MoveFades DEF Read, States
<1>6. CASE Refuse(c)
  BY <1>6, FinishFades DEF Refuse, Working, Handshake
<1>7. CASE Dial(c)
  BY <1>7 DEF Dial, network, HalvesOver
<1>8. CASE DialReturns(c)
  BY <1>8, MoveFades, FinishFades DEF DialReturns, States, Working
<1>9. CASE TargetOpens(c)
  BY <1>9 DEF TargetOpens, Goto, HalvesOver, AppTypeOK
<1>10. CASE TargetFails(c)
  BY <1>10, MoveFades DEF TargetFails, States
<1>11. CASE Report(c)
  BY <1>11, FinishFades DEF Report, Working
<1> QED
  BY <1>2, <1>3, <1>4, <1>5, <1>6, <1>7, <1>8, <1>9, <1>10, <1>11 DEF Handler, Runs

LEMMA NextHalves ==
    ASSUME AppTypeOK, HalvesOver, [Next]_vars
    PROVE  HalvesOver'
<1>1. CASE Accept \/ Admit \/ \E c \in Conns : Connect(c)
  <2>1. PICK c \in Conns, to \in States \ {"tunnel"}, from \in States : Goto(c, from, to)
    BY <1>1 DEF Accept, Admit, Connect, States
  <2>2. UNCHANGED network
    BY <1>1 DEF Accept, Admit, Connect
  <2> QED
    BY <2>1, <2>2, MoveFades
<1>2. CASE CleanupStep
  <2>1. sess' = sess /\ copying' = copying /\ client' = client
    BY <1>2 DEF CleanupStep
  <2>2. Fading(client, client') /\ Fading(target, target')
    BY <1>2, <2>1 DEF Fading, CleanupStep
  <2> QED
    BY <2>1, <2>2, TunnelsKept
<1>3. ASSUME NEW c \in Conns, ClientLeaves(c) \/ TargetLeaves(c)
      PROVE  HalvesOver'
  <2>1. sess' = sess /\ copying' = copying
    BY <1>3 DEF ClientLeaves, TargetLeaves
  <2>2. Fading(client, client') /\ Fading(target, target')
    BY <1>3 DEF ClientLeaves, TargetLeaves, Fades, Fading, AppTypeOK
  <2> QED
    BY <2>1, <2>2, TunnelsKept
<1>4. CASE Check \/ AcceptFails \/ Signal \/ SecondSignal \/ HealthCycle \/ UNCHANGED vars
  BY <1>4 DEF Check, AcceptFails, Signal, SecondSignal, HealthCycle, vars, network, HalvesOver
<1>5. ASSUME NEW c \in Conns, Handler(c)
      PROVE  HalvesOver'
  BY <1>5, HandlerHalves
<1> QED
  BY <1>1, <1>2, <1>3, <1>4, <1>5 DEF Next, LoopStep, World

(* A tunnel ends only when both of its directions are over, each for a     *)
(* reason of its own, whatever other connections, the pool and the         *)
(* shutdown do: the end of one does not end the other (tunnel.go:37).      *)
THEOREM TunnelsComplete == Spec => NothingCutShort
<1>1. Init => AppTypeOK /\ HalvesOver
  BY InitTypeSlots DEF Init, HalvesOver
<1>2. ASSUME AppTypeOK, HalvesOver, [Next]_vars, NEW c \in Conns,
             sess[c] = "tunnel", sess'[c] # "tunnel"
      PROVE  /\ client[c] # "open" \/ target[c] = "gone"
             /\ target[c] # "open" \/ client[c] = "gone"
  <2>1. sess' # sess
    BY <1>2
  <2>2. ~(LoopStep \/ AcceptFails \/ Signal \/ CleanupStep \/ SecondSignal \/ HealthCycle
           \/ \E d \in Conns : World(d))
    BY <1>2, <2>1 DEF LoopStep, Check, Accept, Admit, AcceptFails, Signal, CleanupStep,
       SecondSignal, HealthCycle, World, Connect, ClientLeaves, TargetLeaves, Goto, AppTypeOK
  <2>3. PICK d \in Conns : Handler(d)
    BY <1>2, <2>1, <2>2 DEF Next, vars
  <2>4. TunnelEnds(c)
    BY <1>2, <2>3 DEF Handler, Runs, ShortRead, ReadsEnd, WriteFails, Stops, TunnelEnds,
       Read, Refuse, Dial, DialReturns, TargetOpens, TargetFails, Report,
       Finish, Goto, Handshake, AppTypeOK
  <2> QED
    BY <1>2, <2>4 DEF TunnelEnds, HalvesOver
<1>3. AppTypeOK /\ HalvesOver /\ [Next]_vars =>
         [\A c \in Conns : sess[c] = "tunnel" /\ sess'[c] # "tunnel" =>
            /\ client[c] # "open" \/ target[c] = "gone"
            /\ target[c] # "open" \/ client[c] = "gone"]_vars
  BY <1>2
<1>4. AppTypeOK /\ HalvesOver /\ [Next]_vars => HalvesOver'
  BY NextHalves
<1> QED
  BY <1>1, <1>3, <1>4, TypeCorrect, PTL DEF Spec, NothingCutShort
=============================================================================
