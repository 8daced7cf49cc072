------------------------ MODULE StatusTrackerProofs -------------------------
(***************************************************************************)
(* The safety properties of StatusTracker, proved for any set of addresses *)
(* and any number of results and of starts.                                *)
(***************************************************************************)
EXTENDS StatusTracker, TLAPS

(* Coherent of one entry.                                                  *)
CoherentEntry(e) ==
    /\ e.Status = "fail" <=> e.ConsecutiveFail > 0
    /\ e.Status = "success" <=> e.ConsecutiveOK > 0
    /\ e.ConsecutiveOK <= e.TotalSuccess
    /\ e.ConsecutiveFail <= e.TotalFail

CoherentMap(m) == \A a \in Servers : m[a] # NoEntry => CoherentEntry(m[a])

(* What a map counts has happened.                                         *)
Happened(m) ==
    \A a \in Servers : Successes(m, a) <= results[a].success /\ Failures(m, a) <= results[a].fail

(* The same of all the maps, the copies of the flushes included: they      *)
(* become the file.                                                        *)
MapsCoherent ==
    CoherentMap(entries) /\ CoherentMap(file) /\ \A f \in Flushers : CoherentMap(copy[f])

MapsHappened ==
    Happened(entries) /\ Happened(file) /\ \A f \in Flushers : Happened(copy[f])

(* Until the final flush has returned, only the periodic flush has         *)
(* replaced the file.  In a process that loaded it, the copy of that flush *)
(* is between the file and the entries.  A process that is gone has left   *)
(* nothing but the file.                                                   *)
Growing ==
    /\ running /\ stopping # "stopped" /\ loaded =>
        /\ AtLeast(entries, file)
        /\ flush["periodic"] \in {"copied", "written"} =>
              AtLeast(copy["periodic"], file) /\ AtLeast(entries, copy["periodic"])
    /\ ~running => stopping = "no" /\ \A f \in Flushers : flush[f] = "idle"

-----------------------------------------------------------------------------
(* Lemmas *)

LEMMA NoEntryApart == NoEntry \notin Entry
BY DEF NoEntry, Entry

LEMMA EmptyMap == Empty \in Maps /\ CoherentMap(Empty)
BY DEF Empty, Maps, CoherentMap

LEMMA EntriesRecorded ==
    ASSUME NEW e \in Entry
    PROVE  Succeeded(e) \in Entry /\ Failed(e) \in Entry
<1>1. e.ConsecutiveOK + 1 \in Nat /\ e.ConsecutiveFail + 1 \in Nat
  BY DEF Entry
<1>2. e.TotalSuccess + 1 \in Nat /\ e.TotalFail + 1 \in Nat
  BY DEF Entry
<1>3. Succeeded(e) \in Entry
  BY <1>1, <1>2 DEF Succeeded, Entry
<1>4. Failed(e) \in Entry
  BY <1>1, <1>2 DEF Failed, Entry
<1> QED
  BY <1>3, <1>4

(* Recording a result makes an entry of the entry.                         *)
LEMMA Recorded ==
    ASSUME TypeOK, NEW a \in Servers
    PROVE  /\ EntryOf(a) \in Entry
           /\ Succeeded(EntryOf(a)) \in Entry
           /\ Failed(EntryOf(a)) \in Entry
           /\ EntryOf(a).TotalSuccess = Successes(entries, a)
           /\ EntryOf(a).TotalFail = Failures(entries, a)
<1>1. EntryOf(a) \in Entry
  BY DEF EntryOf, TypeOK, Maps, Fresh, Entry
<1>2. Succeeded(EntryOf(a)) \in Entry /\ Failed(EntryOf(a)) \in Entry
  BY <1>1, EntriesRecorded
<1>3. /\ EntryOf(a).TotalSuccess = Successes(entries, a)
      /\ EntryOf(a).TotalFail = Failures(entries, a)
  BY DEF EntryOf, Successes, Failures, Fresh
<1> QED
  BY <1>1, <1>2, <1>3

LEMMA RecordedCoherent ==
    ASSUME TypeOK, CoherentMap(entries), NEW a \in Servers
    PROVE  CoherentEntry(Succeeded(EntryOf(a))) /\ CoherentEntry(Failed(EntryOf(a)))
<1>1. EntryOf(a) \in Entry
  BY Recorded
<1>2. /\ EntryOf(a).ConsecutiveOK <= EntryOf(a).TotalSuccess
      /\ EntryOf(a).ConsecutiveFail <= EntryOf(a).TotalFail
  BY DEF EntryOf, CoherentMap, CoherentEntry, Fresh
<1> QED
  BY <1>1, <1>2 DEF Succeeded, Failed, CoherentEntry, Entry

(* The totals after recording.                                             *)
LEMMA RecordedTotals ==
    ASSUME TypeOK, NEW a \in Servers, NEW b \in Servers
    PROVE  /\ entries' = [entries EXCEPT ![a] = Succeeded(EntryOf(a))] =>
                /\ Successes(entries', b) = Successes(entries, b) + IF a = b THEN 1 ELSE 0
                /\ Failures(entries', b) = Failures(entries, b)
           /\ entries' = [entries EXCEPT ![a] = Failed(EntryOf(a))] =>
                /\ Failures(entries', b) = Failures(entries, b) + IF a = b THEN 1 ELSE 0
                /\ Successes(entries', b) = Successes(entries, b)
<1>1. /\ EntryOf(a) \in Entry
      /\ EntryOf(a).TotalSuccess = Successes(entries, a)
      /\ EntryOf(a).TotalFail = Failures(entries, a)
      /\ Succeeded(EntryOf(a)) # NoEntry /\ Failed(EntryOf(a)) # NoEntry
  BY Recorded, NoEntryApart
<1>2. /\ Succeeded(EntryOf(a)).TotalSuccess = EntryOf(a).TotalSuccess + 1
      /\ Succeeded(EntryOf(a)).TotalFail = EntryOf(a).TotalFail
      /\ Failed(EntryOf(a)).TotalFail = EntryOf(a).TotalFail + 1
      /\ Failed(EntryOf(a)).TotalSuccess = EntryOf(a).TotalSuccess
  BY <1>1 DEF Succeeded, Failed, Entry
<1>3. Successes(entries, b) \in Nat /\ Failures(entries, b) \in Nat
  BY DEF Successes, Failures, TypeOK, Maps, Entry
<1>4. DOMAIN entries = Servers
  BY DEF TypeOK, Maps
<1> QED
  BY <1>1, <1>2, <1>3, <1>4 DEF Successes, Failures

LEMMA TotalsNat ==
    ASSUME NEW m \in Maps, NEW a \in Servers
    PROVE  Successes(m, a) \in Nat /\ Failures(m, a) \in Nat
BY DEF Successes, Failures, Maps, Entry

-----------------------------------------------------------------------------
(* Types *)

(* Every variable keeps its type.                                          *)
THEOREM TypeCorrect == Spec => []TypeOK
<1>1. Init => TypeOK
  <2> SUFFICES ASSUME Init PROVE TypeOK
    OBVIOUS
  <2>1. starts \in 1 .. MaxStarts
    BY TrackerAssumption DEF Init
  <2>2. copy \in [Flushers -> Maps] /\ entries \in Maps /\ file \in Maps
    BY EmptyMap DEF Init
  <2> QED
    BY <2>1, <2>2 DEF Init, TypeOK
<1>2. TypeOK /\ [Next]_vars => TypeOK'
  <2> SUFFICES ASSUME TypeOK, [Next]_vars PROVE TypeOK'
    OBVIOUS
  <2>1. ASSUME NEW a \in Servers, RecordSuccess(a) \/ RecordFail(a) PROVE TypeOK'
    <3>1. entries' \in Maps
      BY <2>1, Recorded DEF RecordSuccess, RecordFail, TypeOK, Maps
    <3>2. results' \in [Servers -> [success : Nat, fail : Nat]]
      BY <2>1 DEF RecordSuccess, RecordFail, TypeOK
    <3> QED
      BY <2>1, <3>1, <3>2 DEF RecordSuccess, RecordFail, TypeOK
  <2>2. ASSUME NEW f \in Flushers, Copy(f) PROVE TypeOK'
    BY <2>2 DEF Copy, TypeOK
  <2>3. ASSUME NEW f \in Flushers, WriteTemp(f) PROVE TypeOK'
    BY <2>3 DEF WriteTemp, TypeOK
  <2>4. ASSUME NEW f \in Flushers, Rename(f) \/ FlushFails(f) PROVE TypeOK'
    BY <2>4, EmptyMap DEF Rename, FlushFails, Return, TypeOK
  <2>5. CASE PeriodicReturns \/ Signal
    BY <2>5 DEF PeriodicReturns, Signal, TypeOK
  <2>6. CASE Die
    BY <2>6, EmptyMap DEF Die, TypeOK
  <2>7. CASE Restart
    <3>1. starts' \in 1 .. MaxStarts
      BY <2>7, TrackerAssumption DEF Restart, TypeOK
    <3>2. running' \in BOOLEAN /\ loaded' \in BOOLEAN /\ entries' \in Maps
      BY <2>7, EmptyMap DEF Restart, TypeOK
    <3> QED
      BY <2>7, <3>1, <3>2 DEF Restart, TypeOK
  <2>8. CASE UNCHANGED vars
    BY <2>8 DEF vars, TypeOK
  <2> QED
    BY <2>1, <2>2, <2>3, <2>4, <2>5, <2>6, <2>7, <2>8 DEF Next, Record
<1> QED
  BY <1>1, <1>2, PTL DEF Spec

-----------------------------------------------------------------------------
(* What the maps say *)

(* Where the maps come from, but for the entries after a result.           *)
LEMMA MapsMove ==
    ASSUME TypeOK, [Next]_vars, ~Record
    PROVE  /\ entries' \in {entries, file, Empty}
           /\ file' \in {file} \cup {copy[f] : f \in Flushers}
           /\ \A f \in Flushers : copy'[f] \in {copy[f], entries, Empty}
           /\ results' = results
<1>1. ASSUME NEW f \in Flushers, Copy(f) \/ WriteTemp(f) \/ Rename(f) \/ FlushFails(f)
      PROVE  /\ entries' = entries /\ results' = results
             /\ file' \in {file, copy[f]}
             /\ \A g \in Flushers : copy'[g] \in {copy[g], entries, Empty}
  BY <1>1 DEF Copy, WriteTemp, Rename, FlushFails, Return, TypeOK
<1>2. CASE PeriodicReturns \/ Signal \/ Restart \/ UNCHANGED vars
  BY <1>2 DEF PeriodicReturns, Signal, Restart, vars
<1>3. CASE Die
  BY <1>3 DEF Die
<1> QED
  BY <1>1, <1>2, <1>3 DEF Next

LEMMA RecordMoves ==
    ASSUME Record
    PROVE  /\ file' = file /\ copy' = copy /\ UNCHANGED <<running, stopping, flush, loaded>>
           /\ \E a \in Servers :
                 \/ /\ entries' = [entries EXCEPT ![a] = Succeeded(EntryOf(a))]
                    /\ results' = [results EXCEPT ![a].success = @ + 1]
                 \/ /\ entries' = [entries EXCEPT ![a] = Failed(EntryOf(a))]
                    /\ results' = [results EXCEPT ![a].fail = @ + 1]
BY DEF Record, RecordSuccess, RecordFail

(* An entry never contradicts itself, in memory, in a copy or on disk,     *)
(* across crashes and restarts (status.go, persistence.go).                *)
THEOREM EntriesCoherent == Spec => []Coherent
<1>1. Init => MapsCoherent
  BY EmptyMap DEF Init, MapsCoherent
<1>2. TypeOK /\ MapsCoherent /\ [Next]_vars => MapsCoherent'
  <2> SUFFICES ASSUME TypeOK, MapsCoherent, [Next]_vars PROVE MapsCoherent'
    OBVIOUS
  <2>1. CASE Record
    <3>1. PICK a \in Servers :
             \/ entries' = [entries EXCEPT ![a] = Succeeded(EntryOf(a))]
             \/ entries' = [entries EXCEPT ![a] = Failed(EntryOf(a))]
      BY <2>1, RecordMoves
    <3>2. CoherentEntry(Succeeded(EntryOf(a))) /\ CoherentEntry(Failed(EntryOf(a)))
      BY RecordedCoherent DEF MapsCoherent
    <3>3. CoherentMap(entries')
      BY <3>1, <3>2 DEF CoherentMap, MapsCoherent, TypeOK, Maps
    <3> QED
      BY <2>1, <3>3, RecordMoves DEF MapsCoherent
  <2>2. CASE ~Record
    BY <2>2, MapsMove, EmptyMap DEF MapsCoherent
  <2> QED
    BY <2>1, <2>2
<1>3. MapsCoherent => Coherent
  BY DEF MapsCoherent, CoherentMap, CoherentEntry, Coherent
<1> QED
  BY <1>1, <1>2, <1>3, TypeCorrect, PTL DEF Spec

(* Restarts lose results but never count one twice (persistence.go:88-115). *)
THEOREM CountsHappened == Spec => []NothingInvented
<1>1. Init => MapsHappened
  BY DEF Init, MapsHappened, Happened, Successes, Failures, Empty
<1>2. TypeOK /\ MapsHappened /\ [Next]_vars => MapsHappened'
  <2> SUFFICES ASSUME TypeOK, MapsHappened, [Next]_vars PROVE MapsHappened'
    OBVIOUS
  <2>1. CASE Record
    <3>1. PICK a \in Servers :
             \/ /\ entries' = [entries EXCEPT ![a] = Succeeded(EntryOf(a))]
                /\ results' = [results EXCEPT ![a].success = @ + 1]
             \/ /\ entries' = [entries EXCEPT ![a] = Failed(EntryOf(a))]
                /\ results' = [results EXCEPT ![a].fail = @ + 1]
      BY <2>1, RecordMoves
    <3>2. ASSUME NEW b \in Servers
          PROVE  /\ results'[b].success >= results[b].success /\ results'[b].fail >= results[b].fail
                 /\ results[b].success \in Nat /\ results[b].fail \in Nat
                 /\ results'[b].success \in Nat /\ results'[b].fail \in Nat
      BY <3>1 DEF TypeOK
    <3>3. ASSUME NEW m \in Maps, Happened(m)
          PROVE  Happened(m)'
      <4>1. ASSUME NEW b \in Servers
            PROVE  /\ Successes(m, b) <= results'[b].success
                   /\ Failures(m, b) <= results'[b].fail
        BY <3>2, <3>3, TotalsNat DEF Happened
      <4> QED
        BY <4>1 DEF Happened
    <3>4. ASSUME NEW b \in Servers
          PROVE  /\ Successes(entries', b) <= results'[b].success
                 /\ Failures(entries', b) <= results'[b].fail
      <4>1. /\ Successes(entries, b) <= results[b].success
            /\ Failures(entries, b) <= results[b].fail
        BY DEF MapsHappened, Happened
      <4>2. Successes(entries, b) \in Nat /\ Failures(entries, b) \in Nat
        BY TotalsNat DEF TypeOK
      <4>3. CASE /\ entries' = [entries EXCEPT ![a] = Succeeded(EntryOf(a))]
                 /\ results' = [results EXCEPT ![a].success = @ + 1]
        <5>1. /\ results'[b].success = results[b].success + IF a = b THEN 1 ELSE 0
              /\ results'[b].fail = results[b].fail
          BY <4>3 DEF TypeOK
        <5>2. /\ Successes(entries', b) = Successes(entries, b) + IF a = b THEN 1 ELSE 0
              /\ Failures(entries', b) = Failures(entries, b)
          BY <4>3, RecordedTotals
        <5> QED
          BY <3>2, <4>1, <4>2, <5>1, <5>2
      <4>4. CASE /\ entries' = [entries EXCEPT ![a] = Failed(EntryOf(a))]
                 /\ results' = [results EXCEPT ![a].fail = @ + 1]
        <5>1. /\ results'[b].fail = results[b].fail + IF a = b THEN 1 ELSE 0
              /\ results'[b].success = results[b].success
          BY <4>4 DEF TypeOK
        <5>2. /\ Failures(entries', b) = Failures(entries, b) + IF a = b THEN 1 ELSE 0
              /\ Successes(entries', b) = Successes(entries, b)
          BY <4>4, RecordedTotals
        <5> QED
          BY <3>2, <4>1, <4>2, <5>1, <5>2
      <4> QED
        BY <3>1, <4>3, <4>4
    <3>5. /\ file' = file /\ copy' = copy
          /\ file \in Maps /\ \A f \in Flushers : copy[f] \in Maps
      BY <2>1, RecordMoves DEF TypeOK
    <3> QED
      BY <3>3, <3>4, <3>5 DEF MapsHappened, Happened
  <2>2. CASE ~Record
    <3>1. Happened(Empty)
      BY DEF Happened, Successes, Failures, Empty, TypeOK
    <3> QED
      BY <2>2, <3>1, MapsMove DEF MapsHappened, Happened
  <2> QED
    BY <2>1, <2>2
<1>3. MapsHappened => NothingInvented
  BY DEF MapsHappened, Happened, NothingInvented
<1> QED
  BY <1>1, <1>2, <1>3, TypeCorrect, PTL DEF Spec

-----------------------------------------------------------------------------
(* The file *)

LEMMA AtLeastTransitive ==
    ASSUME NEW m \in Maps, NEW n \in Maps, NEW o \in Maps, AtLeast(m, n), AtLeast(n, o)
    PROVE  AtLeast(m, o)
<1>1. \A a \in Servers : /\ Successes(m, a) \in Nat /\ Failures(m, a) \in Nat
                         /\ Successes(n, a) \in Nat /\ Failures(n, a) \in Nat
                         /\ Successes(o, a) \in Nat /\ Failures(o, a) \in Nat
  BY TotalsNat
<1> QED
  BY <1>1 DEF AtLeast

LEMMA AtLeastReflexive ==
    ASSUME NEW m \in Maps
    PROVE  AtLeast(m, m)
<1>1. \A a \in Servers : Successes(m, a) \in Nat /\ Failures(m, a) \in Nat
  BY TotalsNat
<1> QED
  BY <1>1 DEF AtLeast

LEMMA RecordGrows ==
    ASSUME TypeOK, Record, entries' \in Maps
    PROVE  AtLeast(entries', entries)
<1>1. PICK a \in Servers :
         \/ entries' = [entries EXCEPT ![a] = Succeeded(EntryOf(a))]
         \/ entries' = [entries EXCEPT ![a] = Failed(EntryOf(a))]
  BY RecordMoves
<1>2. ASSUME NEW b \in Servers
      PROVE  /\ Successes(entries', b) >= Successes(entries, b)
             /\ Failures(entries', b) >= Failures(entries, b)
  <2>1. Successes(entries, b) \in Nat /\ Failures(entries, b) \in Nat
    BY TotalsNat DEF TypeOK
  <2>2. /\ Successes(entries', b) \in {Successes(entries, b), Successes(entries, b) + 1}
        /\ Failures(entries', b) \in {Failures(entries, b), Failures(entries, b) + 1}
    BY <1>1, <2>1, RecordedTotals
  <2> QED
    BY <2>1, <2>2
<1> QED
  BY <1>2 DEF AtLeast

LEMMA NextGrowing ==
    ASSUME TypeOK, TypeOK', Growing, [Next]_vars
    PROVE  Growing'
<1>1. /\ entries \in Maps /\ file \in Maps /\ entries' \in Maps
      /\ copy["periodic"] \in Maps
  BY DEF TypeOK, Flushers
<1>2. CASE Record
  <2>1. /\ file' = file /\ copy' = copy /\ UNCHANGED <<running, stopping, flush, loaded>>
        /\ AtLeast(entries', entries)
    BY <1>1, <1>2, RecordMoves, RecordGrows
  <2> QED
    BY <1>1, <2>1, AtLeastTransitive DEF Growing
<1>3. ASSUME NEW f \in Flushers, Copy(f) PROVE Growing'
  <2>1. /\ running /\ running' = running /\ stopping' = stopping
        /\ entries' = entries /\ file' = file /\ loaded' = loaded
    BY <1>3 DEF Copy
  <2>2. CASE f = "periodic"
    <3>1. copy'["periodic"] = entries
      BY <1>3, <2>2 DEF Copy, TypeOK, Flushers
    <3> QED
      BY <1>1, <2>1, <3>1, AtLeastReflexive DEF Growing
  <2>3. CASE f = "shutdown"
    <3>1. /\ flush'["periodic"] = flush["periodic"]
          /\ copy'["periodic"] = copy["periodic"]
      BY <1>3, <2>3 DEF Copy, TypeOK, Flushers
    <3> QED
      BY <2>1, <3>1 DEF Growing
  <2> QED
    BY <2>2, <2>3 DEF Flushers
<1>4. ASSUME NEW f \in Flushers, WriteTemp(f) PROVE Growing'
  BY <1>4 DEF WriteTemp, Growing, TypeOK, Flushers
<1>5. ASSUME NEW f \in Flushers, Rename(f) \/ FlushFails(f) PROVE Growing'
  <2>1. /\ running /\ UNCHANGED <<running, loaded>>
        /\ stopping' = IF f = "shutdown" THEN "stopped" ELSE stopping
        /\ entries' = entries /\ flush' = [flush EXCEPT ![f] = "idle"]
        /\ \/ file' = file
           \/ flush[f] = "written" /\ file' = copy[f]
    BY <1>5 DEF Rename, FlushFails, Return
  <2>2. f = "shutdown" \/ f = "periodic"
    BY DEF Flushers
  <2>3. f = "periodic" => flush'["periodic"] = "idle"
    BY <2>1, <2>2 DEF TypeOK, Flushers
  <2> QED
    BY <2>1, <2>2, <2>3 DEF Growing
<1>6. CASE Restart
  BY <1>1, <1>6, AtLeastReflexive DEF Restart, Growing, Flushers
<1>7. CASE PeriodicReturns
  BY <1>7 DEF PeriodicReturns, Growing
<1>8. CASE Signal
  BY <1>8 DEF Signal, Growing
<1>9. CASE Die
  BY <1>9 DEF Die, Growing
<1>10. CASE UNCHANGED vars
  BY <1>10 DEF vars, Growing
<1> QED
  BY <1>2, <1>3, <1>4, <1>5, <1>6, <1>7, <1>8, <1>9, <1>10 DEF Next

(* Nothing that reached the disk is taken back by a process that could     *)
(* load the file and whose final flush has not returned, whatever write    *)
(* fails and however often the process dies (persistence.go:12-102).       *)
THEOREM FileOnlyGrows == Spec => FileGrows
<1>1. Init => Growing
  <2> SUFFICES ASSUME Init PROVE Growing
    OBVIOUS
  <2>1. /\ running /\ entries = Empty /\ file = Empty
        /\ \A f \in Flushers : flush[f] = "idle"
    BY DEF Init
  <2>2. AtLeast(entries, file)
    BY <2>1, EmptyMap, AtLeastReflexive
  <2> QED
    BY <2>1, <2>2 DEF Growing, Flushers
<1>2. TypeOK /\ TypeOK' /\ Growing /\ [Next]_vars => Growing'
  BY NextGrowing
<1>3. TypeOK /\ TypeOK' /\ Growing /\ [Next]_vars
          => [loaded /\ stopping' # "stopped" => AtLeast(file', file)]_vars
  <2> SUFFICES ASSUME TypeOK, TypeOK', Growing, Next, loaded, stopping' # "stopped"
               PROVE  AtLeast(file', file)
    BY DEF vars
  <2>1. file \in Maps
    BY DEF TypeOK
  <2>2. CASE \E f \in Flushers : Rename(f)
    <3>1. PICK f \in Flushers : Rename(f)
      BY <2>2
    <3>2. running /\ flush[f] = "written" /\ file' = copy[f]
      BY <3>1 DEF Rename
    <3>3. f = "periodic" /\ stopping # "stopped"
      BY <3>1 DEF Rename, Return, Flushers
    <3> QED
      BY <3>2, <3>3 DEF Growing
  <2>3. CASE ~\E f \in Flushers : Rename(f)
    <3>1. file' = file
      BY <2>3 DEF Next, Record, RecordSuccess, RecordFail, Copy, WriteTemp, FlushFails,
         PeriodicReturns, Signal, Die, Restart
    <3> QED
      BY <2>1, <3>1, AtLeastReflexive
  <2> QED
    BY <2>2, <2>3
<1> QED
  BY <1>1, <1>2, <1>3, TypeCorrect, PTL DEF Spec, FileGrows
=============================================================================
