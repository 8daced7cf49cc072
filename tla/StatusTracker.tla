--------------------------- MODULE StatusTracker ----------------------------
(***************************************************************************)
(* internal/status: the entries kept per upstream and their life on disk.  *)
(* Handlers record results under t.mu.  Flush copies the entries under     *)
(* t.mu, then, without it, writes a temporary file and renames it over the *)
(* status file.  The periodic goroutine and the shutdown goroutine of      *)
(* internal/app both call Flush.  The process may die at any point and be  *)
(* started again, which loads the file; if that fails, it goes on without. *)
(*                                                                         *)
(* A rename replaces the file atomically.  What a loss of power does to a  *)
(* file that was never synced is not modelled.                             *)
(***************************************************************************)
EXTENDS Integers, FiniteSets

CONSTANTS
    Servers,        \* the upstream addresses
    MaxResults,     \* bound on the results of one kind for one address
    MaxStarts       \* bound on how often the process starts

ASSUME TrackerAssumption == MaxResults \in Nat /\ MaxStarts \in Nat \ {0}

VARIABLES
    running,    \* the process exists
    starts,     \* how often it was started
    stopping,   \* the shutdown goroutine: "no", "flush", "stopped"
    entries,    \* t.entries
    flush,      \* where each caller of Flush is
    copy,       \* sf.Servers, the copy each of them works with
    file,       \* the status file; without entries when it does not exist
    loaded,     \* auxiliary: this process began with what the file had
    results     \* history: the results recorded since the first start

vars == <<running, starts, stopping, entries, flush, copy, file, loaded, results>>

Flushers == {"periodic", "shutdown"}

(* ServerStatusEntry without the address, the times and the error text.    *)
Entry == [Status : {"success", "fail"},
          ConsecutiveOK : Nat, ConsecutiveFail : Nat,
          TotalSuccess : Nat, TotalFail : Nat]
NoEntry == [Status |-> "none"]
Empty == [a \in Servers |-> NoEntry]

(* getOrCreateEntry                                                        *)
Fresh == [Status |-> "success", ConsecutiveOK |-> 0, ConsecutiveFail |-> 0,
          TotalSuccess |-> 0, TotalFail |-> 0]
EntryOf(a) == IF entries[a] = NoEntry THEN Fresh ELSE entries[a]

Init ==
    /\ running = TRUE /\ starts = 1 /\ stopping = "no"
    /\ entries = Empty /\ file = Empty /\ loaded = TRUE
    /\ flush = [f \in Flushers |-> "idle"]
    /\ copy = [f \in Flushers |-> Empty]
    /\ results = [a \in Servers |-> [success |-> 0, fail |-> 0]]

-----------------------------------------------------------------------------
(* Recording *)

(* Mutant: the total of the wrong kind is counted.                         *)
SucceededSwapped(e) == [e EXCEPT !.Status = "success",
                                 !.ConsecutiveOK = @ + 1, !.ConsecutiveFail = 0,
                                 !.TotalFail = @ + 1]

Succeeded(e) == [e EXCEPT !.Status = "success",
                          !.ConsecutiveOK = @ + 1, !.ConsecutiveFail = 0,
                          !.TotalSuccess = @ + 1]
(* Mutant: the run of successes is not reset.                              *)
FailedNoReset(e) == [e EXCEPT !.Status = "fail",
                              !.ConsecutiveFail = @ + 1, !.TotalFail = @ + 1]

Failed(e) == [e EXCEPT !.Status = "fail",
                       !.ConsecutiveFail = @ + 1, !.ConsecutiveOK = 0,
                       !.TotalFail = @ + 1]

RecordSuccess(a) ==
    /\ running
    /\ results[a].success < MaxResults
    /\ entries' = [entries EXCEPT ![a] = Succeeded(EntryOf(a))]
    /\ results' = [results EXCEPT ![a].success = @ + 1]
    /\ UNCHANGED <<running, starts, stopping, flush, copy, file, loaded>>

RecordFail(a) ==
    /\ running
    /\ results[a].fail < MaxResults
    /\ entries' = [entries EXCEPT ![a] = Failed(EntryOf(a))]
    /\ results' = [results EXCEPT ![a].fail = @ + 1]
    /\ UNCHANGED <<running, starts, stopping, flush, copy, file, loaded>>

-----------------------------------------------------------------------------
(* Flushing *)

(* The ticker fires; its select may still choose it once stopCh is closed. *)
(* The shutdown goroutine flushes once.                                    *)
MayFlush(f) == IF f = "periodic" THEN TRUE ELSE stopping = "flush"

Copy(f) ==
    /\ running /\ MayFlush(f)
    /\ flush[f] = "idle"
    /\ flush' = [flush EXCEPT ![f] = "copied"]
    /\ copy' = [copy EXCEPT ![f] = entries]
    /\ UNCHANGED <<running, starts, stopping, entries, file, results, loaded>>

(* Stop follows the final flush, whether that succeeded or not.            *)
Return(f) ==
    /\ flush' = [flush EXCEPT ![f] = "idle"]
    /\ copy' = [copy EXCEPT ![f] = Empty]
    /\ stopping' = IF f = "shutdown" THEN "stopped" ELSE stopping

WriteTemp(f) ==
    /\ running
    /\ flush[f] = "copied"
    /\ flush' = [flush EXCEPT ![f] = "written"]
    /\ UNCHANGED <<running, starts, stopping, entries, copy, file, results, loaded>>

(* Mutant: the temporary file is never moved into place.                   *)
RenameForgotten(f) ==
    /\ running
    /\ flush[f] = "written"
    /\ Return(f)
    /\ UNCHANGED <<running, starts, entries, file, results, loaded>>

Rename(f) ==
    /\ running
    /\ flush[f] = "written"
    /\ file' = copy[f]
    /\ Return(f)
    /\ UNCHANGED <<running, starts, entries, results, loaded>>

(* Creating, writing, closing or renaming the temporary file fails; it is  *)
(* removed.                                                                *)
FlushFails(f) ==
    /\ running
    /\ flush[f] \in {"copied", "written"}
    /\ Return(f)
    /\ UNCHANGED <<running, starts, entries, file, results, loaded>>

(* The periodic goroutine chooses stopCh.                                  *)
PeriodicReturns ==
    /\ running /\ stopping = "stopped"
    /\ flush["periodic"] = "idle"
    /\ flush' = [flush EXCEPT !["periodic"] = "gone"]
    /\ UNCHANGED <<running, starts, stopping, entries, copy, file, results, loaded>>

-----------------------------------------------------------------------------
(* The process *)

Signal ==
    /\ running /\ stopping = "no"
    /\ stopping' = "flush"
    /\ UNCHANGED <<running, starts, entries, flush, copy, file, results, loaded>>

(* The process ends, by a crash or after the shutdown: all but the file is *)
(* gone.                                                                   *)
Die ==
    /\ running
    /\ running' = FALSE /\ stopping' = "no"
    /\ entries' = Empty
    /\ flush' = [f \in Flushers |-> "idle"]
    /\ copy' = [f \in Flushers |-> Empty]
    /\ UNCHANGED <<starts, file, results, loaded>>

(* Mutant: the file is not loaded.                                         *)
RestartUnloaded ==
    /\ ~running /\ starts < MaxStarts
    /\ running' = TRUE /\ starts' = starts + 1
    /\ loaded' = TRUE
    /\ UNCHANGED <<stopping, entries, flush, copy, file, results>>

(* Load.  A file that is there may be impossible to read or to parse; then *)
(* connectServers logs a warning and goes on without entries.              *)
Restart ==
    /\ ~running /\ starts < MaxStarts
    /\ running' = TRUE /\ starts' = starts + 1
    /\ \/ entries' = file /\ loaded' = TRUE
       \/ file # Empty /\ entries' = Empty /\ loaded' = FALSE
    /\ UNCHANGED <<stopping, flush, copy, file, results>>

Record == \E a \in Servers : RecordSuccess(a) \/ RecordFail(a)

Next ==
    \/ Record
    \/ \E f \in Flushers : Copy(f) \/ WriteTemp(f) \/ Rename(f) \/ FlushFails(f)
    \/ PeriodicReturns \/ Signal \/ Die \/ Restart

Spec == Init /\ [][Next]_vars

(* The ticker fires for ever, and the disk does not fail for ever.         *)
FairSpec ==
    /\ Spec
    /\ \A f \in Flushers : WF_vars(Copy(f)) /\ SF_vars(WriteTemp(f)) /\ SF_vars(Rename(f))

-----------------------------------------------------------------------------
(* Properties *)

Maps == [Servers -> Entry \cup {NoEntry}]

TypeOK ==
    /\ running \in BOOLEAN
    /\ starts \in 1 .. MaxStarts
    /\ stopping \in {"no", "flush", "stopped"}
    /\ entries \in Maps /\ file \in Maps
    /\ flush \in [Flushers -> {"idle", "copied", "written", "gone"}]
    /\ copy \in [Flushers -> Maps]
    /\ loaded \in BOOLEAN
    /\ results \in [Servers -> [success : Nat, fail : Nat]]

(* An entry never contradicts itself, in memory, in a copy or on disk, and *)
(* across restarts: a server whose last result was a failure has a run of  *)
(* failures and none of successes, and no run is longer than its total.    *)
Coherent ==
    \A m \in {entries, file} \cup {copy[f] : f \in Flushers}, a \in Servers :
        m[a] # NoEntry =>
            LET e == m[a] IN
            /\ e.Status = "fail" <=> e.ConsecutiveFail > 0
            /\ e.Status = "success" <=> e.ConsecutiveOK > 0
            /\ e.ConsecutiveOK <= e.TotalSuccess
            /\ e.ConsecutiveFail <= e.TotalFail

Successes(m, a) == IF m[a] = NoEntry THEN 0 ELSE m[a].TotalSuccess
Failures(m, a) == IF m[a] = NoEntry THEN 0 ELSE m[a].TotalFail

(* Restarts lose results but never count one twice: what is in memory, and *)
(* what is on disk, is at most what happened.                              *)
NothingInvented ==
    \A m \in {entries, file}, a \in Servers :
        /\ Successes(m, a) <= results[a].success
        /\ Failures(m, a) <= results[a].fail

AtLeast(m, n) ==
    \A a \in Servers : Successes(m, a) >= Successes(n, a) /\ Failures(m, a) >= Failures(n, a)

(* Nothing that reached the disk is taken back, crashes, failing writes    *)
(* and restarts included, by a process that could load the file and whose  *)
(* final flush is not on disk yet (persistence.go:12-82).  Both conditions *)
(* are needed.  After a failed Load the next flush replaces the file by    *)
(* what was counted since (connect.go:29-31).  And the final flush may     *)
(* take back what a periodic one has copied after it, or be taken back by  *)
(* one that has copied before and renames later, as Stop does not wait     *)
(* for it (persistence.go:76,102).                                         *)
FileGrows == [][loaded /\ stopping' # "stopped" => AtLeast(file', file)]_vars

(* Every result, of either kind, is on disk in the end, unless the process *)
(* stops (persistence.go:85-101).                                          *)
Persisted ==
    \A a \in Servers, n \in 1 .. MaxResults :
        /\ running /\ Failures(entries, a) = n
              ~> Failures(file, a) >= n \/ stopping # "no" \/ ~running
        /\ running /\ Successes(entries, a) = n
              ~> Successes(file, a) >= n \/ stopping # "no" \/ ~running
=============================================================================
