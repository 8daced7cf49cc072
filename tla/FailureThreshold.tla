-------------------------- MODULE FailureThreshold --------------------------
(***************************************************************************)
(* Proxy with a history of the failures reported for each (upstream,       *)
(* target) pair, to compare it with what TARGET_FAIL_THRESHOLD promises.   *)
(***************************************************************************)
EXTENDS Proxy

VARIABLE misses     \* failures reported since the pair last worked or was
                    \* blocked, counted up to the threshold

(* The step in which a handler reports on the pair p.                      *)
Reported(p) ==
    \E h \in Handlers : /\ pc[h] \in {"blame", "tunnel"} /\ pc'[h] # pc[h]
                        /\ p = <<AddrOf[sel[h]], target[h]>>

Missed(p) ==
    IF ~Reported(p) THEN misses[p]
    ELSE IF targetFailures'[p] = NoFailure \/ targetFailures'[p].until = "future" THEN 0
    ELSE IF misses[p] < Threshold THEN misses[p] + 1 ELSE Threshold

CountedInit == ProxyInit /\ misses = [p \in Addrs \X Targets |-> 0]
CountedNext == ProxyNext /\ misses' = [p \in Addrs \X Targets |-> Missed(p)]
CountedSpec == CountedInit /\ [][CountedNext]_<<vars, misses>>

(* README.md:99, TARGET_FAIL_THRESHOLD: "Failures before temporary block". *)
(* A pair that failed so often without working in between is blocked.      *)
BlockedAtThreshold ==
    phase = "running" => \A p \in Addrs \X Targets : misses[p] < Threshold
=============================================================================
