---------------------------- MODULE MCPoolLocks -----------------------------
(* Small instances of PoolLocks, with an address for each server or with   *)
(* two servers at one address, which are interchangeable.                  *)
EXTENDS PoolLocks, TLC

CONSTANTS c1, c2, c3, a1, a2

OwnAddr == [c \in Clients |-> c]
SharedAddr == [c \in Clients |-> IF c = c3 THEN a2 ELSE a1]

Symmetric == Permutations({c1, c2})
=============================================================================
