------------------------------ MODULE MCProxy -------------------------------
(* Small instances of Proxy.  The handlers are interchangeable, the servers *)
(* too when each has an address of its own.                                 *)
EXTENDS Proxy, TLC

CONSTANTS c1, c2, c3

OwnAddr == [c \in Clients |-> c]
SharedAddr == [c \in Clients |-> IF c = c2 THEN c1 ELSE c]

Symmetric == Permutations(Handlers) \cup Permutations(Clients)
=============================================================================
