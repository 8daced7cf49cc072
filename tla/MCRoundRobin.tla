---------------------------- MODULE MCRoundRobin ----------------------------
(* A small instance of RoundRobin: every server has an address of its own. *)
EXTENDS RoundRobin

CONSTANTS c1, c2, c3

OwnAddr == [c \in Clients |-> c]
=============================================================================
