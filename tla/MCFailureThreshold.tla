------------------------- MODULE MCFailureThreshold -------------------------
(* One upstream, one handler: requests one after the other.                *)
EXTENDS FailureThreshold

OwnAddr == [c \in Clients |-> c]
=============================================================================
