--------------------------- MODULE MCControlPlane ---------------------------
(* Every peer request of the checked instances is addressed to machine m1. *)
EXTENDS ControlPlane

CONSTANTS m1, m2

MCTo == [p \in Peer |-> m1]
=============================================================================
