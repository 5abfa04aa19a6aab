----------------------------- MODULE MCModelQuery ----------------------------
(* Two calls with one id, one of a device and one of an operator, and a    *)
(* call without an id.                                                     *)
EXTENDS ModelQuery

CONSTANTS chat, work, sprint, id

MCIdOf == [q \in Calls |-> IF q = sprint THEN Nil ELSE id]
=============================================================================
