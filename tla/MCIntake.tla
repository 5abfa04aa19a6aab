------------------------------ MODULE MCIntake ------------------------------
(* Two instructions whose signer has used one nonce twice.                 *)
EXTENDS InstructionIntake

CONSTANTS e1, e2, n1

MCEnvelopeOf == [m \in Signed |-> IF m = 1 THEN e1 ELSE e2]
MCNonceOf == [e \in Envelopes |-> n1]
MCOffsets == {-3, 0}   \* a host that is three ticks behind, and a right one
=============================================================================
