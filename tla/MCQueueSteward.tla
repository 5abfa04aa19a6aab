--------------------------- MODULE MCQueueSteward ---------------------------
(* Machine capacities for the small fleets the configurations check.       *)
EXTENDS QueueSteward

CONSTANTS Room   \* the capacity of machine 1; the others take one task

MCCapacity == [m \in Machines |-> IF m = 1 THEN Room ELSE 1]
=============================================================================
