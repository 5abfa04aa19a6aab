---------------------------- MODULE MCTaskQueue ----------------------------
(* Two tasks and two machines with a worker each; the clocks of the hosts  *)
(* that sweep are right or one tick ahead.                                 *)
EXTENDS TaskQueue, TLC

CONSTANTS t1, t2, m1, m2, w1, w2

MCMachineOf == (w1 :> m1) @@ (w2 :> m2)
MCSymmetry == Permutations(Tasks)
=============================================================================
