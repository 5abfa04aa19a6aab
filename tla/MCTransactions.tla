---------------------------- MODULE MCTransactions ----------------------------
(***************************************************************************)
(* Two threads, two calls, at most one failure: every pair of handlers in  *)
(* every interleaving of their statements.                                 *)
(***************************************************************************)
EXTENDS OperationScripts, TLC

CONSTANTS c1, c2

AllHandlers == DOMAIN Scripts
AllRows == RowsOf(Scripts)
AnyCaller == Permutations(Callers)
=============================================================================
