------------------------------ MODULE MCProposal -----------------------------
(* Confirmations of a proposal raise at most MaxRaised times.              *)
EXTENDS ProposalConfirm, TLC

CONSTANT MaxRaised

FewErrors == \A p \in Proposals : raised[p] <= MaxRaised

Interchangeable == Permutations(Confirmers)
=============================================================================
