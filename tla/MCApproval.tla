------------------------------ MODULE MCApproval ----------------------------
(***************************************************************************)
(* Operators take at most MaxDecisions different decisions, one less when  *)
(* they decide about candidates.  Operations touch candidates and plain    *)
(* requests only through the processor, which takes them one by one, so    *)
(* the two are explored one after the other and not at once.               *)
(***************************************************************************)
EXTENDS ApprovalFlow, TLC

CONSTANTS MaxDecisions, c1

Decided == {x \in Items \X Decisions : x[2] \in events[x[1]]}

NoOperations ==
  /\ \A o \in Operations : approval[o] = "none" /\ operation[o] = "none"
  /\ \A b \in Brokers : broker[b].step = "idle"
  /\ \A c \in Clients : client[c].item \notin Operations
  /\ ~disabled

OnlyOperations ==
  /\ \A i \in Submissions \cup Plain : approval[i] = "none"
  /\ \A s \in Submissions : submission[s] = "none"
  /\ \A c \in Clients \ {c1} : client[c].step = "idle"

FewDecisions ==
  \/ NoOperations /\ Cardinality(Decided) < MaxDecisions
  \/ OnlyOperations /\ Cardinality(Decided) <= MaxDecisions

Interchangeable == Permutations(Reviewers) \cup Permutations(Brokers)
=============================================================================
