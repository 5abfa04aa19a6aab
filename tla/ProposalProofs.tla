--------------------------- MODULE ProposalProofs ---------------------------
(***************************************************************************)
(* Proofs about ProposalConfirm, for any proposals and any number of       *)
(* overlapping confirmations.  The inductive invariant: one confirmation   *)
(* at most is at work on a proposal, a result is stored with "confirmed"   *)
(* and with nothing else, and what the confirmation at work has yet to     *)
(* submit was submitted no more often than earlier ones raised.            *)
(*                                                                         *)
(* The second part is about ModelQuery: the questions that chats and       *)
(* operators put to models instead, and the work these lead to.  The names *)
(* of the two modules are kept apart, so that both can be extended here.   *)
(***************************************************************************)
EXTENDS ProposalConfirm, ModelQuery, TLAPS

OneAtWork ==
  \A c, d \in Confirmers :
    desk[c].proposal \in Proposals /\ desk[c].proposal = desk[d].proposal => c = d

(* What is at work on a proposal, and the status that it finds.            *)
Claimed ==
  \A c \in Confirmers :
    /\ At(c, "idle") => desk[c].proposal = None
    /\ ~At(c, "idle") => /\ status[desk[c].proposal] \in {"confirming", "confirmed"}
                         /\ desk[c].part <= LastOf(desk[c].proposal)
    /\ ~At(c, "idle") /\ ~At(c, "failed") => status[desk[c].proposal] = "confirming"

Stored ==
  /\ \A p \in Proposals : result[p] # None <=> status[p] = "confirmed"
  /\ OneResult

(* Of an open proposal, each part was submitted at most as often as        *)
(* confirmations raised; so it is for what is still to be submitted.       *)
Counted ==
  /\ ErrorsBoundRows
  /\ \A p \in Proposals, i \in Parts :
       status[p] \in {"none", "proposed"} => rows[p][i] <= raised[p]
  /\ \A c \in Confirmers, i \in Parts :
       \/ At(c, "idle") \/ At(c, "complete")
       \/ At(c, "submit") /\ i < desk[c].part
       \/ At(c, "dispatch") /\ i <= desk[c].part
       \/ rows[desk[c].proposal][i] <= raised[desk[c].proposal]

IInv == TypeOK /\ OneAtWork /\ Claimed /\ Stored /\ Counted

USE ProposalAssumption
-----------------------------------------------------------------------------
LEMMA InitIInv == Init => IInv
<1> SUFFICES ASSUME Init
             PROVE  IInv
  OBVIOUS
<1> USE DEF Init, Away, NoRows, Parts
<1>1. TypeOK
  BY DEF TypeOK
<1>2. OneAtWork /\ Claimed
  BY DEF OneAtWork, Claimed, At
<1>3. Stored /\ Counted
  BY DEF Stored, OneResult, Counted, ErrorsBoundRows, At
<1> QED
  BY <1>1, <1>2, <1>3 DEF IInv

LEMMA ProposeInv == ASSUME IInv, NEW p \in Proposals, Propose(p) PROVE IInv'
<1> USE DEF Propose
<1>1. TypeOK'
  BY DEF IInv, TypeOK
<1>2. OneAtWork' /\ Claimed'
  BY DEF IInv, TypeOK, OneAtWork, Claimed, At
<1>3. Stored'
  BY DEF IInv, TypeOK, Stored, OneResult
<1>4. Counted'
  BY DEF IInv, TypeOK, Counted, ErrorsBoundRows, At
<1> QED
  BY <1>1, <1>2, <1>3, <1>4 DEF IInv

LEMMA ClaimInv == ASSUME IInv, NEW c \in Confirmers, NEW p \in Proposals, Claim(c, p) PROVE IInv'
<1>0. result[p] = None
  BY DEF IInv, Stored, Claim
<1>1. /\ At(c, "idle") /\ status[p] = "proposed"
      /\ status' = [status EXCEPT ![p] = "confirming"]
      /\ desk' = [desk EXCEPT ![c] = [step |-> "submit", proposal |-> p, part |-> 1, names |-> NoRows]]
      /\ UNCHANGED <<answered, result, rows, sent, raised>>
  BY <1>0 DEF Claim, Away
<1> USE <1>1
<1>2. TypeOK'
  BY DEF IInv, TypeOK, NoRows, Parts
<1>3. OneAtWork'
  BY DEF IInv, TypeOK, OneAtWork, Claimed, At
<1>4. Claimed'
  BY DEF IInv, TypeOK, Claimed, At, LastOf
<1>5. Stored'
  BY DEF IInv, TypeOK, Stored, OneResult
<1>6. Counted'
  BY DEF IInv, TypeOK, Counted, Claimed, ErrorsBoundRows, At, Parts
<1> QED
  BY <1>2, <1>3, <1>4, <1>5, <1>6 DEF IInv

LEMMA RecallInv == ASSUME IInv, NEW c \in Confirmers, NEW p \in Proposals, Recall(c, p) PROVE IInv'
<1> USE DEF Recall
<1>1. result[p] \in [Parts -> Nat]
  BY DEF IInv, TypeOK
<1>2. TypeOK'
  BY <1>1 DEF IInv, TypeOK
<1>3. OneAtWork' /\ Claimed' /\ Counted'
  BY DEF IInv, OneAtWork, Claimed, Counted, ErrorsBoundRows, At
<1>4. Stored'
  BY DEF IInv, Stored, OneResult
<1> QED
  BY <1>2, <1>3, <1>4 DEF IInv

LEMMA SubmitInv == ASSUME IInv, NEW c \in Confirmers, Submit(c) PROVE IInv'
<1> DEFINE p == desk[c].proposal
           i == desk[c].part
           n == rows[p][i] + 1
           s == IF p \in Messages \cup Guarded THEN After(p, i) ELSE "dispatch"
           j == IF p \in Messages \cup Guarded THEN LastOf(p) ELSE i
<1>1. /\ At(c, "submit") /\ p \in Proposals /\ i \in Parts /\ i <= LastOf(p)
      /\ status[p] = "confirming" /\ rows[p] \in [Parts -> Nat] /\ raised[p] \in Nat
      /\ \A k \in Parts : k < i \/ rows[p][k] <= raised[p]
      /\ rows[p][i] <= raised[p]
  BY DEF Submit, At, IInv, TypeOK, Claimed, Counted, Parts
<1>2. /\ s \in {"submit", "dispatch", "complete"} /\ j \in Parts /\ j <= LastOf(p)
      /\ s = "submit" => i = 1 /\ j = 2
      /\ s = "dispatch" => j = i
  BY <1>1 DEF After, LastOf, Parts
<1>3. /\ rows' = [rows EXCEPT ![p][i] = n]
      /\ desk' = [desk EXCEPT ![c] =
           [step |-> s, proposal |-> p, part |-> j, names |-> [desk[c].names EXCEPT ![i] = n]]]
      /\ UNCHANGED <<status, result, sent, answered, raised>>
  BY DEF Submit
<1> HIDE DEF s, j
<1>4. desk[c].names \in [Parts -> Nat] /\ n \in Nat /\ desk[c] \in
       [step : {"idle", "submit", "dispatch", "complete", "failed"},
        proposal : Proposals \cup {None}, part : Parts, names : [Parts -> Nat]]
  BY <1>1 DEF IInv, TypeOK
<1>5. TypeOK'
  <2>1. rows' \in [Proposals -> [Parts -> Nat]]
    BY <1>1, <1>3, <1>4 DEF IInv, TypeOK
  <2>2. [desk[c].names EXCEPT ![i] = n] \in [Parts -> Nat]
    BY <1>4
  <2> HIDE DEF n, i
  <2>3. \A d \in Confirmers : desk'[d] \in
       [step : {"idle", "submit", "dispatch", "complete", "failed"},
        proposal : Proposals \cup {None}, part : Parts, names : [Parts -> Nat]]
    BY <1>1, <1>2, <1>3, <2>2 DEF IInv, TypeOK
  <2>4. \A d \in Confirmers : desk'[d].step # "idle" => desk'[d].proposal \in Proposals
    BY <1>1, <1>3 DEF IInv, TypeOK
  <2>5. DOMAIN desk' = Confirmers /\ desk' = [d \in Confirmers |-> desk'[d]]
    BY <1>3 DEF IInv, TypeOK
  <2> QED
    BY <1>3, <2>1, <2>3, <2>4, <2>5 DEF IInv, TypeOK
<1>6. \A d \in Confirmers : /\ d # c => desk'[d] = desk[d]
                            /\ desk'[c].step = s /\ desk'[c].proposal = p /\ desk'[c].part = j
  BY <1>3 DEF IInv, TypeOK
<1>7. OneAtWork' /\ Claimed'
  BY <1>1, <1>2, <1>3, <1>6 DEF IInv, OneAtWork, Claimed, At
<1>8. Stored'
  BY <1>3 DEF IInv, Stored, OneResult
<1>9. Counted'
  <2>1. \A q \in Proposals, k \in Parts :
          /\ q # p \/ k # i => rows'[q][k] = rows[q][k]
          /\ rows'[p][i] = n /\ raised'[q] = raised[q] /\ status'[q] = status[q]
    BY <1>1, <1>3 DEF IInv, TypeOK
  <2>2. ErrorsBoundRows'
    <3>1. rows'[p][i] = rows[p][i] + 1 /\ raised'[p] = raised[p]
      BY <1>1, <2>1
    <3>3. rows[p][i] + 1 <= 1 + raised[p]
      BY <1>1
    <3>2. ASSUME NEW q \in Proposals, NEW k \in Parts, q # p \/ k # i
          PROVE  rows'[q][k] <= 1 + raised'[q]
      BY <2>1, <3>2 DEF IInv, Counted, ErrorsBoundRows
    <3> QED
      BY <3>1, <3>2, <3>3 DEF ErrorsBoundRows
  <2>3. \A q \in Proposals, k \in Parts :
          status'[q] \in {"none", "proposed"} => rows'[q][k] <= raised'[q]
    BY <1>1, <2>1 DEF IInv, Counted
  <2>4. ASSUME NEW d \in Confirmers, d # c, NEW k \in Parts, ~At(d, "idle")
        PROVE  rows'[desk'[d].proposal][k] = rows[desk[d].proposal][k]
    BY <1>1, <1>6, <2>1, <2>4 DEF IInv, TypeOK, OneAtWork, At
  <2>5. ASSUME NEW d \in Confirmers, d # c, NEW k \in Parts
        PROVE  (\/ At(d, "idle") \/ At(d, "complete")
                \/ At(d, "submit") /\ k < desk[d].part
                \/ At(d, "dispatch") /\ k <= desk[d].part
                \/ rows[desk[d].proposal][k] <= raised[desk[d].proposal])'
    BY <1>3, <1>6, <2>4, <2>5 DEF IInv, Counted, At
  <2>6. ASSUME NEW k \in Parts
        PROVE  (\/ At(c, "idle") \/ At(c, "complete")
                \/ At(c, "submit") /\ k < desk[c].part
                \/ At(c, "dispatch") /\ k <= desk[c].part
                \/ rows[desk[c].proposal][k] <= raised[desk[c].proposal])'
    BY <1>1, <1>2, <1>6, <2>1 DEF At, Parts
  <2> QED
    BY <2>2, <2>3, <2>5, <2>6 DEF Counted
<1> QED
  BY <1>5, <1>7, <1>8, <1>9 DEF IInv

LEMMA DispatchInv == ASSUME IInv, NEW c \in Confirmers, NEW done \in BOOLEAN, Dispatch(c, done) PROVE IInv'
<1> DEFINE p == desk[c].proposal
           i == desk[c].part
<1>1. /\ At(c, "dispatch") /\ p \in Proposals /\ i \in Parts /\ i <= LastOf(p)
      /\ status[p] = "confirming" /\ desk[c].names \in [Parts -> Nat]
      /\ \A k \in Parts : k <= i \/ rows[p][k] <= raised[p]
  BY DEF Dispatch, At, IInv, TypeOK, Claimed, Counted
<1>2. /\ After(p, i) \in {"submit", "complete"} /\ LastOf(p) \in Parts
      /\ After(p, i) = "submit" => i = 1 /\ LastOf(p) = 2
  BY <1>1 DEF After, LastOf, Parts
<1>3. /\ desk' = [desk EXCEPT ![c] = [desk[c] EXCEPT !.step = After(p, i), !.part = LastOf(p)]]
      /\ sent' = IF done THEN [sent EXCEPT ![p][i] = @ \cup {desk[c].names[i]}] ELSE sent
      /\ UNCHANGED <<status, result, rows, answered, raised>>
  BY DEF Dispatch
<1>4. /\ \A d \in Confirmers : d # c => desk'[d] = desk[d]
      /\ desk'[c].step = After(p, i) /\ desk'[c].proposal = p /\ desk'[c].part = LastOf(p)
  BY <1>3 DEF IInv, TypeOK
<1>5. TypeOK'
  <2>1. sent' \in [Proposals -> [Parts -> SUBSET Nat]]
    BY <1>1, <1>3 DEF IInv, TypeOK
  <2>2. [desk[c] EXCEPT !.step = After(p, i), !.part = LastOf(p)] \in
       [step : {"idle", "submit", "dispatch", "complete", "failed"},
        proposal : Proposals \cup {None}, part : Parts, names : [Parts -> Nat]]
    <3>1. desk[c] \in
       [step : {"idle", "submit", "dispatch", "complete", "failed"},
        proposal : Proposals \cup {None}, part : Parts, names : [Parts -> Nat]]
      BY DEF IInv, TypeOK
    <3> QED
      BY <1>2, <3>1
  <2> QED
    BY <1>1, <1>3, <1>4, <2>1, <2>2 DEF IInv, TypeOK
<1>6. OneAtWork' /\ Claimed'
  BY <1>1, <1>2, <1>3, <1>4 DEF IInv, OneAtWork, Claimed, At, LastOf, Parts
<1>7. Stored'
  BY <1>3 DEF IInv, Stored, OneResult
<1>8. Counted'
  BY <1>1, <1>2, <1>3, <1>4 DEF IInv, Counted, ErrorsBoundRows, At, Parts
<1> QED
  BY <1>5, <1>6, <1>7, <1>8 DEF IInv

(* The result of the confirmation at work is stored.                       *)
LEMMA Storing ==
  ASSUME IInv, NEW c \in Confirmers, At(c, "complete"), NEW p, p = desk[c].proposal,
         status' = [status EXCEPT ![p] = "confirmed"],
         result' = [result EXCEPT ![p] = desk[c].names],
         answered' \in {answered, answered \cup {<<p, desk[c].names>>}}
  PROVE  /\ p \in Proposals /\ status[p] = "confirming" /\ Stored'
         /\ status' \in [Proposals -> {"none", "proposed", "confirming", "confirmed"}]
         /\ result' \in [Proposals -> [Parts -> Nat] \cup {None}]
         /\ answered' \subseteq Proposals \X [Parts -> Nat]
<1>1. p \in Proposals /\ status[p] = "confirming" /\ desk[c].names \in [Parts -> Nat]
  BY DEF At, IInv, TypeOK, Claimed
<1>2. ASSUME NEW a \in answered
      PROVE  a[1] # p
  <2>1. a[1] \in Proposals /\ a[2] \in [Parts -> Nat] /\ a[2] = result[a[1]]
    BY DEF IInv, TypeOK, Stored, OneResult
  <2>2. status[a[1]] = "confirmed"
    BY <2>1 DEF IInv, Stored
  <2> QED
    BY <1>1, <2>2
<1>3. \A q \in Proposals : q # p => result'[q] = result[q] /\ status'[q] = status[q]
  BY <1>1 DEF IInv, TypeOK
<1>4. result'[p] = desk[c].names /\ status'[p] = "confirmed" /\ desk[c].names # None
  BY <1>1 DEF IInv, TypeOK
<1>5. OneResult'
  <2>1. \A a \in answered : a[2] = result'[a[1]]
    BY <1>2, <1>3 DEF IInv, TypeOK, Stored, OneResult
  <2> QED
    BY <1>4, <2>1 DEF OneResult
<1>6. Stored'
  BY <1>3, <1>4, <1>5 DEF IInv, Stored
<1> QED
  BY <1>1, <1>6 DEF IInv, TypeOK

LEMMA CompleteInv == ASSUME IInv, NEW c \in Confirmers, Complete(c) PROVE IInv'
<1> DEFINE p == desk[c].proposal
<1> USE DEF Complete, Leave, Away
<1>1. /\ p \in Proposals /\ status[p] = "confirming" /\ Stored'
      /\ status' \in [Proposals -> {"none", "proposed", "confirming", "confirmed"}]
      /\ result' \in [Proposals -> [Parts -> Nat] \cup {None}]
      /\ answered' \subseteq Proposals \X [Parts -> Nat]
  BY Storing
<1>2. TypeOK'
  BY <1>1 DEF IInv, TypeOK, NoRows, Parts
<1>3. OneAtWork' /\ Claimed'
  BY <1>1 DEF IInv, TypeOK, OneAtWork, Claimed, At
<1>4. Counted'
  BY <1>1 DEF IInv, TypeOK, Counted, ErrorsBoundRows, At
<1> QED
  BY <1>1, <1>2, <1>3, <1>4 DEF IInv

LEMMA RaiseInv == ASSUME IInv, NEW c \in Confirmers, Raise(c) PROVE IInv'
<1> DEFINE p == desk[c].proposal
<1>1. /\ p \in Proposals /\ ~At(c, "idle") /\ ~At(c, "failed")
      /\ raised' = [raised EXCEPT ![p] = @ + 1]
      /\ desk' = [desk EXCEPT ![c].step = "failed"]
      /\ UNCHANGED <<rows, sent, answered>>
  BY DEF Raise, Move, At, IInv, TypeOK
<1>2. /\ Stored'
      /\ status' \in [Proposals -> {"none", "proposed", "confirming", "confirmed"}]
      /\ result' \in [Proposals -> [Parts -> Nat] \cup {None}]
      /\ status'[p] \in {"confirming", "confirmed"}
      /\ \A q \in Proposals : q # p => status'[q] = status[q]
  <2>1. CASE UNCHANGED <<status, result>>
    BY <1>1, <2>1 DEF IInv, TypeOK, Claimed, Stored, OneResult
  <2>2. CASE /\ At(c, "complete")
             /\ status' = [status EXCEPT ![p] = "confirmed"]
             /\ result' = [result EXCEPT ![p] = desk[c].names]
    <3>1. /\ Stored'
          /\ status' \in [Proposals -> {"none", "proposed", "confirming", "confirmed"}]
          /\ result' \in [Proposals -> [Parts -> Nat] \cup {None}]
      BY <1>1, <2>2, Storing
    <3> QED
      BY <1>1, <2>2, <3>1 DEF IInv, TypeOK
  <2> QED
    BY <2>1, <2>2 DEF Raise
<1>3. TypeOK'
  <2>1. raised' \in [Proposals -> Nat]
    BY <1>1 DEF IInv, TypeOK
  <2>2. /\ desk' \in [Confirmers ->
             [step : {"idle", "submit", "dispatch", "complete", "failed"},
              proposal : Proposals \cup {None}, part : Parts, names : [Parts -> Nat]]]
        /\ \A d \in Confirmers : desk'[d].step # "idle" => desk'[d].proposal \in Proposals
    <3> DEFINE Desks == [step : {"idle", "submit", "dispatch", "complete", "failed"},
                         proposal : Proposals \cup {None}, part : Parts, names : [Parts -> Nat]]
    <3>1. /\ desk \in [Confirmers -> Desks]
          /\ \A d \in Confirmers : desk[d].step # "idle" => desk[d].proposal \in Proposals
      BY DEF IInv, TypeOK
    <3>2. desk[c] \in Desks
      BY <3>1
    <3>3. [desk[c] EXCEPT !.step = "failed"] \in Desks
      BY <3>2
    <3>4. desk' = [desk EXCEPT ![c] = [desk[c] EXCEPT !.step = "failed"]]
      BY <1>1
    <3> HIDE DEF Desks
    <3>5. desk' \in [Confirmers -> Desks]
      BY <3>1, <3>3, <3>4
    <3>6. \A d \in Confirmers : desk'[d].proposal = desk[d].proposal
      BY <3>1, <3>4
    <3>7. \A d \in Confirmers : d # c => desk'[d] = desk[d]
      BY <3>1, <3>4
    <3> QED
      BY <1>1, <3>1, <3>5, <3>6, <3>7 DEF Desks
  <2> QED
    BY <1>1, <1>2, <2>1, <2>2 DEF IInv, TypeOK
<1>4. OneAtWork' /\ Claimed'
  BY <1>1, <1>2 DEF IInv, TypeOK, OneAtWork, Claimed, At
<1>5. Counted'
  <2>1. \A q \in Proposals : raised'[q] = IF q = p THEN raised[q] + 1 ELSE raised[q]
    BY <1>1 DEF IInv, TypeOK
  <2>2. \A q \in Proposals, k \in Parts : rows[q][k] \in Nat /\ raised[q] \in Nat
    BY DEF IInv, TypeOK
  <2>3. ErrorsBoundRows'
    BY <1>1, <2>1, <2>2 DEF IInv, Counted, ErrorsBoundRows
  <2>4. \A q \in Proposals, k \in Parts :
          status'[q] \in {"none", "proposed"} => rows'[q][k] <= raised'[q]
    BY <1>1, <1>2, <2>1, <2>2 DEF IInv, Counted
  <2>5. ASSUME NEW d \in Confirmers, NEW k \in Parts
        PROVE  (\/ At(d, "idle") \/ At(d, "complete")
                \/ At(d, "submit") /\ k < desk[d].part
                \/ At(d, "dispatch") /\ k <= desk[d].part
                \/ rows[desk[d].proposal][k] <= raised[desk[d].proposal])'
    <3>1. CASE d = c
      BY <1>1, <2>1, <2>2, <3>1 DEF IInv, TypeOK, Counted, ErrorsBoundRows
    <3>2. CASE d # c
      BY <1>1, <2>1, <2>2, <3>2 DEF IInv, TypeOK, OneAtWork, Counted, At
    <3> QED
      BY <3>1, <3>2
  <2> QED
    BY <2>3, <2>4, <2>5 DEF Counted
<1> QED
  BY <1>2, <1>3, <1>4, <1>5 DEF IInv

LEMMA LeaveInv == ASSUME IInv, NEW c \in Confirmers, Release(c) \/ Die(c) PROVE IInv'
<1> DEFINE p == desk[c].proposal
<1>1. /\ p \in Proposals /\ ~At(c, "idle")
      /\ desk' = [desk EXCEPT ![c] = Away]
      /\ UNCHANGED <<result, rows, sent, answered, raised>>
  BY DEF Release, Die, Leave, At, IInv, TypeOK
<1>2. \/ UNCHANGED status
      \/ /\ At(c, "failed") /\ status[p] = "confirming"
         /\ status' = [status EXCEPT ![p] = "proposed"]
  <2>1. CASE Die(c)
    BY <2>1 DEF Die
  <2>2. CASE Release(c)
    BY <1>1, <2>2 DEF Release, IInv, TypeOK, Claimed
  <2> QED
    BY <2>1, <2>2
<1>3. TypeOK'
  BY <1>1, <1>2 DEF IInv, TypeOK, Away, NoRows, Parts
<1>4. OneAtWork' /\ Claimed'
  BY <1>1, <1>2 DEF IInv, TypeOK, OneAtWork, Claimed, At, Away
<1>5. Stored'
  BY <1>1, <1>2 DEF IInv, TypeOK, Stored, OneResult
<1>6. Counted'
  BY <1>1, <1>2 DEF IInv, TypeOK, Counted, ErrorsBoundRows, At, Away
<1> QED
  BY <1>3, <1>4, <1>5, <1>6 DEF IInv

LEMMA NextIInv == IInv /\ [Next]_vars => IInv'
<1> SUFFICES ASSUME IInv, [Next]_vars
             PROVE  IInv'
  OBVIOUS
<1>1. CASE UNCHANGED vars
  BY <1>1 DEF vars, IInv, TypeOK, OneAtWork, Claimed, Stored, OneResult, Counted, ErrorsBoundRows, At
<1>2. CASE \E p \in Proposals : Propose(p)
  BY <1>2, ProposeInv
<1>3. ASSUME NEW c \in Confirmers, Confirm(c)
      PROVE  IInv'
  BY <1>3, ClaimInv, RecallInv, SubmitInv, DispatchInv, CompleteInv, RaiseInv, LeaveInv DEF Confirm
<1> QED
  BY <1>1, <1>2, <1>3 DEF Next

THEOREM Invariant == Spec => []IInv
  BY InitIInv, NextIInv, PTL DEF Spec
-----------------------------------------------------------------------------
(* Every reachable state of the proposals is well typed.                   *)
THEOREM TypeCorrect == Spec => []TypeOK
<1>1. IInv => TypeOK
  BY DEF IInv
<1> QED
  BY <1>1, Invariant, PTL

(* All callers of a confirmed proposal are given its stored result.        *)
THEOREM ResultsAgree == Spec => []OneResult
<1>1. IInv => OneResult
  BY DEF IInv, Stored
<1> QED
  BY <1>1, Invariant, PTL

(* Only confirmations that raise make a proposal be submitted again.       *)
THEOREM RowsBounded == Spec => []ErrorsBoundRows
<1>1. IInv => ErrorsBoundRows
  BY DEF IInv, Counted
<1> QED
  BY <1>1, Invariant, PTL

(* No step takes back what is confirmed.                                   *)
THEOREM ConfirmedIsFinal == Spec => ConfirmedStands
<1>1. ASSUME IInv, [Next]_vars, NEW p \in Proposals, status[p] = "confirmed"
      PROVE  status'[p] = "confirmed" /\ result'[p] = result[p]
  <2>1. CASE UNCHANGED vars
    BY <1>1, <2>1 DEF vars
  <2>2. CASE \E q \in Proposals : Propose(q)
    BY <1>1, <2>2 DEF Propose, IInv, TypeOK
  <2>3. ASSUME NEW c \in Confirmers, Confirm(c)
        PROVE  status'[p] = "confirmed" /\ result'[p] = result[p]
    <3>1. CASE \E q \in Proposals : Claim(c, q) \/ Recall(c, q)
      BY <1>1, <3>1 DEF Claim, Recall, IInv, TypeOK
    <3>2. CASE Submit(c) \/ (\E done \in BOOLEAN : Dispatch(c, done)) \/ Die(c)
      BY <1>1, <3>2 DEF Submit, Dispatch, Die
    <3>3. CASE Complete(c) \/ Raise(c)
      <4>1. desk[c].proposal \in Proposals /\ status[desk[c].proposal] = "confirming"
        BY <1>1, <3>3 DEF Complete, Raise, At, IInv, TypeOK, Claimed
      <4> QED
        BY <1>1, <3>3, <4>1 DEF Complete, Raise, IInv, TypeOK
    <3>4. CASE Release(c)
      BY <1>1, <3>4 DEF Release, IInv, TypeOK, At
    <3> QED
      BY <2>3, <3>1, <3>2, <3>3, <3>4 DEF Confirm
  <2> QED
    BY <1>1, <2>1, <2>2, <2>3 DEF Next
<1>2. IInv /\ [Next]_vars =>
        [\A p \in Proposals : status[p] = "confirmed" =>
           status'[p] = "confirmed" /\ result'[p] = result[p]]_vars
  BY <1>1
<1> QED
  BY <1>2, Invariant, PTL DEF Spec, ConfirmedStands
-----------------------------------------------------------------------------
(***************************************************************************)
(* Theorems about ModelQuery, for any calls, ids, number of providers and  *)
(* of tasks.  The inductive invariant says, for each place where a query   *)
(* may be, what it can have left in the database, and that a query under   *)
(* way is the one registered under its id.                                 *)
(***************************************************************************)
Bare(q) == tasks[q] = 0 /\ q \notin approval /\ packet[q] = "none"

Left(q) ==
  /\ state[q] \in {"new", "ready", "dispatching", "waiting", "answered", "refused"} => Bare(q)
  /\ state[q] = "deciding" => q \notin approval /\ packet[q] = "none"
  /\ state[q] = "asking" => tasks[q] = 0 /\ packet[q] = "none"
  /\ state[q] = "recording" => packet[q] = "none"
  /\ q \in stopping =>
       Bare(q) /\ state[q] \in {"ready", "waiting", "cancelled", "closed", "lost"}
  /\ q \in open =>
       packet[q] = "none" /\ state[q] \in {"waiting", "cancelled", "closed", "lost"}
  /\ packet[q] = "pending_approval" => q \in approval
  /\ packet[q] = "queued_for_execution" => tasks[q] > 0
  /\ packet[q] = "recorded" => tasks[q] = 0 /\ q \notin approval
  /\ q \in approval => tasks[q] = 0

Registered ==
  \A q \in Calls : Active(q) /\ IdOf[q] # Nil => registry[IdOf[q]] = q

QueryInv ==
  /\ QueryTypeOK
  /\ Registered /\ \A q \in Calls : Left(q)
-----------------------------------------------------------------------------
LEMMA QueryInvInit == QueryInit => QueryInv
  BY QueryAssumption DEF QueryInit, QueryInv, QueryTypeOK, Registered, Left, Bare,
         Active, Gone, Busy, Ended

(* A step of one query that is under way and stays so.                     *)
LEMMA OneQuery ==
  ASSUME QueryInv, NEW q \in Calls, NEW s, Goto(q, s), Active(q),
         s \in Busy \cup Ended \cup {"waiting"},
         next' \in [Calls -> 1 .. Providers], loop' \in Calls \cup {Nil},
         UNCHANGED <<registry, stopping>>,
         open' \subseteq Calls, tasks' \in [Calls -> 0 .. Lanes], approval' \subseteq Calls,
         packet' \in [Calls -> {"none", "pending_approval", "queued_for_execution", "recorded"}],
         \A p \in Calls : p # q => /\ p \in open' <=> p \in open
                                   /\ p \in approval' <=> p \in approval
                                   /\ tasks'[p] = tasks[p] /\ packet'[p] = packet[p],
         state'[q] = s => Left(q)'
  PROVE  QueryInv'
<1>1. /\ state' = [state EXCEPT ![q] = s] /\ state'[q] = s
      /\ \A p \in Calls : p # q => state'[p] = state[p]
  BY DEF Goto, QueryInv, QueryTypeOK
<1>2. QueryTypeOK'
  BY <1>1 DEF QueryInv, QueryTypeOK
<1>3. Registered'
  BY <1>1 DEF QueryInv, Registered, Active, Gone, Busy, Ended
<1>4. ASSUME NEW p \in Calls, p # q
      PROVE  Left(p)'
  <2>1. Left(p)
    BY DEF QueryInv
  <2> QED
    BY <1>1, <1>4, <2>1 DEF Left, Bare
<1> QED
  BY <1>1, <1>2, <1>3, <1>4 DEF QueryInv

LEMMA QueryRuns ==
  ASSUME QueryInv, NEW q \in Calls, QueryStep(q) \/ QueryRaises(q), ~Respond(q)
  PROVE  QueryInv'
<1>0. Left(q) /\ state[q] \in {"new", "ready", "waiting"} \cup Busy \cup Ended \cup Gone
  BY DEF QueryInv, QueryTypeOK
<1>00. next[q] \in 1 .. Providers /\ tasks[q] \in 0 .. Lanes /\ Providers \in Nat /\ Lanes \in Nat
  BY QueryAssumption DEF QueryInv, QueryTypeOK
<1> USE DEF Active, Gone, Busy, Ended, queryRows
<1>1. CASE Start(q)
  <2>1. state'[q] = "dispatching" => Left(q)'
    BY <1>0, <1>1 DEF Start, Left, Bare
  <2> QED
    BY <1>1, <2>1, OneQuery DEF Start, QueryInv, QueryTypeOK
<1>2. CASE Stop(q)
  <2>1. state'[q] = "cancelled" => Left(q)'
    BY <1>0, <1>2 DEF Stop, Left, Bare
  <2> QED
    BY <1>2, <2>1, OneQuery DEF Stop, QueryInv, QueryTypeOK
<1>3. CASE Reply(q)
  <2>1. state'[q] = "answered" => Left(q)'
    BY <1>0, <1>3 DEF Reply, Left, Bare
  <2> QED
    BY <1>3, <2>1, OneQuery DEF Reply, QueryInv, QueryTypeOK
<1>4. CASE Continue(q)
  <2>1. CASE next[q] < Providers
    <3>1. state'[q] = "dispatching" => Left(q)'
      BY <1>0, <1>4, <2>1 DEF Continue, Left, Bare
    <3>2. next' \in [Calls -> 1 .. Providers]
      BY <1>00, <1>4, <2>1 DEF Continue, QueryInv, QueryTypeOK
    <3> QED
      BY <1>4, <2>1, <3>1, <3>2, OneQuery DEF Continue, QueryInv, QueryTypeOK
  <2>2. CASE ~(next[q] < Providers)
    <3>1. state'[q] = "deciding" => Left(q)'
      BY <1>0, <1>4, <2>2 DEF Continue, Left, Bare
    <3> QED
      BY <1>4, <2>2, <3>1, OneQuery DEF Continue, QueryInv, QueryTypeOK
  <2> QED
    BY <2>1, <2>2
<1>5. CASE Ask(q)
  <2>1. state'[q] = "recording" => Left(q)'
    BY <1>0, <1>5 DEF Ask, Left, Bare
  <2> QED
    BY <1>5, <2>1, OneQuery DEF Ask, QueryInv, QueryTypeOK
<1>6. CASE Record(q)
  <2>1. packet' = [packet EXCEPT ![q] = IF q \in approval THEN "pending_approval"
                     ELSE IF tasks[q] > 0 THEN "queued_for_execution" ELSE "recorded"]
    BY <1>6 DEF Record
  <2>2. packet' \in [Calls -> {"none", "pending_approval", "queued_for_execution", "recorded"}]
    BY <2>1 DEF QueryInv, QueryTypeOK
  <2>3. packet'[q] = (IF q \in approval THEN "pending_approval"
                      ELSE IF tasks[q] > 0 THEN "queued_for_execution" ELSE "recorded")
        /\ \A p \in Calls : p # q => packet'[p] = packet[p]
    BY <2>1 DEF QueryInv, QueryTypeOK
  <2>4. state'[q] = "done" => Left(q)'
    BY <1>0, <1>00, <1>6, <2>3 DEF Record, Left, Bare
  <2> QED
    BY <1>6, <2>2, <2>3, <2>4, OneQuery DEF Record, QueryInv, QueryTypeOK
<1>7. ASSUME NEW configured \in BOOLEAN, DispatchTo(q, configured)
      PROVE  QueryInv'
  <2>1. CASE configured
    <3>1. state'[q] = "waiting" => Left(q)'
      BY <1>0, <1>7, <2>1 DEF DispatchTo, Left, Bare
    <3> QED
      BY <1>7, <2>1, <3>1, OneQuery DEF DispatchTo, QueryInv, QueryTypeOK
  <2>2. CASE ~configured
    <3>1. state'[q] = "answered" => Left(q)'
      BY <1>0, <1>7, <2>2 DEF DispatchTo, Left, Bare
    <3> QED
      BY <1>7, <2>2, <3>1, OneQuery DEF DispatchTo, QueryInv, QueryTypeOK
  <2> QED
    BY <2>1, <2>2
<1>8. ASSUME NEW risky \in BOOLEAN, Decide(q, risky)
      PROVE  QueryInv'
  <2>1. CASE Asks(q, risky) /\ Goto(q, "asking") /\ UNCHANGED tasks
    <3>1. state'[q] = "asking" => Left(q)'
      BY <1>0, <1>8, <2>1 DEF Decide, Asks, Left, Bare
    <3> QED
      BY <1>8, <2>1, <3>1, OneQuery DEF Decide, QueryInv, QueryTypeOK
  <2>2. CASE Works(q) /\ tasks' = [tasks EXCEPT ![q] = @ + 1] /\ UNCHANGED state
    <3>1. tasks[q] + 1 \in 0 .. Lanes
      BY <1>00, <2>2 DEF Works
    <3>2. /\ tasks' \in [Calls -> 0 .. Lanes] /\ tasks'[q] = tasks[q] + 1
          /\ \A p \in Calls : p # q => tasks'[p] = tasks[p]
      BY <2>2, <3>1 DEF QueryInv, QueryTypeOK
    <3>3. state[q] = "deciding" /\ Goto(q, "deciding")
      BY <1>8, <2>2 DEF Decide, Goto, QueryInv, QueryTypeOK
    <3>4. state'[q] = "deciding" => Left(q)'
      BY <1>0, <1>00, <1>8, <3>2, <3>3 DEF Decide, Left, Bare
    <3> QED
      BY <1>8, <3>2, <3>3, <3>4, OneQuery DEF Decide, QueryInv, QueryTypeOK
  <2>3. CASE ~Works(q) /\ Goto(q, "recording") /\ UNCHANGED tasks
    <3>1. state'[q] = "recording" => Left(q)'
      BY <1>0, <1>8, <2>3 DEF Decide, Left, Bare
    <3> QED
      BY <1>8, <2>3, <3>1, OneQuery DEF Decide, QueryInv, QueryTypeOK
  <2> QED
    BY <1>8, <2>1, <2>2, <2>3 DEF Decide
<1>9. CASE QueryRaises(q)
  <2>1. state'[q] = "failed" => Left(q)'
    BY <1>0, <1>9 DEF QueryRaises, Left, Bare
  <2> QED
    BY <1>9, <2>1, OneQuery DEF QueryRaises, QueryInv, QueryTypeOK
<1> QED
  BY <1>1, <1>2, <1>3, <1>4, <1>5, <1>6, <1>7, <1>8, <1>9 DEF QueryStep

(* Steps that leave the rows of all queries as they are.                   *)
LEMMA HandlerStep ==
  ASSUME QueryInv, \/ \E q \in Calls : Handle(q) \/ Respond(q)
                   \/ \E i \in Ids : Cancel(i)
                   \/ Restart
  PROVE  QueryInv'
<1> USE DEF Active, Gone, Busy, Ended, queryRows, Goto
<1>1. ASSUME NEW q \in Calls, Handle(q)
      PROVE  QueryInv'
  <2>1. QueryTypeOK'
    BY <1>1 DEF Handle, QueryInv, QueryTypeOK
  <2>2. Registered'
    BY <1>1, QueryAssumption DEF Handle, QueryInv, QueryTypeOK, Registered
  <2>3. \A p \in Calls : Left(p)'
    BY <1>1 DEF Handle, QueryInv, QueryTypeOK, Left, Bare
  <2> QED
    BY <2>1, <2>2, <2>3 DEF QueryInv
<1>2. ASSUME NEW q \in Calls, Respond(q)
      PROVE  QueryInv'
  <2>1. QueryTypeOK'
    BY <1>2 DEF Respond, QueryInv, QueryTypeOK
  <2>2. Registered'
    BY <1>2, QueryAssumption DEF Respond, QueryInv, QueryTypeOK, Registered
  <2>3. \A p \in Calls : Left(p)'
    BY <1>2 DEF Respond, QueryInv, QueryTypeOK, Left, Bare
  <2> QED
    BY <2>1, <2>2, <2>3 DEF QueryInv
<1>3. ASSUME NEW i \in Ids, Cancel(i)
      PROVE  QueryInv'
  <2>1. QueryTypeOK' /\ Registered'
    BY <1>3, QueryAssumption DEF Cancel, QueryInv, QueryTypeOK, Registered
  <2>2. \A p \in Calls : Left(p)'
    BY <1>3 DEF Cancel, QueryInv, QueryTypeOK, Left, Bare
  <2> QED
    BY <2>1, <2>2 DEF QueryInv
<1>4. CASE Restart
  <2>1. QueryTypeOK' /\ Registered'
    BY <1>4, QueryAssumption DEF Restart, QueryInv, QueryTypeOK, Registered
  <2>2. \A p \in Calls : Left(p)'
    BY <1>4 DEF Restart, QueryInv, QueryTypeOK, Left, Bare
  <2> QED
    BY <2>1, <2>2 DEF QueryInv
<1> QED
  BY <1>1, <1>2, <1>3, <1>4

LEMMA QueryInvNext == QueryInv /\ [QueryNext]_queryVars => QueryInv'
<1> SUFFICES ASSUME QueryInv, [QueryNext]_queryVars
             PROVE  QueryInv'
  OBVIOUS
<1>1. CASE UNCHANGED queryVars
  BY <1>1 DEF queryVars, queryRows, QueryInv, QueryTypeOK, Registered, Left, Bare, Active
<1>2. CASE QueryNext
  BY <1>2, QueryRuns, HandlerStep DEF QueryNext
<1> QED
  BY <1>1, <1>2

THEOREM QueryInvariant == QuerySpec => []QueryInv
  BY QueryInvInit, QueryInvNext, PTL DEF QuerySpec
-----------------------------------------------------------------------------
(* Every reachable state of queries, registry and rows is well typed.      *)
THEOREM QueryTypeCorrect == QuerySpec => []QueryTypeOK
<1>1. QueryInv => QueryTypeOK
  BY DEF QueryInv
<1> QED
  BY <1>1, QueryInvariant, PTL

(* A query that was stopped leaves no work and no packet behind.           *)
THEOREM StopIsClean == QuerySpec => []StoppedLeavesNothing
<1>1. QueryInv => StoppedLeavesNothing
  BY DEF QueryInv, QueryTypeOK, Left, Bare, StoppedLeavesNothing
<1> QED
  BY <1>1, QueryInvariant, PTL

(* At most one query is under way for an id.                               *)
THEOREM IdsAreExclusive == QuerySpec => []OneActivePerId
<1>1. QueryInv => OneActivePerId
  BY DEF QueryInv, Registered, OneActivePerId
<1> QED
  BY <1>1, QueryInvariant, PTL

(* A packet agrees with the tasks and the approval of its query.           *)
THEOREM PacketsTellTheTruth == QuerySpec => []PacketTruthful
<1>1. QueryInv => PacketTruthful
  BY DEF QueryInv, Left, PacketTruthful
<1> QED
  BY <1>1, QueryInvariant, PTL
=============================================================================
