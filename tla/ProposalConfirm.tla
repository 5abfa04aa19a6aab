--------------------------- MODULE ProposalConfirm ---------------------------
(***************************************************************************)
(* What an operator tells a PET to do in a conversation is first recorded  *)
(* as a proposal, and submitted when it is confirmed                       *)
(* (pet_conversation_actions.py).  A proposal stands for one or two calls, *)
(* made in order: capability requests, dispatched at once if no approval   *)
(* is needed, or an operator request and the chat message that announces   *)
(* it.  Each call commits by itself, so a confirmation that raises or dies *)
(* half way leaves what it has submitted.                                  *)
(***************************************************************************)
EXTENDS Naturals, FiniteSets

CONSTANTS
  Proposals,    \* rows of pet_action_proposals
  Twofold,      \* those of type multi_action or brain_communication
  Messages,     \* those of type brain_communication
  Guarded,      \* those of types that need an approval, multi_action among them
  Confirmers,   \* calls of the confirmation handler that may overlap
  None          \* null

Parts == {1, 2}
LastOf(p) == IF p \in Twofold THEN 2 ELSE 1

ASSUME ProposalAssumption ==
  /\ Messages \subseteq Proposals /\ Guarded \subseteq Proposals \ Messages
  /\ Messages \subseteq Twofold /\ Twofold \subseteq Messages \cup Guarded
  /\ None \notin Proposals /\ None \notin [Parts -> Nat]

VARIABLES
  status,     \* pet_action_proposals.status
  result,     \* pet_action_proposals.result: the rows that the response names
  rows,       \* how many rows each part of a proposal was submitted as
  sent,       \* which of these rows were dispatched
  desk,       \* where each confirmation is
  answered,   \* history: the results that callers were given
  raised      \* history: how many confirmations raised

vars == <<status, result, rows, sent, desk, answered, raised>>

NoRows == [i \in Parts |-> 0]
Away == [step |-> "idle", proposal |-> None, part |-> 1, names |-> NoRows]

TypeOK ==
  /\ status \in [Proposals -> {"none", "proposed", "confirming", "confirmed"}]
  /\ result \in [Proposals -> [Parts -> Nat] \cup {None}]
  /\ rows \in [Proposals -> [Parts -> Nat]]
  /\ sent \in [Proposals -> [Parts -> SUBSET Nat]]
  /\ desk \in [Confirmers ->
       [step : {"idle", "submit", "dispatch", "complete", "failed"},
        proposal : Proposals \cup {None}, part : Parts, names : [Parts -> Nat]]]
  /\ \A c \in Confirmers : desk[c].step # "idle" => desk[c].proposal \in Proposals
  /\ answered \subseteq Proposals \X [Parts -> Nat]
  /\ raised \in [Proposals -> Nat]

Init ==
  /\ status = [p \in Proposals |-> "none"]
  /\ result = [p \in Proposals |-> None]
  /\ rows = [p \in Proposals |-> NoRows]
  /\ sent = [p \in Proposals |-> [i \in Parts |-> {}]]
  /\ desk = [c \in Confirmers |-> Away]
  /\ answered = {}
  /\ raised = [p \in Proposals |-> 0]
-----------------------------------------------------------------------------
At(c, s) == desk[c].step = s
Leave(c) == desk' = [desk EXCEPT ![c] = Away]
Move(c, s) == desk' = [desk EXCEPT ![c].step = s]

(* propose_pet_conversation_action: the action is planned and validated,   *)
(* then stored; nothing else happens.                                      *)
Propose(p) ==
  /\ status[p] = "none"
  /\ status' = [status EXCEPT ![p] = "proposed"]
  /\ UNCHANGED <<result, rows, sent, desk, answered, raised>>

(* Slip: whatever is not confirmed may be claimed.                         *)
ClaimAny(c, p) ==
  /\ At(c, "idle") /\ status[p] \in {"proposed", "confirming"}
  /\ status' = [status EXCEPT ![p] = "confirming"]
  /\ desk' = [desk EXCEPT ![c] = [Away EXCEPT !.step = "submit", !.proposal = p]]
  /\ UNCHANGED <<result, rows, sent, answered, raised>>

(* _claim_proposal, for a row that can be claimed.                         *)
Claim(c, p) ==
  /\ At(c, "idle") /\ status[p] = "proposed"
  /\ status' = [status EXCEPT ![p] = "confirming"]
  /\ IF result[p] = None
     THEN /\ desk' = [desk EXCEPT ![c] = [Away EXCEPT !.step = "submit", !.proposal = p]]
          /\ UNCHANGED answered
     ELSE answered' = answered \cup {<<p, result[p]>>} /\ UNCHANGED desk
  /\ UNCHANGED <<result, rows, sent, raised>>

(* _claim_proposal, for any other row: its result, if it has one.  A       *)
(* caller that comes during "confirming" is told so, and changes nothing.  *)
Recall(c, p) ==
  /\ At(c, "idle") /\ status[p] # "proposed" /\ result[p] # None
  /\ answered' = answered \cup {<<p, result[p]>>}
  /\ UNCHANGED <<status, result, rows, sent, desk, raised>>

(* The step that follows part i of a proposal.                             *)
After(p, i) == IF i = LastOf(p) THEN "complete" ELSE "submit"

(* submit_capability_request; create_operator_request and                  *)
(* post_team_chat_message.                                                 *)
Submit(c) ==
  LET p == desk[c].proposal
      i == desk[c].part
      n == rows[p][i] + 1
      now == p \in Messages \cup Guarded
  IN  /\ At(c, "submit")
      /\ rows' = [rows EXCEPT ![p][i] = n]
      /\ desk' = [desk EXCEPT ![c] =
           [step |-> IF now THEN After(p, i) ELSE "dispatch", proposal |-> p,
            part |-> IF now THEN LastOf(p) ELSE i, names |-> [@.names EXCEPT ![i] = n]]]
      /\ UNCHANGED <<status, result, sent, answered, raised>>

(* dispatch_approved_request: it dispatches, or what it raises is put into *)
(* the response as "blocked".                                              *)
Dispatch(c, done) ==
  LET p == desk[c].proposal
      i == desk[c].part
  IN  /\ At(c, "dispatch")
      /\ sent' = IF done THEN [sent EXCEPT ![p][i] = @ \cup {desk[c].names[i]}] ELSE sent
      /\ desk' = [desk EXCEPT ![c] = [@ EXCEPT !.step = After(p, i), !.part = LastOf(p)]]
      /\ UNCHANGED <<status, result, rows, answered, raised>>

(* _complete_proposal, and the response.                                   *)
Complete(c) ==
  LET p == desk[c].proposal
  IN  /\ At(c, "complete")
      /\ status' = [status EXCEPT ![p] = "confirmed"]
      /\ result' = [result EXCEPT ![p] = desk[c].names]
      /\ answered' = answered \cup {<<p, desk[c].names>>}
      /\ Leave(c)
      /\ UNCHANGED <<rows, sent, raised>>

(* A call raises, the last one perhaps after it has committed.             *)
Raise(c) ==
  LET p == desk[c].proposal
  IN  /\ desk[c].step \in {"submit", "dispatch", "complete"}
      /\ \/ UNCHANGED <<status, result>>
         \/ /\ At(c, "complete")
            /\ status' = [status EXCEPT ![p] = "confirmed"]
            /\ result' = [result EXCEPT ![p] = desk[c].names]
      /\ raised' = [raised EXCEPT ![p] = @ + 1]
      /\ Move(c, "failed")
      /\ UNCHANGED <<rows, sent, answered>>

(* Slip: a proposal is open again whatever has become of it.               *)
ReleaseAlways(c) ==
  /\ At(c, "failed")
  /\ status' = [status EXCEPT ![desk[c].proposal] = "proposed"]
  /\ Leave(c)
  /\ UNCHANGED <<result, rows, sent, answered, raised>>

(* _release_proposal.                                                      *)
Release(c) ==
  LET p == desk[c].proposal
  IN  /\ At(c, "failed")
      /\ status' = [status EXCEPT ![p] = IF @ = "confirming" THEN "proposed" ELSE @]
      /\ Leave(c)
      /\ UNCHANGED <<result, rows, sent, answered, raised>>

(* Slip: the proposal is released in a finally clause.                     *)
DieReleased(c) ==
  /\ ~At(c, "idle")
  /\ status' = [status EXCEPT ![desk[c].proposal] = "proposed"]
  /\ Leave(c)
  /\ UNCHANGED <<result, rows, sent, answered, raised>>

(* The process ends, or the release raises as well.                        *)
Die(c) ==
  /\ ~At(c, "idle")
  /\ Leave(c)
  /\ UNCHANGED <<status, result, rows, sent, answered, raised>>

Confirm(c) ==
  \/ \E p \in Proposals : Claim(c, p) \/ Recall(c, p)
  \/ \E done \in BOOLEAN : Dispatch(c, done)
  \/ Submit(c) \/ Complete(c) \/ Raise(c) \/ Release(c) \/ Die(c)

Next ==
  \/ \E p \in Proposals : Propose(p)
  \/ \E c \in Confirmers : Confirm(c)

Spec == Init /\ [][Next]_vars
-----------------------------------------------------------------------------
(* Whoever gets a result for a proposal, from the confirmation that made   *)
(* it or later, gets the same one, and it is the one stored.               *)
OneResult == \A a \in answered : a[2] = result[a[1]]

(* Each part is submitted once, and once more for every confirmation that  *)
(* raised; overlapping confirmations, deaths and repeated calls after a    *)
(* response submit nothing again.                                          *)
ErrorsBoundRows == \A p \in Proposals, i \in Parts : rows[p][i] <= 1 + raised[p]

(* "Idempotently submit only the immutable action stored by the proposal": *)
(* each part is submitted at most once.                                    *)
SubmittedOnce == \A p \in Proposals, i \in Parts : rows[p][i] <= 1

(* A confirmed proposal keeps its result, also when a confirmation raised  *)
(* after its result was committed.                                         *)
ConfirmedStands ==
  [][\A p \in Proposals : status[p] = "confirmed" =>
       status'[p] = "confirmed" /\ result'[p] = result[p]]_vars
=============================================================================
