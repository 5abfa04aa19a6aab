---------------------------- MODULE ApprovalFlow ----------------------------
(***************************************************************************)
(* What waits for an approval, and who decides: approvals.py, the review   *)
(* handler of api.py, approval_processor.py, and the two kinds of records  *)
(* that hang on an approval, PET release submissions (pet_release.py) and  *)
(* remote operations (remote_ops.py) with the SSH broker that carries out  *)
(* diagnostics (ssh_broker.py).                                            *)
(*                                                                         *)
(* Each action is one transaction, or one step between two; a process may  *)
(* end between any two of them.                                            *)
(***************************************************************************)
EXTENDS Naturals, FiniteSets

CONSTANTS
  Submissions,  \* submission keys of PET release candidates
  Incomplete,   \* those whose evidence is not complete
  Operations,   \* remote operations
  Typed,        \* those whose type is in SENSITIVE_OPERATIONS
  Worded,       \* those whose summary has one of DESTRUCTIVE_WORDS
  Allowed,      \* those whose type the role of the machine allows
  Diagnostics,  \* those of type ssh_diagnostic
  Plain,        \* approvals asked for on their own
  LowRisk,      \* those of low risk, with all evidence and no HIGH_IMPACT_TERMS
  Clients,      \* callers that submit candidates and request operations
  Reviewers,    \* calls of the review handler by an operator
  Processors,   \* runs of process_approval_queue
  Brokers,      \* SSH broker processes
  Evidence,     \* who decides, and with which evidence
  None          \* no item

Items == Submissions \cup Operations \cup Plain
Decisions == {"approved", "rejected", "needs_changes", "deployed"}

ASSUME ApprovalAssumption ==
  /\ Submissions \cap Operations = {} /\ Plain \cap (Submissions \cup Operations) = {}
  /\ Incomplete \subseteq Submissions
  /\ {Typed, Worded, Allowed} \subseteq SUBSET Operations
  /\ Diagnostics \subseteq Typed
  /\ LowRisk \subseteq Plain
  /\ None \notin Items

VARIABLES
  approval,    \* approval_requests.status
  events,      \* approval_events: the decisions operators took
  opened,      \* history: how many approvals a submission opened
  submission,  \* pet_release_submissions.status
  ledger,      \* pet_release_decisions
  operation,   \* remote_operation_requests.status
  linked,      \* whose row has its approval_request_id
  client,      \* where each client is
  review,      \* where each call of the review handler is
  sweep,       \* where each run of the processor is
  broker,      \* where each broker is
  disabled,    \* the kill switch
  ran          \* operations that the target machine carried out

records == <<submission, ledger, operation, linked>>
desks == <<client, review, sweep, broker>>
vars == <<approval, events, opened, records, desks, disabled, ran>>

Away == [step |-> "idle", item |-> None]
NoReview == [step |-> "idle", item |-> None, decision |-> "rejected"]
NoSweep == [todo |-> {}, item |-> None]

TypeOK ==
  /\ approval \in [Items -> Decisions \cup {"none", "pending"}]
  /\ events \in [Items -> SUBSET Decisions]
  /\ opened \in [Submissions -> Nat]
  /\ submission \in [Submissions -> {"none", "processing", "needs_evidence",
       "pending_brain_review", "approved", "rejected", "deployed"}]
  /\ ledger \in [Submissions -> SUBSET (Decisions \X Evidence)]
  /\ operation \in [Operations -> {"none", "pending_approval", "blocked", "queued",
       "needs_changes", "rejected", "completed", "failed"}]
  /\ linked \subseteq Submissions \cup Operations
  /\ client \in [Clients ->
       [step : {"idle", "recorded", "asked"}, item : Items \cup {None}]]
  /\ \A c \in Clients : client[c].step # "idle" => client[c].item \in Submissions \cup Operations
  /\ review \in [Reviewers ->
       [step : {"idle", "reviewed"}, item : Items \cup {None}, decision : Decisions]]
  /\ sweep \in [Processors -> [todo : SUBSET Items, item : Items \cup {None}]]
  /\ broker \in [Brokers ->
       [step : {"idle", "enabled", "cleared", "completed", "failed"},
        item : Operations \cup {None}]]
  /\ \A b \in Brokers : broker[b].step # "idle" => broker[b].item \in Operations
  /\ disabled \in BOOLEAN
  /\ ran \subseteq Operations

Init ==
  /\ approval = [i \in Items |-> "none"]
  /\ events = [i \in Items |-> {}]
  /\ opened = [s \in Submissions |-> 0]
  /\ submission = [s \in Submissions |-> "none"]
  /\ ledger = [s \in Submissions |-> {}]
  /\ operation = [o \in Operations |-> "none"]
  /\ linked = {}
  /\ client = [c \in Clients |-> Away]
  /\ review = [v \in Reviewers |-> NoReview]
  /\ sweep = [p \in Processors |-> NoSweep]
  /\ broker = [b \in Brokers |-> Away]
  /\ disabled = FALSE /\ ran = {}
-----------------------------------------------------------------------------
(* evaluate_remote_operation.                                              *)

Sensitive(o) == o \in Typed \cup Worded
Blocked(o) == o \notin Allowed /\ o \notin Typed
NeedsApproval(o) == Sensitive(o) \/ o \notin Allowed

(* _decision_for: candidates and sensitive operations are of high risk.    *)
HighImpact(i) == i \in Submissions \/ (i \in Operations /\ Sensitive(i))

(* Slip: the risk level is not looked at.                                  *)
RulingBlind(i) == IF i \notin Plain \/ i \in LowRisk THEN "approved" ELSE "needs_changes"

Ruling(i) == IF ~HighImpact(i) /\ i \in LowRisk THEN "approved" ELSE "needs_changes"

(* The status of a remote operation after a decision about it.             *)
OperationStatus(d) ==
  CASE d = "approved" -> "queued"
    [] d = "deployed" -> "completed"
    [] OTHER -> d

(* Slip: the decision is stored as it is.                                  *)
SubmissionStatusRaw(d) == d

(* The status of a submission after a decision about it.                   *)
SubmissionStatus(d) == IF d = "needs_changes" THEN "needs_evidence" ELSE d
-----------------------------------------------------------------------------
(* Clients: submit_pet_release_candidate, request_remote_operation.        *)

Goto(c, s, i) == client' = [client EXCEPT ![c] = [step |-> s, item |-> i]]
Leave(c) == client' = [client EXCEPT ![c] = Away]

(* Slip: a caller whose key is there already goes on as if it were new.    *)
ReserveAgain(c, s) ==
  /\ client[c].step = "idle"
  /\ submission' = [submission EXCEPT ![s] = IF @ = "none" THEN "processing" ELSE @]
  /\ Goto(c, "recorded", s)
  /\ UNCHANGED <<approval, events, opened, ledger, operation, linked, review, sweep,
                 broker, disabled, ran>>

(* _reserve_submission: the first caller with a key goes on; the others    *)
(* are given what the row says.                                            *)
Reserve(c, s) ==
  /\ client[c].step = "idle" /\ submission[s] = "none"
  /\ submission' = [submission EXCEPT ![s] = "processing"]
  /\ Goto(c, "recorded", s)
  /\ UNCHANGED <<approval, events, opened, ledger, operation, linked, review, sweep,
                 broker, disabled, ran>>

(* request_remote_operation, up to its first commit.                       *)
Request(c, o) ==
  /\ client[c].step = "idle" /\ operation[o] = "none"
  /\ IF NeedsApproval(o)
     THEN operation' = [operation EXCEPT ![o] = "pending_approval"] /\ Goto(c, "recorded", o)
     ELSE operation' = [operation EXCEPT ![o] = "queued"] /\ UNCHANGED client
  /\ UNCHANGED <<approval, events, opened, submission, ledger, linked, review, sweep,
                 broker, disabled, ran>>

(* What the client recorded goes no further: evidence is asked for, or the *)
(* operation is blocked.                                                   *)
TurnDown(c) ==
  LET i == client[c].item
  IN  /\ client[c].step = "recorded"
      /\ \/ /\ i \in Incomplete /\ submission[i] = "processing"
            /\ submission' = [submission EXCEPT ![i] = "needs_evidence"]
            /\ UNCHANGED operation
         \/ /\ i \in Operations /\ Blocked(i)
            /\ operation' = [operation EXCEPT ![i] = "blocked"]
            /\ UNCHANGED submission
      /\ Leave(c)
      /\ UNCHANGED <<approval, events, opened, ledger, linked, review, sweep, broker,
                     disabled, ran>>

(* Slip: incomplete evidence is left to the reviewers to find.             *)
OpenForAll(c) ==
  LET i == client[c].item
  IN  /\ client[c].step = "recorded" /\ ~(i \in Operations /\ Blocked(i))
      /\ approval' = [approval EXCEPT ![i] = "pending"]
      /\ opened' = IF i \in Submissions THEN [opened EXCEPT ![i] = @ + 1] ELSE opened
      /\ Goto(c, "asked", i)
      /\ UNCHANGED <<events, records, review, sweep, broker, disabled, ran>>

(* create_approval_request for a complete candidate or an operation.       *)
Open(c) ==
  LET i == client[c].item
  IN  /\ client[c].step = "recorded"
      /\ i \notin Incomplete /\ ~(i \in Operations /\ Blocked(i))
      /\ approval' = [approval EXCEPT ![i] = "pending"]
      /\ opened' = IF i \in Submissions THEN [opened EXCEPT ![i] = @ + 1] ELSE opened
      /\ Goto(c, "asked", i)
      /\ UNCHANGED <<events, records, review, sweep, broker, disabled, ran>>

(* _finalize_submission, or the operation's link to its approval.          *)
Link(c) ==
  LET i == client[c].item
  IN  /\ client[c].step = "asked"
      /\ \/ i \in Operations /\ UNCHANGED submission
         \/ /\ i \in Submissions /\ submission[i] = "processing"
            /\ submission' = [submission EXCEPT ![i] = "pending_brain_review"]
      /\ linked' = linked \cup {i}
      /\ Leave(c)
      /\ UNCHANGED <<approval, events, opened, ledger, operation, review, sweep, broker,
                     disabled, ran>>

ClientFails(c) ==
  /\ client[c].step # "idle"
  /\ Leave(c)
  /\ UNCHANGED <<approval, events, opened, records, review, sweep, broker, disabled, ran>>

(* POST /approvals.                                                        *)
Ask(i) ==
  /\ i \in Plain /\ approval[i] = "none"
  /\ approval' = [approval EXCEPT ![i] = "pending"]
  /\ UNCHANGED <<events, opened, records, desks, disabled, ran>>
-----------------------------------------------------------------------------
(* The review handler of the API, called by an operator.                   *)

(* review_approval_request: whatever the status is.                        *)
Review(v, i, d) ==
  /\ review[v].step = "idle" /\ approval[i] # "none"
  /\ approval' = [approval EXCEPT ![i] = d]
  /\ events' = [events EXCEPT ![i] = @ \cup {d}]
  /\ review' = [review EXCEPT ![v] =
                  IF i \in Plain THEN NoReview
                  ELSE [step |-> "reviewed", item |-> i, decision |-> d]]
  /\ UNCHANGED <<opened, records, client, sweep, broker, disabled, ran>>

(* record_pet_release_decision: nothing, if the submission has not stored  *)
(* its approval yet, or the same was decided before on the same evidence.  *)
Record(v, e) ==
  LET s == review[v].item
      d == review[v].decision
  IN  /\ review[v].step = "reviewed" /\ s \in Submissions
      /\ IF s \in linked /\ <<d, e>> \notin ledger[s]
         THEN /\ ledger' = [ledger EXCEPT ![s] = @ \cup {<<d, e>>}]
              /\ submission' = [submission EXCEPT ![s] = SubmissionStatus(d)]
         ELSE UNCHANGED <<ledger, submission>>
      /\ review' = [review EXCEPT ![v] = NoReview]
      /\ UNCHANGED <<approval, events, opened, operation, linked, client, sweep, broker,
                     disabled, ran>>

(* update_remote_operation_from_approval.                                  *)
Update(o, d) == operation' = [operation EXCEPT ![o] = OperationStatus(d)]

Follow(v) ==
  /\ review[v].step = "reviewed" /\ review[v].item \in Operations
  /\ Update(review[v].item, review[v].decision)
  /\ review' = [review EXCEPT ![v] = NoReview]
  /\ UNCHANGED <<approval, events, opened, submission, ledger, linked, client, sweep,
                 broker, disabled, ran>>

ReviewFails(v) ==
  /\ review[v].step # "idle"
  /\ review' = [review EXCEPT ![v] = NoReview]
  /\ UNCHANGED <<approval, events, opened, records, client, sweep, broker, disabled, ran>>
-----------------------------------------------------------------------------
(* process_approval_queue.                                                 *)

(* approval_snapshot, up to its limit.                                     *)
Snapshot(p, S) ==
  /\ sweep[p] = NoSweep /\ S # {}
  /\ \A i \in S : approval[i] = "pending"
  /\ sweep' = [sweep EXCEPT ![p] = [todo |-> S, item |-> None]]
  /\ UNCHANGED <<approval, events, opened, records, client, review, broker, disabled, ran>>

(* review_approval_request of what the snapshot says is pending.           *)
Decide(p, i) ==
  /\ sweep[p].item = None /\ i \in sweep[p].todo
  /\ approval' = [approval EXCEPT ![i] = Ruling(i)]
  /\ sweep' = [sweep EXCEPT ![p] =
                 [todo |-> @.todo \ {i}, item |-> IF i \in Operations THEN i ELSE None]]
  /\ UNCHANGED <<events, opened, records, client, review, broker, disabled, ran>>

(* _route_reviewed_approval.                                               *)
Route(p) ==
  /\ sweep[p].item # None
  /\ Update(sweep[p].item, Ruling(sweep[p].item))
  /\ sweep' = [sweep EXCEPT ![p].item = None]
  /\ UNCHANGED <<approval, events, opened, submission, ledger, linked, client, review,
                 broker, disabled, ran>>

SweepFails(p) ==
  /\ sweep[p] # NoSweep
  /\ sweep' = [sweep EXCEPT ![p] = NoSweep]
  /\ UNCHANGED <<approval, events, opened, records, client, review, broker, disabled, ran>>
-----------------------------------------------------------------------------
(* The SSH broker: execute_approved_diagnostic.                            *)

At(b, s) == broker[b].step = s
Move(b, s) == broker' = [broker EXCEPT ![b].step = s]

SetSwitch(on) ==
  /\ disabled' = on /\ disabled # on
  /\ UNCHANGED <<approval, events, opened, records, desks, ran>>

Start(b, o) ==
  /\ At(b, "idle") /\ ~disabled
  /\ broker' = [broker EXCEPT ![b] = [step |-> "enabled", item |-> o]]
  /\ UNCHANGED <<approval, events, opened, records, client, review, sweep, disabled, ran>>

(* _load_approved_operation.                                               *)
Load(b) ==
  LET o == broker[b].item
  IN  /\ At(b, "enabled")
      /\ o \in Diagnostics /\ o \in linked /\ approval[o] = "approved"
      /\ Move(b, "cleared")
      /\ UNCHANGED <<approval, events, opened, records, client, review, sweep, disabled,
                     ran>>

(* Slip: a command that runs into the time-out counts as completed.        *)
RunHopefully(b) ==
  /\ At(b, "cleared")
  /\ \/ ran' = ran \cup {broker[b].item} /\ Move(b, "completed")
     \/ Move(b, "completed") /\ UNCHANGED ran
  /\ UNCHANGED <<approval, events, opened, records, client, review, sweep, disabled>>

(* ssh, and the forced command of the target: it succeeds, or it fails or  *)
(* runs into the time-out, having run on the target or not.                *)
Run(b) ==
  /\ At(b, "cleared")
  /\ \/ ran' = ran \cup {broker[b].item} /\ Move(b, "completed")
     \/ ran' \in {ran, ran \cup {broker[b].item}} /\ Move(b, "failed")
  /\ UNCHANGED <<approval, events, opened, records, client, review, sweep, disabled>>

(* _record_execution.                                                      *)
Close(b) ==
  /\ broker[b].step \in {"completed", "failed"}
  /\ operation' = [operation EXCEPT ![broker[b].item] = broker[b].step]
  /\ broker' = [broker EXCEPT ![b] = Away]
  /\ UNCHANGED <<approval, events, opened, submission, ledger, linked, client, review,
                 sweep, disabled, ran>>

(* It refuses, raises or ends.                                             *)
BrokerFails(b) ==
  /\ ~At(b, "idle")
  /\ broker' = [broker EXCEPT ![b] = Away]
  /\ UNCHANGED <<approval, events, opened, records, client, review, sweep, disabled, ran>>
-----------------------------------------------------------------------------
ClientStep(c) ==
  \/ TurnDown(c) \/ Open(c) \/ Link(c) \/ ClientFails(c)
  \/ \E s \in Submissions : Reserve(c, s)
  \/ \E o \in Operations : Request(c, o)

ReviewStep(v) ==
  \/ \E i \in Items, d \in Decisions : Review(v, i, d)
  \/ \E e \in Evidence : Record(v, e)
  \/ Follow(v) \/ ReviewFails(v)

SweepStep(p) ==
  \/ \E S \in SUBSET Items : Snapshot(p, S)
  \/ \E i \in Items : Decide(p, i)
  \/ Route(p) \/ SweepFails(p)

BrokerStep(b) ==
  \/ \E o \in Operations : Start(b, o)
  \/ Load(b) \/ Run(b) \/ Close(b) \/ BrokerFails(b)

Next ==
  \/ \E c \in Clients : ClientStep(c)
  \/ \E i \in Items : Ask(i)
  \/ \E v \in Reviewers : ReviewStep(v)
  \/ \E p \in Processors : SweepStep(p)
  \/ \E b \in Brokers : BrokerStep(b)
  \/ \E on \in BOOLEAN : SetSwitch(on)

Spec == Init /\ [][Next]_vars
-----------------------------------------------------------------------------
(* "The submission row is reserved before listener/approval side effects,  *)
(* preventing two concurrent retries from creating duplicate approval      *)
(* requests" (docs/PET_RELEASE_PIPELINE_HANDOFF.md).                       *)
OneApprovalEach == \A s \in Submissions : opened[s] <= 1

(* "Every diagnostic requires a Jayla approval record"                     *)
(* (docs/SSH_BROKER_SECURITY_RUNBOOK.md): what ran on a target was         *)
(* approved by an operator, never by the processor alone.                  *)
RunsWereApproved == \A o \in ran : "approved" \in events[o]

(* A candidate is approved or deployed only if its evidence was complete   *)
(* and an operator decided so, also where a client died or a retry came in.*)
PassedWasReviewed ==
  \A s \in Submissions : submission[s] \in {"approved", "deployed"} =>
    s \notin Incomplete /\ submission[s] \in events[s]

(* An operation that is shown as completed ran on its machine, or an       *)
(* operator recorded it as deployed.                                       *)
CompletedWasDone ==
  \A o \in Operations :
    operation[o] = "completed" => o \in ran \/ "deployed" \in events[o]
=============================================================================
