--------------------------- MODULE ApprovalProofs ---------------------------
(***************************************************************************)
(* Proofs about ApprovalFlow, for any numbers of candidates, operations,   *)
(* clients, reviewers, processors and brokers.  The inductive invariant    *)
(* follows an operator's decision from the approval to wherever it has     *)
(* been read: a review in hand, a broker past its check, a status.         *)
(***************************************************************************)
EXTENDS ApprovalFlow, TLAPS

(* Who holds a fresh reservation is alone with it.                         *)
Reserved ==
  /\ \A s \in Submissions : opened[s] <= 1 /\ (submission[s] = "none" => opened[s] = 0)
  /\ \A c \in Clients : client[c].step = "recorded" /\ client[c].item \in Submissions =>
       opened[client[c].item] = 0 /\ submission[client[c].item] # "none"
  /\ \A c, k \in Clients :
       /\ client[c].step = "recorded" /\ client[k].step = "recorded"
       /\ client[c].item \in Submissions /\ client[c].item = client[k].item
       => c = k

(* No approval is ever asked for what is incomplete.                       *)
Complete ==
  /\ \A i \in Incomplete : approval[i] = "none"
  /\ Incomplete \cap linked = {}
  /\ \A p \in Processors : sweep[p].todo \cap Incomplete = {}
  /\ \A c \in Clients : client[c].step = "asked" => client[c].item \notin Incomplete

(* What reviewers have in hand, and what stands as approved where only     *)
(* operators approve, was decided by an operator.                          *)
Decided ==
  /\ \A v \in Reviewers :
       review[v].step = "reviewed" => review[v].decision \in events[review[v].item]
  /\ \A i \in Items : HighImpact(i) /\ approval[i] = "approved" => "approved" \in events[i]
  /\ PassedWasReviewed

(* What brokers hold was approved, and what they say has completed has run.*)
Executed ==
  /\ RunsWereApproved
  /\ CompletedWasDone
  /\ \A b \in Brokers :
       /\ broker[b].step \in {"cleared", "completed", "failed"}
            => "approved" \in events[broker[b].item]
       /\ broker[b].step = "completed" => broker[b].item \in ran

IInv == TypeOK /\ Reserved /\ Complete /\ Decided /\ Executed

USE ApprovalAssumption
-----------------------------------------------------------------------------
LEMMA InitIInv == Init => IInv
<1> SUFFICES ASSUME Init
             PROVE  IInv
  OBVIOUS
<1> USE DEF Init, Away, NoReview, NoSweep
<1>1. TypeOK
  BY DEF TypeOK, Decisions
<1>2. Reserved /\ Complete /\ Decided /\ Executed
  BY DEF Reserved, Complete, Decided, Executed, PassedWasReviewed, RunsWereApproved,
         CompletedWasDone, Items
<1> QED
  BY <1>1, <1>2 DEF IInv

(* The processor never approves what is of high impact, nor completes.     *)
LEMMA RulingFacts ==
  \A i \in Items : /\ Ruling(i) \in {"approved", "needs_changes"}
                   /\ HighImpact(i) => Ruling(i) # "approved"
  BY DEF Ruling

LEMMA StatusFacts ==
  \A d \in Decisions :
    /\ OperationStatus(d) \in {"queued", "needs_changes", "rejected", "completed"}
    /\ OperationStatus(d) = "completed" => d = "deployed"
    /\ SubmissionStatus(d) \in {"needs_evidence", "approved", "rejected", "deployed"}
    /\ SubmissionStatus(d) \in {"approved", "deployed"} => SubmissionStatus(d) = d
  BY DEF OperationStatus, SubmissionStatus, Decisions

(* A client that moves leaves the others where they are.                   *)
ClientsOK ==
  /\ client \in [Clients ->
       [step : {"idle", "recorded", "asked"}, item : Items \cup {None}]]
  /\ \A c \in Clients : client[c].step # "idle" => client[c].item \in Submissions \cup Operations

LEMMA ClientMoves ==
  ASSUME TypeOK, NEW c \in Clients,
         NEW s \in {"idle", "recorded", "asked"}, NEW i \in Items \cup {None},
         s # "idle" => i \in Submissions \cup Operations,
         client' = [client EXCEPT ![c] = [step |-> s, item |-> i]]
  PROVE  /\ ClientsOK'
         /\ client'[c].step = s /\ client'[c].item = i
         /\ \A k \in Clients \ {c} : client'[k] = client[k]
<1>1. /\ client \in [Clients ->
           [step : {"idle", "recorded", "asked"}, item : Items \cup {None}]]
      /\ \A k \in Clients : client[k].step # "idle" =>
           client[k].item \in Submissions \cup Operations
  BY DEF TypeOK
<1>2. client'[c] = [step |-> s, item |-> i] /\ \A k \in Clients \ {c} : client'[k] = client[k]
  BY <1>1
<1>3. client' \in [Clients ->
        [step : {"idle", "recorded", "asked"}, item : Items \cup {None}]]
  BY <1>1
<1> QED
  BY <1>1, <1>2, <1>3 DEF ClientsOK

LEMMA ClientLeaves ==
  ASSUME TypeOK, NEW c \in Clients, Leave(c)
  PROVE  /\ ClientsOK' /\ client'[c].step = "idle"
         /\ \A k \in Clients \ {c} : client'[k] = client[k]
  BY ClientMoves DEF Leave, Away

LEMMA ClientGoes ==
  ASSUME TypeOK, NEW c \in Clients, NEW s \in {"recorded", "asked"},
         NEW i \in Submissions \cup Operations, Goto(c, s, i)
  PROVE  /\ ClientsOK'
         /\ client'[c].step = s /\ client'[c].item = i
         /\ \A k \in Clients \ {c} : client'[k] = client[k]
  BY ClientMoves DEF Goto, Items

(* A broker that moves leaves the others where they are.                   *)
BrokersOK ==
  /\ broker \in [Brokers ->
       [step : {"idle", "enabled", "cleared", "completed", "failed"},
        item : Operations \cup {None}]]
  /\ \A b \in Brokers : broker[b].step # "idle" => broker[b].item \in Operations

LEMMA BrokerMoves ==
  ASSUME TypeOK, NEW b \in Brokers,
         NEW s \in {"idle", "enabled", "cleared", "completed", "failed"},
         NEW o \in Operations \cup {None},
         s # "idle" => o \in Operations,
         broker' = [broker EXCEPT ![b] = [step |-> s, item |-> o]]
  PROVE  /\ BrokersOK'
         /\ broker'[b].step = s /\ broker'[b].item = o
         /\ \A k \in Brokers \ {b} : broker'[k] = broker[k]
<1>1. BrokersOK
  BY DEF TypeOK, BrokersOK
<1>2. broker'[b] = [step |-> s, item |-> o] /\ \A k \in Brokers \ {b} : broker'[k] = broker[k]
  BY <1>1 DEF BrokersOK
<1>3. broker' \in [Brokers ->
        [step : {"idle", "enabled", "cleared", "completed", "failed"},
         item : Operations \cup {None}]]
  BY <1>1 DEF BrokersOK
<1> QED
  BY <1>1, <1>2, <1>3 DEF BrokersOK

LEMMA BrokerGoesOn ==
  ASSUME TypeOK, NEW b \in Brokers, NEW s \in {"cleared", "completed", "failed"},
         ~At(b, "idle"), Move(b, s)
  PROVE  /\ BrokersOK'
         /\ broker'[b].step = s /\ broker'[b].item = broker[b].item
         /\ \A k \in Brokers \ {b} : broker'[k] = broker[k]
<1>1. BrokersOK
  BY DEF TypeOK, BrokersOK
<1>2. /\ broker'[b] = [step |-> s, item |-> broker[b].item]
      /\ \A k \in Brokers \ {b} : broker'[k] = broker[k]
  BY <1>1 DEF BrokersOK, Move
<1>3. broker[b].item \in Operations
  BY <1>1 DEF BrokersOK, At
<1>4. broker' = [broker EXCEPT ![b] = [step |-> s, item |-> broker[b].item]]
  <2>1. broker[b] \in [step : {"idle", "enabled", "cleared", "completed", "failed"},
                       item : Operations \cup {None}]
    BY <1>1 DEF BrokersOK
  <2>2. [broker[b] EXCEPT !.step = s] = [step |-> s, item |-> broker[b].item]
    BY <2>1
  <2> QED
    BY <2>2 DEF Move
<1> QED
  BY <1>3, <1>4, BrokerMoves

(* The steps of a client.                                                  *)
LEMMA ClientInv ==
  ASSUME IInv, NEW c \in Clients, ClientStep(c)
  PROVE  IInv'
<1> USE DEF IInv, records
<1>1. ASSUME NEW s \in Submissions, Reserve(c, s)
      PROVE  IInv'
  <2> USE <1>1 DEF Reserve
  <2>1. /\ ClientsOK' /\ client'[c].step = "recorded" /\ client'[c].item = s
        /\ \A k \in Clients \ {c} : client'[k] = client[k]
    BY ClientGoes
  <2>2. TypeOK'
    BY <2>1 DEF TypeOK, ClientsOK
  <2>3. submission'[s] = "processing" /\ \A r \in Submissions \ {s} : submission'[r] = submission[r]
    BY DEF TypeOK
  <2>4. \A k \in Clients \ {c} : client[k].step = "recorded" => client[k].item # s
    BY DEF Reserved
  <2>5. Reserved'
    BY <2>1, <2>3, <2>4 DEF Reserved
  <2>6. PassedWasReviewed'
    BY <2>3 DEF Decided, PassedWasReviewed
  <2>7. Complete' /\ Decided' /\ Executed'
    BY <2>1, <2>6 DEF Complete, Decided, Executed, RunsWereApproved, CompletedWasDone, HighImpact
  <2> QED
    BY <2>2, <2>5, <2>7
<1>2. ASSUME NEW o \in Operations, Request(c, o)
      PROVE  IInv'
  <2> USE <1>2 DEF Request
  <2>1. /\ ClientsOK'
        /\ \A k \in Clients : client'[k] = client[k] \/
             (client'[k].step = "recorded" /\ client'[k].item = o)
    <3>1. CASE NeedsApproval(o)
      BY <3>1, ClientGoes
    <3>2. CASE ~NeedsApproval(o)
      BY <3>2 DEF TypeOK, ClientsOK
    <3> QED
      BY <3>1, <3>2
  <2>2. /\ \A q \in Operations \ {o} : operation'[q] = operation[q]
        /\ operation'[o] \in {"pending_approval", "queued"}
    BY DEF TypeOK
  <2>3. TypeOK'
    <3>1. operation' \in [Operations -> {"none", "pending_approval", "blocked", "queued",
            "needs_changes", "rejected", "completed", "failed"}]
      BY DEF TypeOK
    <3> QED
      BY <2>1, <3>1 DEF TypeOK, ClientsOK
  <2>4. Reserved'
    BY <2>1 DEF Reserved
  <2>5. CompletedWasDone'
    BY <2>2 DEF Executed, CompletedWasDone
  <2>6. Complete' /\ Decided' /\ Executed'
    BY <2>1, <2>5 DEF Complete, Decided, Executed, PassedWasReviewed, RunsWereApproved, HighImpact
  <2> QED
    BY <2>3, <2>4, <2>6
<1>3. CASE TurnDown(c)
  <2> DEFINE i == client[c].item
  <2> USE <1>3 DEF TurnDown
  <2>1. /\ ClientsOK' /\ client'[c].step = "idle"
        /\ \A k \in Clients \ {c} : client'[k] = client[k]
    BY ClientLeaves
  <2>2. /\ \A s \in Submissions : submission'[s] = submission[s] \/
             (submission'[s] = "needs_evidence" /\ s = i)
        /\ submission' \in [Submissions -> {"none", "processing", "needs_evidence",
             "pending_brain_review", "approved", "rejected", "deployed"}]
    BY DEF TypeOK
  <2>3. /\ \A o \in Operations : operation'[o] = operation[o] \/ operation'[o] = "blocked"
        /\ operation' \in [Operations -> {"none", "pending_approval", "blocked", "queued",
             "needs_changes", "rejected", "completed", "failed"}]
    BY DEF TypeOK
  <2>4. TypeOK'
    BY <2>1, <2>2, <2>3 DEF TypeOK, ClientsOK
  <2>5. \A s \in Submissions : submission'[s] = "none" => submission[s] = "none"
    BY <2>2
  <2>6. \A k \in Clients : client'[k].step = "recorded" => client'[k] = client[k]
    BY <2>1
  <2>7. Reserved'
    BY <2>2, <2>5, <2>6 DEF Reserved
  <2>8. PassedWasReviewed' /\ CompletedWasDone'
    BY <2>2, <2>3 DEF Decided, PassedWasReviewed, Executed, CompletedWasDone
  <2>9. Complete' /\ Decided' /\ Executed'
    BY <2>1, <2>8 DEF Complete, Decided, Executed, RunsWereApproved, HighImpact
  <2> QED
    BY <2>4, <2>7, <2>9
<1>4. CASE Open(c)
  <2> DEFINE i == client[c].item
  <2> USE <1>4 DEF Open
  <2>1. i \in Submissions \cup Operations /\ i \in Items
    BY DEF TypeOK, Items
  <2>2. /\ \A j \in Items \ {i} : approval'[j] = approval[j]
        /\ approval'[i] = "pending"
        /\ \A s \in Submissions \ {i} : opened'[s] = opened[s]
        /\ i \in Submissions => opened[i] = 0 /\ opened'[i] = 1
    BY <2>1 DEF TypeOK, Reserved
  <2>3. /\ ClientsOK' /\ client'[c].step = "asked" /\ client'[c].item = i
        /\ \A k \in Clients \ {c} : client'[k] = client[k]
    BY <2>1, ClientGoes
  <2>4. TypeOK'
    BY <2>1, <2>3 DEF TypeOK, ClientsOK
  <2>5. \A k \in Clients \ {c} :
          client[k].step = "recorded" => client[k].item # i \/ i \notin Submissions
    BY DEF Reserved
  <2>6. Reserved'
    BY <2>1, <2>2, <2>3, <2>5 DEF Reserved
  <2>7. Complete'
    BY <2>1, <2>2, <2>3 DEF Complete, Items
  <2>8. Decided' /\ Executed'
    BY <2>2 DEF Decided, Executed, PassedWasReviewed, RunsWereApproved, CompletedWasDone,
                HighImpact
  <2> QED
    BY <2>4, <2>6, <2>7, <2>8
<1>5. CASE Link(c)
  <2> DEFINE i == client[c].item
  <2> USE <1>5 DEF Link
  <2>1. /\ ClientsOK' /\ client'[c].step = "idle"
        /\ \A k \in Clients \ {c} : client'[k] = client[k]
    BY ClientLeaves
  <2>2. /\ \A s \in Submissions : submission'[s] = submission[s] \/
             (submission'[s] = "pending_brain_review" /\ submission[s] = "processing")
        /\ submission' \in [Submissions -> {"none", "processing", "needs_evidence",
             "pending_brain_review", "approved", "rejected", "deployed"}]
    <3>1. submission \in [Submissions -> {"none", "processing", "needs_evidence",
            "pending_brain_review", "approved", "rejected", "deployed"}]
      BY DEF TypeOK
    <3>2. CASE i \in Submissions /\ submission[i] = "processing"
               /\ submission' = [submission EXCEPT ![i] = "pending_brain_review"]
      BY <3>1, <3>2
    <3>3. CASE UNCHANGED submission
      BY <3>1, <3>3
    <3> QED
      BY <3>2, <3>3
  <2>3. i \in Submissions \cup Operations /\ i \notin Incomplete
    BY DEF TypeOK, Complete
  <2>4. TypeOK'
    BY <2>1, <2>2, <2>3 DEF TypeOK, ClientsOK
  <2>5. \A k \in Clients : client'[k].step = "recorded" => client'[k] = client[k]
    BY <2>1
  <2>6. Reserved'
    BY <2>2, <2>5 DEF Reserved
  <2>7. Complete'
    BY <2>1, <2>3 DEF Complete
  <2>8. PassedWasReviewed'
    BY <2>2 DEF Decided, PassedWasReviewed
  <2>9. Decided' /\ Executed'
    BY <2>8 DEF Decided, Executed, RunsWereApproved, CompletedWasDone, HighImpact
  <2> QED
    BY <2>4, <2>6, <2>7, <2>9
<1>6. CASE ClientFails(c)
  <2> USE <1>6 DEF ClientFails
  <2>1. /\ ClientsOK' /\ client'[c].step = "idle"
        /\ \A k \in Clients \ {c} : client'[k] = client[k]
    BY ClientLeaves
  <2>2. TypeOK'
    BY <2>1 DEF TypeOK, ClientsOK
  <2>3. Reserved' /\ Complete' /\ Decided' /\ Executed'
    BY <2>1 DEF Reserved, Complete, Decided, Executed, PassedWasReviewed, RunsWereApproved,
                CompletedWasDone, HighImpact
  <2> QED
    BY <2>2, <2>3
<1> QED
  BY <1>1, <1>2, <1>3, <1>4, <1>5, <1>6 DEF ClientStep

(* The steps of a review.                                                  *)
LEMMA ReviewInv ==
  ASSUME IInv, NEW v \in Reviewers, ReviewStep(v)
  PROVE  IInv'
<1> USE DEF IInv, NoReview, records
<1>1. ASSUME NEW i \in Items, NEW d \in Decisions, Review(v, i, d)
      PROVE  IInv'
  <2> USE <1>1 DEF Review
  <2>1. TypeOK'
    BY DEF TypeOK, Decisions
  <2>2. /\ \A j \in Items : events[j] \subseteq events'[j]
        /\ \A j \in Items \ {i} : approval'[j] = approval[j]
        /\ approval'[i] = d /\ d \in events'[i]
    BY DEF TypeOK
  <2>3. \A w \in Reviewers : review'[w] = review[w]
          \/ (review'[w].step = "reviewed" => review'[w].item = i /\ review'[w].decision = d)
    BY DEF TypeOK
  <2>4. Reserved'
    BY DEF Reserved
  <2>5. Complete'
    BY <2>2 DEF Complete, Items
  <2>6. Decided'
    <3>1. \A w \in Reviewers :
            review'[w].step = "reviewed" => review'[w].decision \in events'[review'[w].item]
      <4> SUFFICES ASSUME NEW w \in Reviewers, review'[w].step = "reviewed"
                   PROVE  review'[w].decision \in events'[review'[w].item]
        OBVIOUS
      <4>1. CASE review'[w] = review[w]
        <5>1. review[w].item \in Items \cup {None}
          BY DEF TypeOK
        <5>2. review[w].decision \in events[review[w].item]
          BY <4>1 DEF Decided
        <5>3. review[w].item \in Items => events[review[w].item] \subseteq events'[review[w].item]
          BY <2>2
        <5>4. review[w].item = None => events'[review[w].item] = events[review[w].item]
          BY DEF TypeOK
        <5> QED
          BY <4>1, <5>1, <5>2, <5>3, <5>4
      <4> QED
        BY <4>1, <2>2, <2>3
    <3>2. PassedWasReviewed'
      BY <2>2 DEF Decided, PassedWasReviewed, Items
    <3> QED
      BY <2>2, <3>1, <3>2 DEF Decided, HighImpact
  <2>7. Executed'
    BY <2>2 DEF TypeOK, Executed, RunsWereApproved, CompletedWasDone, Items
  <2> QED
    BY <2>1, <2>4, <2>5, <2>6, <2>7
<1>2. ASSUME NEW e \in Evidence, Record(v, e)
      PROVE  IInv'
  <2> DEFINE s == review[v].item
  <2> USE <1>2 DEF Record
  <2>1. /\ s \in Submissions /\ review[v].decision \in Decisions
        /\ review[v].decision \in events[s]
    BY DEF TypeOK, Decided
  <2>2. TypeOK'
    <3>1. /\ submission' \in [Submissions -> {"none", "processing", "needs_evidence",
               "pending_brain_review", "approved", "rejected", "deployed"}]
          /\ ledger' \in [Submissions -> SUBSET (Decisions \X Evidence)]
      <4>1. /\ submission \in [Submissions -> {"none", "processing", "needs_evidence",
                 "pending_brain_review", "approved", "rejected", "deployed"}]
            /\ ledger \in [Submissions -> SUBSET (Decisions \X Evidence)]
            /\ <<review[v].decision, e>> \in Decisions \X Evidence
        BY <2>1 DEF TypeOK
      <4>2. SubmissionStatus(review[v].decision)
              \in {"needs_evidence", "approved", "rejected", "deployed"}
        BY <2>1, StatusFacts
      <4>3. CASE UNCHANGED <<ledger, submission>>
        BY <4>1, <4>3
      <4>4. CASE ~UNCHANGED <<ledger, submission>>
        <5>1. /\ ledger' = [ledger EXCEPT ![s] = @ \cup {<<review[v].decision, e>>}]
              /\ submission' = [submission EXCEPT ![s] = SubmissionStatus(review[v].decision)]
          BY <4>4
        <5>2. ledger[s] \cup {<<review[v].decision, e>>} \in SUBSET (Decisions \X Evidence)
          BY <4>1, <2>1
        <5> QED
          BY <4>1, <4>2, <5>1, <5>2
      <4> QED
        BY <4>3, <4>4
    <3>2. review' \in [Reviewers ->
            [step : {"idle", "reviewed"}, item : Items \cup {None}, decision : Decisions]]
      BY DEF TypeOK, Decisions
    <3> QED
      BY <3>1, <3>2 DEF TypeOK
  <2>3. \A r \in Submissions :
          \/ submission'[r] = submission[r]
          \/ /\ r = s /\ r \in linked /\ submission'[r] # "none"
             /\ submission'[r] \in {"approved", "deployed"} => submission'[r] \in events[r]
    BY <2>1, StatusFacts DEF TypeOK
  <2>4. Reserved'
    BY <2>3 DEF TypeOK, Reserved
  <2>5. Complete'
    BY DEF Complete
  <2>6. Decided'
    <3>1. PassedWasReviewed'
      BY <2>3 DEF Decided, PassedWasReviewed, Complete
    <3> QED
      BY <3>1 DEF TypeOK, Decided, HighImpact
  <2>7. Executed'
    BY DEF Executed, RunsWereApproved, CompletedWasDone
  <2> QED
    BY <2>2, <2>4, <2>5, <2>6, <2>7
<1>3. CASE Follow(v)
  <2> USE <1>3 DEF Follow, Update
  <2>1. /\ review[v].item \in Operations /\ review[v].decision \in Decisions
        /\ review[v].decision \in events[review[v].item]
    BY DEF TypeOK, Decided
  <2>2. TypeOK'
    BY <2>1, StatusFacts DEF TypeOK, Decisions
  <2>3. CompletedWasDone'
    BY <2>1, StatusFacts DEF TypeOK, Executed, CompletedWasDone
  <2>4. Reserved' /\ Complete' /\ Executed'
    BY <2>3 DEF Reserved, Complete, Executed, RunsWereApproved
  <2>5. Decided'
    BY DEF TypeOK, Decided, HighImpact, PassedWasReviewed
  <2> QED
    BY <2>2, <2>4, <2>5
<1>4. CASE ReviewFails(v)
  <2> USE <1>4 DEF ReviewFails
  <2>1. TypeOK'
    BY DEF TypeOK, Decisions
  <2>2. Reserved' /\ Complete' /\ Executed'
    BY DEF Reserved, Complete, Executed, RunsWereApproved, CompletedWasDone
  <2>3. Decided'
    BY DEF TypeOK, Decided, HighImpact, PassedWasReviewed
  <2> QED
    BY <2>1, <2>2, <2>3
<1> QED
  BY <1>1, <1>2, <1>3, <1>4 DEF ReviewStep

(* The steps of the processor.                                             *)
LEMMA SweepInv ==
  ASSUME IInv, NEW p \in Processors, SweepStep(p)
  PROVE  IInv'
<1> USE DEF IInv, NoSweep, records
<1>1. ASSUME NEW S \in SUBSET Items, Snapshot(p, S)
      PROVE  IInv'
  <2> USE <1>1 DEF Snapshot
  <2>1. TypeOK'
    BY DEF TypeOK
  <2>2. Complete'
    BY DEF TypeOK, Complete
  <2>3. Reserved' /\ Decided' /\ Executed'
    BY DEF Reserved, Decided, HighImpact, PassedWasReviewed, Executed, RunsWereApproved,
           CompletedWasDone
  <2> QED
    BY <2>1, <2>2, <2>3
<1>2. ASSUME NEW i \in Items, Decide(p, i)
      PROVE  IInv'
  <2> USE <1>2 DEF Decide
  <2>1. /\ \A j \in Items \ {i} : approval'[j] = approval[j]
        /\ approval'[i] \in {"approved", "needs_changes"}
        /\ HighImpact(i) => approval'[i] # "approved"
        /\ i \notin Incomplete
    BY RulingFacts DEF TypeOK, Complete
  <2>2. TypeOK'
    BY RulingFacts DEF TypeOK, Decisions
  <2>3. Complete'
    BY <2>1 DEF TypeOK, Complete, Items
  <2>4. Decided'
    BY <2>1 DEF Decided, HighImpact, PassedWasReviewed
  <2>5. Reserved' /\ Executed'
    BY DEF Reserved, Executed, RunsWereApproved, CompletedWasDone
  <2> QED
    BY <2>2, <2>3, <2>4, <2>5
<1>3. CASE Route(p)
  <2> DEFINE o == sweep[p].item
  <2> USE <1>3 DEF Route, Update
  <2>1. /\ o \in Items /\ Ruling(o) \in Decisions
        /\ OperationStatus(Ruling(o)) \in {"queued", "needs_changes"}
    BY RulingFacts DEF TypeOK, OperationStatus, Decisions
  <2> HIDE DEF o
  <2>2. operation' = [operation EXCEPT ![o] = OperationStatus(Ruling(o))]
    BY DEF o
  <2>3. TypeOK'
    <3>1. operation' \in [Operations -> {"none", "pending_approval", "blocked", "queued",
            "needs_changes", "rejected", "completed", "failed"}]
      BY <2>1, <2>2 DEF TypeOK
    <3>2. sweep' \in [Processors -> [todo : SUBSET Items, item : Items \cup {None}]]
      BY DEF TypeOK
    <3> QED
      BY <3>1, <3>2 DEF TypeOK
  <2>4. Complete'
    BY DEF TypeOK, Complete
  <2>5. CompletedWasDone'
    BY <2>1, <2>2 DEF TypeOK, Executed, CompletedWasDone
  <2>6. Reserved' /\ Decided' /\ Executed'
    BY <2>5 DEF Reserved, Decided, HighImpact, PassedWasReviewed, Executed, RunsWereApproved
  <2> QED
    BY <2>3, <2>4, <2>6
<1>4. CASE SweepFails(p)
  <2> USE <1>4 DEF SweepFails
  <2>1. TypeOK'
    <3>1. sweep' \in [Processors -> [todo : SUBSET Items, item : Items \cup {None}]]
      BY DEF TypeOK
    <3> QED
      BY <3>1 DEF TypeOK
  <2>2. Complete'
    BY DEF TypeOK, Complete
  <2>3. Reserved' /\ Decided' /\ Executed'
    BY DEF Reserved, Decided, HighImpact, PassedWasReviewed, Executed, RunsWereApproved,
           CompletedWasDone
  <2> QED
    BY <2>1, <2>2, <2>3
<1> QED
  BY <1>1, <1>2, <1>3, <1>4 DEF SweepStep

(* The steps of a broker.                                                  *)
LEMMA BrokerInv ==
  ASSUME IInv, NEW b \in Brokers, BrokerStep(b)
  PROVE  IInv'
<1> USE DEF IInv, records
<1> DEFINE o == broker[b].item
<1>1. ASSUME NEW q \in Operations, Start(b, q)
      PROVE  IInv'
  <2> USE <1>1 DEF Start
  <2>1. /\ BrokersOK' /\ broker'[b].step = "enabled"
        /\ \A k \in Brokers \ {b} : broker'[k] = broker[k]
    BY BrokerMoves
  <2>2. TypeOK'
    BY <2>1 DEF TypeOK, BrokersOK
  <2>3. Executed'
    BY <2>1 DEF Executed, RunsWereApproved, CompletedWasDone
  <2>4. Reserved' /\ Complete' /\ Decided'
    BY DEF Reserved, Complete, Decided, HighImpact, PassedWasReviewed
  <2> QED
    BY <2>2, <2>3, <2>4
<1>2. CASE Load(b)
  <2> USE <1>2 DEF Load
  <2>1. "approved" \in events[o]
    BY DEF Decided, HighImpact, Sensitive, Items
  <2>2. /\ BrokersOK' /\ broker'[b].step = "cleared" /\ broker'[b].item = o
        /\ \A k \in Brokers \ {b} : broker'[k] = broker[k]
    BY BrokerGoesOn DEF At
  <2>3. TypeOK'
    BY <2>2 DEF TypeOK, BrokersOK
  <2>4. Executed'
    BY <2>1, <2>2 DEF Executed, RunsWereApproved, CompletedWasDone
  <2>5. Reserved' /\ Complete' /\ Decided'
    BY DEF Reserved, Complete, Decided, HighImpact, PassedWasReviewed
  <2> QED
    BY <2>3, <2>4, <2>5
<1>3. CASE Run(b)
  <2> USE <1>3 DEF Run
  <2>1. o \in Operations /\ "approved" \in events[o]
    BY DEF TypeOK, Executed, At
  <2>2. PICK s \in {"completed", "failed"} :
          Move(b, s) /\ ran \subseteq ran' /\ ran' \subseteq ran \cup {o}
            /\ (s = "completed" => o \in ran')
    OBVIOUS
  <2>3. /\ BrokersOK' /\ broker'[b].step = s /\ broker'[b].item = o
        /\ \A k \in Brokers \ {b} : broker'[k] = broker[k]
    BY <2>2, BrokerGoesOn DEF At
  <2>4. TypeOK'
    BY <2>1, <2>2, <2>3 DEF TypeOK, BrokersOK
  <2>5. RunsWereApproved' /\ CompletedWasDone'
    BY <2>1, <2>2 DEF Executed, RunsWereApproved, CompletedWasDone
  <2>6. Executed'
    BY <2>1, <2>2, <2>3, <2>5 DEF Executed
  <2>7. Reserved' /\ Complete' /\ Decided'
    BY DEF Reserved, Complete, Decided, HighImpact, PassedWasReviewed
  <2> QED
    BY <2>4, <2>6, <2>7
<1>4. CASE Close(b)
  <2> USE <1>4 DEF Close
  <2>1. /\ BrokersOK' /\ broker'[b].step = "idle"
        /\ \A k \in Brokers \ {b} : broker'[k] = broker[k]
    BY BrokerMoves DEF Away
  <2>2. o \in Operations /\ (broker[b].step = "completed" => o \in ran)
    BY DEF TypeOK, Executed
  <2>3. /\ operation' \in [Operations -> {"none", "pending_approval", "blocked", "queued",
             "needs_changes", "rejected", "completed", "failed"}]
        /\ \A q \in Operations \ {o} : operation'[q] = operation[q]
        /\ operation'[o] = broker[b].step
    BY <2>2 DEF TypeOK
  <2>4. TypeOK'
    BY <2>1, <2>3 DEF TypeOK, BrokersOK
  <2>5. CompletedWasDone'
    BY <2>2, <2>3 DEF Executed, CompletedWasDone
  <2>6. Executed'
    BY <2>1, <2>5 DEF Executed, RunsWereApproved
  <2>7. Reserved' /\ Complete' /\ Decided'
    BY DEF Reserved, Complete, Decided, HighImpact, PassedWasReviewed
  <2> QED
    BY <2>4, <2>6, <2>7
<1>5. CASE BrokerFails(b)
  <2> USE <1>5 DEF BrokerFails
  <2>1. /\ BrokersOK' /\ broker'[b].step = "idle"
        /\ \A k \in Brokers \ {b} : broker'[k] = broker[k]
    BY BrokerMoves DEF Away
  <2>2. TypeOK'
    BY <2>1 DEF TypeOK, BrokersOK
  <2>3. Executed'
    BY <2>1 DEF Executed, RunsWereApproved, CompletedWasDone
  <2>4. Reserved' /\ Complete' /\ Decided'
    BY DEF Reserved, Complete, Decided, HighImpact, PassedWasReviewed
  <2> QED
    BY <2>2, <2>3, <2>4
<1> QED
  BY <1>1, <1>2, <1>3, <1>4, <1>5 DEF BrokerStep

LEMMA NextIInv == IInv /\ [Next]_vars => IInv'
<1> SUFFICES ASSUME IInv, [Next]_vars
             PROVE  IInv'
  OBVIOUS
<1>1. ASSUME NEW i \in Items, Ask(i)
      PROVE  IInv'
  <2> USE <1>1 DEF Ask, IInv, records, desks
  <2>1. TypeOK'
    BY DEF TypeOK
  <2>2. Complete'
    BY DEF Complete, Items
  <2>3. Reserved' /\ Decided' /\ Executed'
    BY DEF TypeOK, Reserved, Decided, HighImpact, PassedWasReviewed, Executed,
           RunsWereApproved, CompletedWasDone
  <2> QED
    BY <2>1, <2>2, <2>3
<1>2. CASE UNCHANGED vars \/ \E on \in BOOLEAN : SetSwitch(on)
  BY <1>2
  DEF SetSwitch, vars, records, desks, IInv, TypeOK, Reserved, Complete, Decided, HighImpact,
      PassedWasReviewed, Executed, RunsWereApproved, CompletedWasDone
<1> QED
  BY <1>1, <1>2, ClientInv, ReviewInv, SweepInv, BrokerInv DEF Next

THEOREM Invariant == Spec => []IInv
  BY InitIInv, NextIInv, PTL DEF Spec
-----------------------------------------------------------------------------
(* Every reachable state of approvals and what hangs on them is well typed.*)
THEOREM TypeCorrect == Spec => []TypeOK
<1>1. IInv => TypeOK
  BY DEF IInv
<1> QED
  BY <1>1, Invariant, PTL

(* A submission key opens at most one approval, for any number of retries. *)
THEOREM RetriesShareOneApproval == Spec => []OneApprovalEach
<1>1. IInv => OneApprovalEach
  BY DEF IInv, Reserved, OneApprovalEach
<1> QED
  BY <1>1, Invariant, PTL

(* What ran on a target machine was approved by an operator.               *)
THEOREM OperatorsApprovedRuns == Spec => []RunsWereApproved
<1>1. IInv => RunsWereApproved
  BY DEF IInv, Executed
<1> QED
  BY <1>1, Invariant, PTL

(* What passed had complete evidence and an operator's decision.           *)
THEOREM PassedAfterReview == Spec => []PassedWasReviewed
<1>1. IInv => PassedWasReviewed
  BY DEF IInv, Decided
<1> QED
  BY <1>1, Invariant, PTL

(* What is shown as completed ran, or was recorded as deployed.            *)
THEOREM CompletedAfterRun == Spec => []CompletedWasDone
<1>1. IInv => CompletedWasDone
  BY DEF IInv, Executed
<1> QED
  BY <1>1, Invariant, PTL
=============================================================================
