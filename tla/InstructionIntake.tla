-------------------------- MODULE InstructionIntake --------------------------
(***************************************************************************)
(* How a machine takes in the messages the Brain speaks to it:             *)
(* brain_bus.py (the feed and its acknowledgement), the message loop of    *)
(* worker.py, the verification of signed instructions                      *)
(* (pet_instruction_protocol.py) and the replay evidence in the database   *)
(* (migration 011), with any number of worker processes on the machine.    *)
(*                                                                         *)
(* Each action is one transaction, or one step between two.  left[e] is    *)
(* expires_at - clock_timestamp() of an envelope, in ticks; a worker       *)
(* compares expires_at and issued_at with the clock of its host.           *)
(***************************************************************************)
EXTENDS Integers, FiniteSets

CONSTANTS
  Messages,    \* rows of speaker_messages, a number each: place in the feed
  Broadcast,   \* those addressed to all; nobody can acknowledge them
  OverAPI,     \* those that the device may acknowledge over the API itself
  Signed,      \* those that need a signature
  Envelopes,   \* signed instruction envelopes
  EnvelopeOf,  \* the envelope in the metadata of a signed message
  NonceOf,     \* the signer and nonce of an envelope
  Genuine,     \* envelopes well formed, signed by the Brain, for this machine
  Workers,     \* worker processes of the machine
  Window,      \* how many messages the feed returns
  Life,        \* expires_at - issued_at, at most maximum_ttl
  Skew,        \* future_skew of verify_instruction
  Offsets,     \* how far the hosts' clocks are ahead of the database's
  Retention,   \* p_retention of prune_pet_instruction_nonces
  None         \* no envelope, no message

Nonces == {NonceOf[e] : e \in Envelopes}

ASSUME IntakeAssumption ==
  /\ Messages \subseteq Nat
  /\ Broadcast \subseteq Messages /\ OverAPI \subseteq Messages \ Broadcast
  /\ Signed \subseteq Messages
  /\ EnvelopeOf \in [Signed -> Envelopes]
  /\ NonceOf \in [Envelopes -> Nonces]
  /\ Genuine \subseteq Envelopes
  /\ Window \in Nat \ {0}
  /\ {Life, Retention} \subseteq Nat \ {0}
  /\ Skew \in Nat
  /\ Offsets \subseteq Int
  /\ None \notin Envelopes \cup Messages

VARIABLES
  inbox,     \* speaker_messages.status: "open" is pending or delivered,
             \* "byHand" acknowledged over the API and not by a worker
  left,      \* envelope.expires_at - clock_timestamp()
  claims,    \* pet_instruction_nonces: the envelope that holds each nonce
  archive,   \* pet_instruction_nonce_archive
  taken,     \* history: how often an envelope was accepted
  receipts,  \* messages with an event speaker_message_received
  notices,   \* messages whose rejection was put before the Brain
  seat,      \* where each worker is in _consume_machine_messages
  calm       \* nothing fails any more: no process dies, no call raises

evidence == <<claims, archive>>
reports == <<receipts, notices>>
vars == <<inbox, left, evidence, taken, reports, seat, calm>>

Floor == -(Retention + 1)
Idle == [step |-> "idle", cur |-> None, todo |-> {}]

TypeOK ==
  /\ inbox \in [Messages -> {"absent", "open", "acknowledged", "byHand"}]
  /\ left \in [Envelopes -> Floor .. Life]
  /\ claims \in [Nonces -> Envelopes \cup {None}]
  /\ archive \in [Nonces -> Envelopes \cup {None}]
  /\ taken \in [Envelopes -> Nat]
  /\ receipts \subseteq Messages /\ notices \subseteq Messages
  /\ seat \in [Workers ->
       [step : {"idle", "loop", "checked", "accepted", "rejected", "received"},
        cur : Messages \cup {None}, todo : SUBSET Messages]]
  /\ calm \in BOOLEAN
  /\ \A w \in Workers :
       /\ seat[w].step = "idle" => seat[w].todo = {}
       /\ seat[w].step = "loop" => seat[w].todo # {}
       /\ seat[w].cur = None <=> seat[w].step \in {"idle", "loop"}

Init ==
  /\ inbox = [m \in Messages |-> "absent"]
  /\ left = [e \in Envelopes |-> Life]
  /\ claims = [n \in Nonces |-> None]
  /\ archive = [n \in Nonces |-> None]
  /\ taken = [e \in Envelopes |-> 0]
  /\ receipts = {} /\ notices = {}
  /\ seat = [w \in Workers |-> Idle]
  /\ calm = FALSE
-----------------------------------------------------------------------------
(* The Brain's side.                                                       *)

(* create_speaker_message, with an envelope that was just signed, or one   *)
(* that was sent before.                                                   *)
Speak(m) ==
  /\ inbox[m] = "absent"
  /\ inbox' = [inbox EXCEPT ![m] = "open"]
  /\ UNCHANGED <<left, evidence, taken, reports, seat, calm>>

Issued == {EnvelopeOf[m] : m \in {s \in Signed : inbox[s] # "absent"}}

(* POST /speaker/messages/{id}/ack, as the machine the message is for.     *)
AcknowledgeByHand(m) ==
  /\ inbox[m] = "open" /\ m \in OverAPI
  /\ inbox' = [inbox EXCEPT ![m] = "byHand"]
  /\ UNCHANGED <<left, evidence, taken, reports, seat, calm>>

(* Slip: what has outlived its retention is deleted, archived or not.      *)
PruneUnarchived(S) ==
  /\ \A n \in S : claims[n] # None /\ left[claims[n]] < -Retention
  /\ archive' = [n \in Nonces |->
                   IF n \in S /\ archive[n] = None THEN claims[n] ELSE archive[n]]
  /\ claims' = [n \in Nonces |-> IF n \in S THEN None ELSE claims[n]]
  /\ UNCHANGED <<inbox, left, taken, reports, seat, calm>>

(* prune_pet_instruction_nonces, up to its limit: a claim is deleted only  *)
(* if it went into the archive, where a nonce has room for one envelope.   *)
Prune(S) ==
  LET moved == {n \in S : archive[n] = None}
  IN  /\ \A n \in S : claims[n] # None /\ left[claims[n]] < -Retention
      /\ archive' = [n \in Nonces |-> IF n \in moved THEN claims[n] ELSE archive[n]]
      /\ claims' = [n \in Nonces |-> IF n \in moved THEN None ELSE claims[n]]
      /\ UNCHANGED <<inbox, left, taken, reports, seat, calm>>

Tick ==
  /\ left' = [e \in Envelopes |->
                IF e \in Issued /\ left[e] > Floor THEN left[e] - 1 ELSE left[e]]
  /\ left' # left
  /\ UNCHANGED <<inbox, evidence, taken, reports, seat, calm>>
-----------------------------------------------------------------------------
(* A worker process and the message it has come to.                        *)

At(w, s) == seat[w].step = s
Goto(w, s) == seat' = [seat EXCEPT ![w].step = s]
Current(w) == seat[w].cur
Looping(w) == [step |-> "loop", cur |-> None, todo |-> seat[w].todo]

(* Slip: the loop goes on when there is nothing left.                      *)
AdvanceBeyond(w) == seat' = [seat EXCEPT ![w] = Looping(w)]

(* On to the next message, if there is one.                                *)
Advance(w) ==
  seat' = [seat EXCEPT ![w] = IF seat[w].todo = {} THEN Idle ELSE Looping(w)]

(* speaker_feed, less what the worker passes over.                         *)
Feed ==
  LET open == {m \in Messages : inbox[m] = "open"}
  IN  {m \in open : Cardinality({k \in open : k < m}) < Window} \ Broadcast

Read(w) ==
  /\ At(w, "idle") /\ Feed # {}
  /\ seat' = [seat EXCEPT ![w] = [step |-> "loop", cur |-> None, todo |-> Feed]]
  /\ UNCHANGED <<inbox, left, evidence, taken, reports, calm>>

(* verify_instruction, up to the nonce: the times of the envelope against  *)
(* a clock that is o ahead of the database's.                              *)
Acceptable(e, o) ==
  /\ e \in Genuine
  /\ left[e] > o
  /\ Life - left[e] + o >= -Skew

Ruling(m, o) ==
  CASE m \notin Signed -> "accepted"
    [] m \in Signed /\ Acceptable(EnvelopeOf[m], o) -> "checked"
    [] OTHER -> "rejected"

Check(w, m, o) ==
  /\ At(w, "loop")
  /\ m \in seat[w].todo /\ \A k \in seat[w].todo : m <= k
  /\ seat' = [seat EXCEPT ![w] =
                [step |-> Ruling(m, o), cur |-> m, todo |-> seat[w].todo \ {m}]]
  /\ UNCHANGED <<inbox, left, evidence, taken, reports, calm>>

(* Slip: the database takes the worker's word for it that the envelope is  *)
(* not expired.                                                            *)
ClaimableUntimed(e) == claims[NonceOf[e]] = None

(* consume_pet_instruction_nonce: the nonce is free, the envelope not      *)
(* expired by the clock of the database.                                   *)
Claimable(e) == claims[NonceOf[e]] = None /\ left[e] > 0
ClaimFor(e) == claims' = [claims EXCEPT ![NonceOf[e]] = e]

(* Slip: what was accepted before is passed over without a word.            *)
ConsumeQuietly(w) ==
  LET e == EnvelopeOf[Current(w)]
  IN  /\ At(w, "checked")
      /\ IF Claimable(e)
         THEN ClaimFor(e) /\ Goto(w, "accepted") /\ taken' = [taken EXCEPT ![e] = @ + 1]
         ELSE Advance(w) /\ UNCHANGED <<claims, taken>>
      /\ UNCHANGED <<inbox, left, archive, reports, calm>>

(* verify_instruction from the nonce on; the claim commits on its own.     *)
Consume(w) ==
  LET e == EnvelopeOf[Current(w)]
  IN  /\ At(w, "checked")
      /\ IF Claimable(e)
         THEN ClaimFor(e) /\ Goto(w, "accepted") /\ taken' = [taken EXCEPT ![e] = @ + 1]
         ELSE Goto(w, "rejected") /\ UNCHANGED <<claims, taken>>
      /\ UNCHANGED <<inbox, left, archive, reports, calm>>

(* The call raises, before or after its commit: replay_store_unavailable.  *)
ConsumeBroken(w) ==
  LET e == EnvelopeOf[Current(w)]
  IN  /\ ~calm /\ At(w, "checked")
      /\ \/ Claimable(e) /\ ClaimFor(e)
         \/ UNCHANGED claims
      /\ Goto(w, "rejected")
      /\ UNCHANGED <<inbox, left, archive, taken, reports, calm>>

(* The event speaker_message_received.                                     *)
Receive(w) ==
  /\ At(w, "accepted")
  /\ receipts' = receipts \cup {Current(w)}
  /\ Goto(w, "received")
  /\ UNCHANGED <<inbox, left, evidence, taken, notices, calm>>

(* acknowledge_speaker_message, also of a message acknowledged meanwhile.  *)
Acknowledge(w) ==
  /\ At(w, "received")
  /\ inbox' = [inbox EXCEPT ![Current(w)] = "acknowledged"]
  /\ Advance(w)
  /\ UNCHANGED <<left, evidence, taken, reports, calm>>

(* Slip: a rejected message is acknowledged, so that it does not come back.*)
RejectAndAcknowledge(w) ==
  /\ At(w, "rejected")
  /\ notices' = notices \cup {Current(w)}
  /\ inbox' = [inbox EXCEPT ![Current(w)] = "acknowledged"]
  /\ Advance(w)
  /\ UNCHANGED <<left, evidence, taken, receipts, calm>>

(* _report_instruction_rejection: the event, and apply_brain_logic's       *)
(* message to the Brain.  The message itself stays open.                   *)
Reject(w) ==
  /\ At(w, "rejected")
  /\ notices' = notices \cup {Current(w)}
  /\ Advance(w)
  /\ UNCHANGED <<inbox, left, evidence, taken, receipts, calm>>

(* A call raises and is logged: the message is passed over.                *)
PassOver(w) ==
  /\ ~calm
  /\ seat[w].step \in {"accepted", "received", "rejected"}
  /\ Advance(w)
  /\ UNCHANGED <<inbox, left, evidence, taken, reports, calm>>

Die(w) ==
  /\ ~calm
  /\ ~At(w, "idle")
  /\ seat' = [seat EXCEPT ![w] = Idle]
  /\ UNCHANGED <<inbox, left, evidence, taken, reports, calm>>

CalmDown ==
  /\ ~calm
  /\ calm' = TRUE
  /\ UNCHANGED <<inbox, left, evidence, taken, reports, seat>>

BrainStep ==
  \/ \E m \in Messages : Speak(m) \/ AcknowledgeByHand(m)
  \/ \E S \in SUBSET Nonces : Prune(S)
  \/ Tick

Serve(w) ==
  \/ Read(w) \/ Consume(w) \/ Receive(w) \/ Acknowledge(w) \/ Reject(w)
  \/ \E m \in Messages, o \in Offsets : Check(w, m, o)
Interrupt(w) == ConsumeBroken(w) \/ PassOver(w) \/ Die(w)

Next == BrainStep \/ CalmDown \/ \E w \in Workers : Serve(w) \/ Interrupt(w)

Spec == Init /\ [][Next]_vars

(* Workers poll for ever and go on with what they have read; processes die *)
(* and calls to the database fail only so often.                           *)
Fairness == WF_vars(CalmDown) /\ \A w \in Workers : WF_vars(Serve(w))

FairSpec == Spec /\ Fairness
-----------------------------------------------------------------------------
(* An instruction is accepted at most once, whatever workers crash, however*)
(* wrong the clocks of their hosts are and whatever is pruned (the nonce   *)
(* and the second look at the expiry in consume_pet_instruction_nonce).    *)
AcceptedOnce == \A e \in Envelopes : taken[e] <= 1

(* "Accepted worker listener receipts now bind ... the same verified-      *)
(* envelope SHA-256 stored with the replay claim", and pruning "archives   *)
(* exact evidence before deletion" (docs/PET_COMMAND_CENTER_AUDIT.md): a   *)
(* receipt's claim is never lost, even when a nonce is used again.         *)
EvidenceKept ==
  \A m \in receipts \cap Signed :
    LET e == EnvelopeOf[m] IN e \in {claims[NonceOf[e]], archive[NonceOf[e]]}

(* A worker acknowledges only what it has recorded a receipt for: what was *)
(* rejected stays in the feed ("Instruction was not acknowledged or        *)
(* executed", _report_instruction_rejection).                              *)
AcknowledgedWasReceived ==
  \A m \in Messages : inbox[m] = "acknowledged" => m \in receipts

(* Every message the feed can show is in the end acknowledged, or its      *)
(* rejection is put before the Brain; also an instruction whose nonce was  *)
(* consumed by a worker that died before it wrote a receipt.               *)
EveryMessageAnswered ==
  \A m \in Messages \ Broadcast :
    inbox[m] = "open" ~> inbox[m] # "open" \/ m \in notices
=============================================================================
