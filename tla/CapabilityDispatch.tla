------------------------- MODULE CapabilityDispatch -------------------------
(***************************************************************************)
(* Actions a PET may ask one machine to take (pet_machine_capabilities.py):*)
(* a request is recorded, approved if it has to be, signed and published   *)
(* once by the API (migration 018), and carried out by a worker process of *)
(* the machine (worker.py), which reports what happened in a receipt.      *)
(* Dispatchers and workers go step by step, each step one transaction or   *)
(* one stretch of code between two, and may fail between any two.          *)
(*                                                                         *)
(* Keys are taken to be registered and valid throughout.  An envelope is   *)
(* known by its nonce, a uuid4 that no two dispatches share.               *)
(***************************************************************************)
EXTENDS Integers, FiniteSets

CONSTANTS
  Requests,     \* rows of pet_machine_capability_requests
  Guarded,      \* those of a type that needs an approval
  Workers,      \* worker processes of the target machine
  Dispatchers,  \* API calls that dispatch
  Nonces,       \* bounds the number of dispatches signed
  SignedKeys,   \* the fields of an envelope its signature is taken over
  AddedKeys,    \* fields the published message has besides: idempotency_key
  Life,         \* ticks from issued_at to expires_at
  None          \* null

ASSUME DispatchAssumption ==
  /\ Guarded \subseteq Requests
  /\ None \notin Nonces /\ None \notin Requests
  /\ None \notin {"held", "completed", "failed"}
  /\ Life \in Nat \ {0}

VARIABLES
  client,      \* how far submit_capability_request has come
  approval,    \* approval_requests.status
  granted,     \* approved_at or deployed_at is set
  desk,        \* the envelope a dispatcher has signed and not published
  left,        \* expires_at - now() of an envelope; Life before it is signed
  intent,      \* the nonce in pet_machine_capability_dispatch_intents
  message,     \* the speaker message that carries the envelope
  used,        \* pet_machine_execution_nonces
  seat,        \* where each worker process is in _consume_machine_messages
  ran,         \* how often the handler was started for a request
  receipt      \* pet_machine_capability_receipts.status

asked  == <<client, approval, granted>>
issued == <<desk, left, intent>>
vars   == <<asked, issued, message, used, seat, ran, receipt>>

NoEnvelope == [req |-> None, nonce |-> None]
Envelope   == [req : Requests, nonce : Nonces]
Idle       == [step |-> "idle", req |-> None, verdict |-> None]
Steps      == {"taken", "checked", "refused", "verified", "cleared", "running",
               "reported", "recorded"}
Busy       == [step : Steps, req : Requests, verdict : {"held", "completed", "failed", None}]

TypeOK ==
  /\ client \in [Requests -> {"idle", "announced", "recorded", "gone"}]
  /\ approval \in [Requests -> {"none", "pending", "approved", "denied"}]
  /\ granted \in [Requests -> BOOLEAN]
  /\ desk \in [Dispatchers -> Envelope \cup {NoEnvelope}]
  /\ left \in [Nonces -> 0 .. Life]
  /\ intent \in [Requests -> Nonces \cup {None}]
  /\ message \in [Requests -> {"none", "pending", "acknowledged"}]
  /\ used \subseteq Nonces
  /\ seat \in [Workers -> Busy \cup {Idle}]
  /\ ran \in [Requests -> Nat]
  /\ receipt \in [Requests -> {"held", "completed", "failed", None}]

Init ==
  /\ client = [r \in Requests |-> "idle"]
  /\ approval = [r \in Requests |-> "none"]
  /\ granted = [r \in Requests |-> FALSE]
  /\ desk = [d \in Dispatchers |-> NoEnvelope]
  /\ left = [n \in Nonces |-> Life]
  /\ intent = [r \in Requests |-> None]
  /\ message = [r \in Requests |-> "none"]
  /\ used = {}
  /\ seat = [w \in Workers |-> Idle]
  /\ ran = [r \in Requests |-> 0]
  /\ receipt = [r \in Requests |-> None]
-----------------------------------------------------------------------------
(* submit_capability_request: the approval, if the type needs one, and the *)
(* messages that announce the request come before the request's own row.   *)

Announce(r) ==
  /\ client[r] = "idle"
  /\ client' = [client EXCEPT ![r] = "announced"]
  /\ approval' = [approval EXCEPT ![r] = IF r \in Guarded THEN "pending" ELSE "none"]
  /\ UNCHANGED <<granted, issued, message, used, seat, ran, receipt>>

Record(r) ==
  /\ client[r] = "announced"
  /\ client' = [client EXCEPT ![r] = "recorded"]
  /\ UNCHANGED <<approval, granted, issued, message, used, seat, ran, receipt>>

SubmitFails(r) ==
  /\ client[r] = "announced"
  /\ client' = [client EXCEPT ![r] = "gone"]
  /\ UNCHANGED <<approval, granted, issued, message, used, seat, ran, receipt>>

(* review_approval_request: any decision, whatever was decided before.     *)
(* "approved" stands for deployed too, "denied" for the other decisions.   *)
Review(r, decision) ==
  /\ approval[r] # "none"
  /\ approval' = [approval EXCEPT ![r] = decision]
  /\ granted' = [granted EXCEPT ![r] = granted[r] \/ decision = "approved"]
  /\ UNCHANGED <<client, issued, message, used, seat, ran, receipt>>
-----------------------------------------------------------------------------
(* dispatch_approved_request.                                              *)

(* Nonces of envelopes that exist; one thrown away unpublished may as well *)
(* be signed anew, as long as it has not aged.                             *)
Issued == {desk[d].nonce : d \in Dispatchers} \cup {intent[r] : r \in Requests}

(* Slip: a recorded request is taken for an approved one.                  *)
DispatchableRecorded(r) == client[r] = "recorded"

Dispatchable(r) ==
  /\ client[r] = "recorded"
  /\ r \in Guarded => approval[r] = "approved"

(* The request and its approval are read, then an envelope is signed.      *)
Sign(d, r, n) ==
  /\ desk[d] = NoEnvelope /\ Dispatchable(r)
  /\ n \notin Issued /\ left[n] = Life
  /\ desk' = [desk EXCEPT ![d] = [req |-> r, nonce |-> n]]
  /\ UNCHANGED <<asked, left, intent, message, used, seat, ran, receipt>>

(* Slip: a request dispatched again gets the new envelope.                 *)
PublishAgain(d) ==
  LET r == desk[d].req
  IN  /\ desk[d] # NoEnvelope
      /\ intent' = [intent EXCEPT ![r] = desk[d].nonce]
      /\ message' = [message EXCEPT ![r] = "pending"]
      /\ desk' = [desk EXCEPT ![d] = NoEnvelope]
      /\ UNCHANGED <<asked, left, used, seat, ran, receipt>>

(* publish_pet_machine_capability_dispatch: the first envelope of a        *)
(* request stays, with its message; later dispatches are given that one.   *)
Publish(d) ==
  LET r == desk[d].req
      first == intent[r] = None
  IN  /\ desk[d] # NoEnvelope
      /\ intent' = [intent EXCEPT ![r] = IF first THEN desk[d].nonce ELSE intent[r]]
      /\ message' = [message EXCEPT ![r] = IF first THEN "pending" ELSE message[r]]
      /\ desk' = [desk EXCEPT ![d] = NoEnvelope]
      /\ UNCHANGED <<asked, left, used, seat, ran, receipt>>

DispatchFails(d) ==
  /\ desk[d] # NoEnvelope
  /\ desk' = [desk EXCEPT ![d] = NoEnvelope]
  /\ UNCHANGED <<asked, left, intent, message, used, seat, ran, receipt>>
-----------------------------------------------------------------------------
(* A worker process and the message of the request it has taken up.        *)

Goto(w, s) == seat' = [seat EXCEPT ![w].step = s]
Verdict(w, v) == seat' = [seat EXCEPT ![w].step = "reported", ![w].verdict = v]
Leave(w) == seat' = [seat EXCEPT ![w] = Idle]
At(w, s) == seat[w].step = s

(* speaker_feed: a message that was pending when the feed was read.        *)
Take(w, r) ==
  /\ At(w, "idle") /\ message[r] = "pending"
  /\ seat' = [seat EXCEPT ![w] = [step |-> "taken", req |-> r, verdict |-> None]]
  /\ UNCHANGED <<asked, issued, message, used, ran, receipt>>

Acknowledge(r) == message' = [message EXCEPT ![r] = "acknowledged"]

(* Slip: what has been reported is passed over.                            *)
LookPast(w) ==
  /\ At(w, "taken")
  /\ IF receipt[seat[w].req] # None THEN Leave(w) ELSE Goto(w, "checked")
  /\ UNCHANGED <<asked, issued, message, used, ran, receipt>>

(* machine_receipt_exists: what has been reported is only acknowledged.    *)
Look(w) ==
  /\ At(w, "taken")
  /\ IF receipt[seat[w].req] # None
     THEN Leave(w) /\ Acknowledge(seat[w].req)
     ELSE Goto(w, "checked") /\ UNCHANGED message
  /\ UNCHANGED <<asked, issued, used, ran, receipt>>

(* The signature is checked over all of the message's fields but its own,  *)
(* and the times against the clock.                                        *)
Authentic == SignedKeys \cup AddedKeys = SignedKeys
Fresh(r) == left[intent[r]] > 0

(* MachineCapabilityExecutor.execute, up to the nonce: a message that does *)
(* not verify raises, which is logged; the message stays as it is.         *)
Verify(w) ==
  /\ At(w, "checked")
  /\ Goto(w, IF Authentic /\ Fresh(seat[w].req) THEN "verified" ELSE "refused")
  /\ UNCHANGED <<asked, issued, message, used, ran, receipt>>

(* Slip: a nonce is remembered only by the process that consumed it.       *)
ConsumeInMemory(w) ==
  /\ At(w, "verified")
  /\ \/ Goto(w, "cleared")
     \/ Verdict(w, "held")
  /\ used' = used \cup {intent[seat[w].req]}
  /\ UNCHANGED <<asked, issued, message, ran, receipt>>

(* consume_pet_machine_execution_nonce, then the checks of the payload and *)
(* of the machine's settings, which may hold the execution as well.        *)
Consume(w) ==
  LET n == intent[seat[w].req]
      accepted == n \notin used /\ left[n] > 0
  IN  /\ At(w, "verified")
      /\ \/ accepted /\ Goto(w, "cleared")
         \/ Verdict(w, "held")
      /\ used' = IF accepted THEN used \cup {n} ELSE used
      /\ UNCHANGED <<asked, issued, message, ran, receipt>>

Run(w) ==
  /\ At(w, "cleared")
  /\ Goto(w, "running")
  /\ ran' = [ran EXCEPT ![seat[w].req] = @ + 1]
  /\ UNCHANGED <<asked, issued, message, used, receipt>>

Return(w, v) ==
  /\ At(w, "running")
  /\ Verdict(w, v)
  /\ UNCHANGED <<asked, issued, message, used, ran, receipt>>

(* record_machine_receipt: a request has one receipt; a second one raises. *)
Report(w) ==
  LET r == seat[w].req
  IN  /\ At(w, "reported")
      /\ IF receipt[r] = None
         THEN receipt' = [receipt EXCEPT ![r] = seat[w].verdict] /\ Goto(w, "recorded")
         ELSE UNCHANGED receipt /\ Leave(w)
      /\ UNCHANGED <<asked, issued, message, used, ran>>

(* Slip: a message that was refused is acknowledged like one carried out.  *)
CloseRefused(w) ==
  /\ At(w, "recorded") \/ At(w, "refused")
  /\ Leave(w) /\ Acknowledge(seat[w].req)
  /\ UNCHANGED <<asked, issued, used, ran, receipt>>

Close(w) ==
  /\ At(w, "recorded")
  /\ Leave(w) /\ Acknowledge(seat[w].req)
  /\ UNCHANGED <<asked, issued, used, ran, receipt>>

(* The refusal has been logged and the worker turns to the next message.   *)
PassOver(w) ==
  /\ At(w, "refused")
  /\ Leave(w)
  /\ UNCHANGED <<asked, issued, message, used, ran, receipt>>

(* The process dies, or a call to the database raises.                     *)
Abandon(w) ==
  /\ ~At(w, "idle")
  /\ Leave(w)
  /\ UNCHANGED <<asked, issued, message, used, ran, receipt>>

(* Slip: time goes on for an envelope that has expired.                    *)
TickOn ==
  /\ left' = [n \in Nonces |-> IF n \in Issued /\ left[n] >= 0 THEN left[n] - 1 ELSE left[n]]
  /\ UNCHANGED <<asked, desk, intent, message, used, seat, ran, receipt>>

(* expires_at comes nearer, on the clock of whoever looks at it.           *)
Tick ==
  /\ left' = [n \in Nonces |-> IF n \in Issued /\ left[n] > 0 THEN left[n] - 1 ELSE left[n]]
  /\ UNCHANGED <<asked, desk, intent, message, used, seat, ran, receipt>>

RequestStep(r) ==
  \/ Announce(r) \/ Record(r) \/ SubmitFails(r)
  \/ \E decision \in {"approved", "denied"} : Review(r, decision)

DispatchStep(d) ==
  \/ \E r \in Requests, n \in Nonces : Sign(d, r, n)
  \/ Publish(d) \/ DispatchFails(d)

Proceed(w) ==
  \/ Look(w) \/ Verify(w) \/ Consume(w) \/ Run(w)
  \/ \E v \in {"completed", "held", "failed"} : Return(w, v)
  \/ Report(w) \/ Close(w) \/ PassOver(w)

WorkerStep(w) == (\E r \in Requests : Take(w, r)) \/ Proceed(w) \/ Abandon(w)

Next ==
  \/ \E r \in Requests : RequestStep(r)
  \/ \E d \in Dispatchers : DispatchStep(d)
  \/ \E w \in Workers : WorkerStep(w)
  \/ Tick

Spec == Init /\ [][Next]_vars

(* A worker polls for ever and goes on with what it has taken up, handlers *)
(* return, and no message is interrupted at its first step every time.     *)
Fairness ==
  \A w \in Workers :
    /\ WF_vars(Proceed(w))
    /\ \A r \in Requests : SF_vars(Take(w, r)) /\ SF_vars(Look(w) /\ seat[w].req = r)

FairSpec == Spec /\ Fairness
-----------------------------------------------------------------------------
(* The handler of a request is started at most once, whatever workers      *)
(* crash, however often the request is dispatched and its message read     *)
(* (the intent kept by publish..., the nonce kept by consume...).          *)
HandlerAtMostOnce == \A r \in Requests : ran[r] <= 1

(* Nothing that needs an approval is carried out that never had one.       *)
ApprovedBeforeRun == \A r \in Guarded : ran[r] > 0 => granted[r]

(* A message is acknowledged only when there is a receipt that answers it: *)
(* "records the signed receipt, and acknowledges the exact speaker         *)
(* message" (docs/PET_MACHINE_CAPABILITY_CONTRACTS.md).                    *)
AcknowledgedIsAnswered ==
  \A r \in Requests : message[r] = "acknowledged" => receipt[r] # None

(* Once there is a receipt its message leaves the feed, even if the worker *)
(* that wrote the receipt died before it acknowledged the message.         *)
AnsweredIsAcknowledged ==
  \A r \in Requests : receipt[r] # None ~> message[r] = "acknowledged"

(* The worker "verifies its target/signature/executor mapping, checks for  *)
(* an existing receipt before invoking a handler, records the signed       *)
(* receipt" (docs/PET_MACHINE_CAPABILITY_CONTRACTS.md): what the API       *)
(* published and has not expired is not refused.                           *)
GenuineNotRefused ==
  \A w \in Workers : At(w, "refused") => ~Fresh(seat[w].req)
=============================================================================
