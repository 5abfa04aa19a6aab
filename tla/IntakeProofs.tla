---------------------------- MODULE IntakeProofs ----------------------------
(***************************************************************************)
(* Proofs about InstructionIntake, for any messages, envelopes, workers,   *)
(* clocks and lifetimes, also where envelopes share a nonce.  The          *)
(* inductive invariant says why pruning is safe: an envelope that was      *)
(* accepted holds its nonce, or is expired and so never accepted again.    *)
(***************************************************************************)
EXTENDS InstructionIntake, TLAPS

(* The claims c or the archive a hold the nonce of e for e.                *)
Held(c, a, e) == c[NonceOf[e]] = e \/ a[NonceOf[e]] = e

AcceptedHolds ==
  \A e \in Envelopes :
    \/ taken[e] = 0
    \/ taken[e] = 1 /\ (claims[NonceOf[e]] = e \/ left[e] <= 0)

(* Also of an instruction that is accepted and has no receipt yet.         *)
EvidenceHeld ==
  /\ EvidenceKept
  /\ \A w \in Workers :
       seat[w].step \in {"accepted", "received"} /\ Current(w) \in Signed
         => Held(claims, archive, EnvelopeOf[Current(w)])

(* A nonce is asked for only for what is signed, and a message is          *)
(* acknowledged only after its receipt.                                    *)
Orderly ==
  /\ AcknowledgedWasReceived
  /\ \A w \in Workers : At(w, "checked") => Current(w) \in Signed
  /\ \A w \in Workers : At(w, "received") => Current(w) \in receipts

IInv == TypeOK /\ AcceptedHolds /\ EvidenceHeld /\ Orderly

USE IntakeAssumption
-----------------------------------------------------------------------------
LEMMA EnvelopeNonce == \A e \in Envelopes : NonceOf[e] \in Nonces
  BY DEF Nonces

LEMMA Seated ==
  ASSUME TypeOK, NEW w \in Workers, ~At(w, "idle"), ~At(w, "loop")
  PROVE  Current(w) \in Messages
<1>1. seat[w].cur \in Messages \cup {None} /\ seat[w].cur # None
  BY DEF TypeOK, At
<1> QED
  BY <1>1 DEF Current

LEMMA InitIInv == Init => IInv
<1> SUFFICES ASSUME Init
             PROVE  IInv
  OBVIOUS
<1> USE DEF Init, Idle
<1>1. TypeOK
  <2>1. Life \in Floor .. Life
    BY DEF Floor
  <2>2. /\ left \in [Envelopes -> Floor .. Life]
        /\ \A w \in Workers : seat[w] = [step |-> "idle", cur |-> None, todo |-> {}]
    BY <2>1
  <2> QED
    BY <2>2 DEF TypeOK
<1>2. AcceptedHolds /\ EvidenceHeld /\ Orderly
  BY DEF AcceptedHolds, EvidenceHeld, EvidenceKept, Orderly, AcknowledgedWasReceived, At
<1> QED
  BY <1>1, <1>2 DEF IInv

(* Where the evidence only grows, what had evidence still has it.          *)
LEMMA EvidenceGrows ==
  ASSUME IInv,
         \A e \in Envelopes : Held(claims, archive, e) => Held(claims', archive', e),
         \A m \in receipts' \cap Signed : m \in receipts \/ Held(claims', archive', EnvelopeOf[m]),
         \A w \in Workers : seat'[w].step \in {"accepted", "received"}
                              => \/ /\ seat[w].step \in {"accepted", "received"}
                                    /\ seat'[w].cur = seat[w].cur
                                 \/ seat'[w].cur \in Signed => Held(claims', archive', EnvelopeOf[seat'[w].cur])
  PROVE  EvidenceHeld'
<1>1. \A m \in receipts \cap Signed : Held(claims, archive, EnvelopeOf[m])
  BY DEF IInv, EvidenceHeld, EvidenceKept, Held
<1>2. \A m \in receipts' \cap Signed : Held(claims', archive', EnvelopeOf[m])
  BY <1>1
<1>3. EvidenceKept'
  BY <1>2 DEF EvidenceKept, Held
<1>4. \A w \in Workers : seat'[w].step \in {"accepted", "received"} /\ seat'[w].cur \in Signed
                           => Held(claims', archive', EnvelopeOf[seat'[w].cur])
  BY DEF IInv, EvidenceHeld, Current
<1> QED
  BY <1>3, <1>4 DEF EvidenceHeld, Current

(* The steps on the Brain's side.                                          *)
LEMMA BrainInv ==
  ASSUME IInv, BrainStep \/ CalmDown
  PROVE  IInv'
<1> USE DEF IInv
<1>1. ASSUME NEW m \in Messages, Speak(m) \/ AcknowledgeByHand(m)
      PROVE  IInv'
  <2> USE <1>1 DEF Speak, AcknowledgeByHand, evidence, reports
  <2>1. TypeOK'
    BY DEF TypeOK, At
  <2>2. AcceptedHolds' /\ EvidenceHeld'
    BY DEF AcceptedHolds, EvidenceHeld, EvidenceKept, Held, Current
  <2>3. Orderly'
    BY DEF TypeOK, Orderly, AcknowledgedWasReceived, At, Current
  <2> QED
    BY <2>1, <2>2, <2>3
<1>2. ASSUME NEW S \in SUBSET Nonces, Prune(S)
      PROVE  IInv'
  <2> USE <1>2 DEF Prune, reports
  <2>1. TypeOK'
    BY DEF TypeOK, At
  <2>2. \A n \in Nonces :
          \/ claims'[n] = claims[n] /\ archive'[n] = archive[n]
          \/ /\ claims[n] \in Envelopes /\ left[claims[n]] <= 0
             /\ claims'[n] = None /\ archive[n] = None /\ archive'[n] = claims[n]
    <3>1. \A n \in S : claims[n] \in Envelopes
      BY DEF TypeOK
    <3>2. \A n \in S : left[claims[n]] <= 0
      BY <3>1 DEF TypeOK, Floor
    <3> QED
      BY <3>1, <3>2 DEF TypeOK
  <2>3. AcceptedHolds'
    BY <2>2, EnvelopeNonce DEF AcceptedHolds
  <2>4. EvidenceHeld'
    <3>1. \A e \in Envelopes : Held(claims, archive, e) => Held(claims', archive', e)
      BY <2>2, EnvelopeNonce DEF Held
    <3> QED
      BY <3>1, EvidenceGrows
  <2>5. Orderly'
    BY DEF Orderly, AcknowledgedWasReceived, At, Current
  <2> QED
    BY <2>1, <2>3, <2>4, <2>5
<1>3. CASE Tick
  <2> USE <1>3 DEF Tick, evidence, reports
  <2>1. \A e \in Envelopes : left'[e] <= left[e] /\ left'[e] \in Floor .. Life
    BY DEF TypeOK, Floor
  <2>2. TypeOK'
    BY <2>1 DEF TypeOK, At
  <2>3. AcceptedHolds'
    BY <2>1 DEF TypeOK, AcceptedHolds, Floor
  <2>4. EvidenceHeld' /\ Orderly'
    BY DEF EvidenceHeld, EvidenceKept, Held, Orderly, AcknowledgedWasReceived, At, Current
  <2> QED
    BY <2>2, <2>3, <2>4
<1>4. CASE CalmDown
  BY <1>4
  DEF CalmDown, evidence, reports, TypeOK, AcceptedHolds, EvidenceHeld, EvidenceKept, Held,
      Orderly, AcknowledgedWasReceived, At, Current
<1> QED
  BY <1>1, <1>2, <1>3, <1>4 DEF BrainStep

(* A worker goes on to its next message or gives up: nothing else changes. *)
LEMMA MovesOn ==
  ASSUME IInv, NEW w \in Workers, Advance(w) \/ seat' = [seat EXCEPT ![w] = Idle],
         UNCHANGED <<left, evidence, taken, receipts>>,
         inbox' \in [Messages -> {"absent", "open", "acknowledged", "byHand"}],
         notices' \subseteq Messages, calm' \in BOOLEAN,
         \A m \in Messages : inbox'[m] = "acknowledged" => m \in receipts
  PROVE  IInv'
<1> USE DEF IInv, Advance, Looping, Idle, evidence
<1>1. /\ \A v \in Workers \ {w} : seat'[v] = seat[v]
      /\ seat'[w].step \in {"idle", "loop"}
  BY DEF TypeOK
<1>2. TypeOK'
  <2>1. /\ seat'[w].cur = None /\ seat'[w].todo \in SUBSET Messages
        /\ seat'[w].step = "idle" => seat'[w].todo = {}
        /\ seat'[w].step = "loop" => seat'[w].todo # {}
        /\ seat' \in [Workers ->
             [step : {"idle", "loop", "checked", "accepted", "rejected", "received"},
              cur : Messages \cup {None}, todo : SUBSET Messages]]
    BY DEF TypeOK
  <2> QED
    BY <1>1, <2>1 DEF TypeOK
<1>3. AcceptedHolds'
  BY DEF AcceptedHolds
<1>4. EvidenceHeld'
  BY <1>1, EvidenceGrows DEF Held
<1>5. Orderly'
  BY <1>1 DEF Orderly, AcknowledgedWasReceived, At, Current
<1> QED
  BY <1>2, <1>3, <1>4, <1>5

(* The steps of a worker.                                                  *)
LEMMA WorkerInv ==
  ASSUME IInv, NEW w \in Workers, Serve(w) \/ Interrupt(w)
  PROVE  IInv'
<1> USE DEF IInv
<1>1. CASE Read(w)
  <2> USE <1>1 DEF Read, evidence, reports
  <2>1. Feed \in SUBSET Messages
    BY DEF Feed
  <2>2. TypeOK'
    BY <2>1 DEF TypeOK, At
  <2>3. \A v \in Workers : seat'[v].step \in {"checked", "accepted", "received"} => seat'[v] = seat[v]
    BY DEF TypeOK
  <2>4. AcceptedHolds'
    BY DEF AcceptedHolds
  <2>5. EvidenceHeld'
    BY <2>3, EvidenceGrows DEF Held
  <2>6. Orderly'
    BY <2>3 DEF Orderly, AcknowledgedWasReceived, At, Current
  <2> QED
    BY <2>2, <2>4, <2>5, <2>6
<1>2. ASSUME NEW m \in Messages, NEW o \in Offsets, Check(w, m, o)
      PROVE  IInv'
  <2> USE <1>2 DEF Check, evidence, reports
  <2>1. /\ Ruling(m, o) \in {"accepted", "checked", "rejected"}
        /\ Ruling(m, o) = "accepted" => m \notin Signed
        /\ Ruling(m, o) = "checked" => m \in Signed
    BY DEF Ruling
  <2>2. TypeOK'
    BY <2>1 DEF TypeOK, At
  <2>3. \A v \in Workers :
          \/ seat'[v] = seat[v]
          \/ /\ seat'[v].step # "received"
             /\ seat'[v].step = "accepted" => seat'[v].cur \notin Signed
             /\ seat'[v].step = "checked" => seat'[v].cur \in Signed
    BY <2>1 DEF TypeOK
  <2>4. AcceptedHolds'
    BY DEF AcceptedHolds
  <2>5. EvidenceHeld'
    BY <2>3, EvidenceGrows DEF Held
  <2>6. Orderly'
    BY <2>3 DEF Orderly, AcknowledgedWasReceived, At, Current
  <2> QED
    BY <2>2, <2>4, <2>5, <2>6
<1>3. CASE Consume(w) \/ ConsumeBroken(w)
  <2> DEFINE e == EnvelopeOf[Current(w)]
  <2> USE <1>3 DEF Consume, ConsumeBroken, Goto, reports
  <2>1. At(w, "checked") /\ e \in Envelopes
    BY DEF Orderly
  <2> HIDE DEF e
  <2>2. CASE UNCHANGED <<claims, taken>> /\ Goto(w, "rejected")
    <3> USE <2>2
    <3>1. TypeOK'
      BY <2>1 DEF TypeOK, At
    <3>2. \A v \in Workers : seat'[v].step \in {"checked", "accepted", "received"} => seat'[v] = seat[v]
      BY DEF TypeOK
    <3>3. AcceptedHolds'
      BY DEF AcceptedHolds
    <3>4. EvidenceHeld'
      BY <3>2, EvidenceGrows DEF Held
    <3>5. Orderly'
      BY <3>2 DEF Orderly, AcknowledgedWasReceived, At, Current
    <3> QED
      BY <3>1, <3>3, <3>4, <3>5
  <2>3. CASE /\ Claimable(e) /\ ClaimFor(e)
             /\ \/ Goto(w, "accepted") /\ taken' = [taken EXCEPT ![e] = @ + 1]
                \/ Goto(w, "rejected") /\ UNCHANGED taken
    <3> USE <2>3 DEF Claimable, ClaimFor
    <3>1. /\ claims'[NonceOf[e]] = e /\ claims[NonceOf[e]] = None /\ left[e] > 0
          /\ \A n \in Nonces \ {NonceOf[e]} : claims'[n] = claims[n]
          /\ NonceOf[e] \in Nonces
      BY <2>1, EnvelopeNonce DEF TypeOK
    <3>2. taken[e] = 0
      BY <2>1, <3>1 DEF TypeOK, AcceptedHolds, Floor
    <3>3. TypeOK'
      BY <2>1, EnvelopeNonce DEF TypeOK, At
    <3>4. AcceptedHolds'
      <4>1. ASSUME NEW f \in Envelopes \ {e}
            PROVE  taken'[f] = taken[f] /\ (claims[NonceOf[f]] = f => claims'[NonceOf[f]] = f)
        BY <3>1, EnvelopeNonce DEF TypeOK
      <4>2. taken'[e] \in {0, 1}
        BY <3>2 DEF TypeOK
      <4> QED
        BY <4>1, <4>2, <3>1 DEF AcceptedHolds
    <3>5. \A f \in Envelopes : Held(claims, archive, f) => Held(claims', archive', f)
      BY <3>1, EnvelopeNonce DEF Held
    <3>6. \A v \in Workers \ {w} : seat'[v] = seat[v]
      BY DEF TypeOK
    <3>7. /\ seat'[w].step \in {"accepted", "rejected"}
          /\ seat'[w].cur = seat[w].cur
      BY DEF TypeOK
    <3>8. Held(claims', archive', e)
      BY <3>1 DEF Held
    <3>9. EvidenceHeld'
      BY <3>5, <3>6, <3>7, <3>8, EvidenceGrows DEF e, Current
    <3>10. Orderly'
      BY <3>6, <3>7 DEF Orderly, AcknowledgedWasReceived, At, Current
    <3> QED
      BY <3>3, <3>4, <3>9, <3>10
  <2> QED
    BY <1>3, <2>2, <2>3 DEF e
<1>4. CASE Receive(w)
  <2> USE <1>4 DEF Receive, Goto, evidence
  <2>1. Current(w) \in Messages /\ (Current(w) \in Signed => Held(claims, archive, EnvelopeOf[Current(w)]))
    BY Seated DEF At, EvidenceHeld
  <2>2. TypeOK'
    BY <2>1 DEF TypeOK, At
  <2>3. /\ \A v \in Workers \ {w} : seat'[v] = seat[v]
        /\ seat'[w].step = "received" /\ seat'[w].cur = Current(w)
    BY DEF TypeOK, Current
  <2>4. AcceptedHolds'
    BY DEF AcceptedHolds
  <2>5. EvidenceHeld'
    <3>1. \A m \in receipts' \cap Signed : m \in receipts \/ Held(claims', archive', EnvelopeOf[m])
      BY <2>1 DEF Held
    <3> QED
      BY <2>3, <3>1, EvidenceGrows DEF Held, At, Current
  <2>6. Orderly'
    BY <2>3 DEF Orderly, AcknowledgedWasReceived, At, Current
  <2> QED
    BY <2>2, <2>4, <2>5, <2>6
<1>5. CASE Acknowledge(w)
  <2> USE <1>5 DEF Acknowledge, reports
  <2>1. /\ inbox' \in [Messages -> {"absent", "open", "acknowledged", "byHand"}]
        /\ calm' \in BOOLEAN /\ notices' \subseteq Messages
    BY DEF TypeOK
  <2>2. \A m \in Messages : inbox'[m] = "acknowledged" => m \in receipts
    BY DEF TypeOK, Orderly, AcknowledgedWasReceived
  <2> QED
    BY <2>1, <2>2, MovesOn
<1>6. CASE Reject(w) \/ PassOver(w) \/ Die(w)
  <2> USE <1>6 DEF Reject, PassOver, Die, reports
  <2>1. notices' \subseteq Messages
    <3>1. CASE Reject(w)
      BY <3>1, Seated DEF TypeOK, At
    <3>2. CASE PassOver(w) \/ Die(w)
      BY <3>2 DEF TypeOK
    <3> QED
      BY <3>1, <3>2
  <2>2. /\ inbox' \in [Messages -> {"absent", "open", "acknowledged", "byHand"}]
        /\ calm' \in BOOLEAN
        /\ \A m \in Messages : inbox'[m] = "acknowledged" => m \in receipts
    BY DEF TypeOK, Orderly, AcknowledgedWasReceived
  <2> QED
    BY <2>1, <2>2, MovesOn
<1> QED
  BY <1>1, <1>2, <1>3, <1>4, <1>5, <1>6 DEF Serve, Interrupt

LEMMA NextIInv == IInv /\ [Next]_vars => IInv'
<1> SUFFICES ASSUME IInv, [Next]_vars
             PROVE  IInv'
  OBVIOUS
<1>1. CASE UNCHANGED vars
  BY <1>1
  DEF vars, evidence, reports, IInv, TypeOK, AcceptedHolds, EvidenceHeld, EvidenceKept, Held,
      Orderly, AcknowledgedWasReceived, At, Current
<1> QED
  BY <1>1, BrainInv, WorkerInv DEF Next

THEOREM Invariant == Spec => []IInv
  BY InitIInv, NextIInv, PTL DEF Spec
-----------------------------------------------------------------------------
(* Every reachable state of the message loop is well typed.                *)
THEOREM TypeCorrect == Spec => []TypeOK
<1>1. IInv => TypeOK
  BY DEF IInv
<1> QED
  BY <1>1, Invariant, PTL

(* However many workers, crashes and wrong clocks there are, and whatever  *)
(* is pruned, an instruction is accepted at most once.                     *)
THEOREM AcceptedAtMostOnce == Spec => []AcceptedOnce
<1>1. IInv => AcceptedOnce
  BY DEF IInv, AcceptedHolds, AcceptedOnce
<1> QED
  BY <1>1, Invariant, PTL

(* The replay claim behind a receipt is never lost.                        *)
THEOREM EvidenceStays == Spec => []EvidenceKept
<1>1. IInv => EvidenceKept
  BY DEF IInv, EvidenceHeld
<1> QED
  BY <1>1, Invariant, PTL

(* A worker acknowledges only what it recorded a receipt for.              *)
THEOREM ReceivedFirst == Spec => []AcknowledgedWasReceived
<1>1. IInv => AcknowledgedWasReceived
  BY DEF IInv, Orderly
<1> QED
  BY <1>1, Invariant, PTL
=============================================================================
