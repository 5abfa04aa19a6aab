-------------------------- MODULE CapabilityProofs --------------------------
(***************************************************************************)
(* Proofs about CapabilityDispatch, for any sets of requests, workers,     *)
(* dispatchers and nonces, and whatever fields the message adds.  The      *)
(* inductive invariant follows the nonce of a request: from the intent,    *)
(* which never changes once it is there, to the one worker that consumed   *)
(* it, to the one start of the handler.                                    *)
(***************************************************************************)
EXTENDS CapabilityDispatch, TLAPS

(* Whoever holds an envelope, or has one on record, got it for a request   *)
(* that was granted if it had to be.                                       *)
Grants ==
  /\ \A r \in Requests : approval[r] = "approved" => granted[r]
  /\ \A d \in Dispatchers :
       desk[d] # NoEnvelope /\ desk[d].req \in Guarded => granted[desk[d].req]
  /\ \A r \in Guarded : intent[r] # None => granted[r]

(* Workers and messages are about requests that have been published.       *)
Published ==
  /\ \A r \in Requests : message[r] # "none" => intent[r] # None
  /\ \A w \in Workers : ~At(w, "idle") => intent[seat[w].req] # None

(* A handler starts only for a consumed nonce, and only one worker is ever *)
(* about to start it.                                                      *)
OneStart ==
  /\ \A r \in Requests : ran[r] = 0 \/ (ran[r] = 1 /\ intent[r] \in used)
  /\ \A w \in Workers :
       At(w, "cleared") => intent[seat[w].req] \in used /\ ran[seat[w].req] = 0
  /\ \A v, w \in Workers :
       At(v, "cleared") /\ At(w, "cleared") /\ seat[v].req = seat[w].req => v = w

Answered ==
  /\ AcknowledgedIsAnswered
  /\ \A w \in Workers : At(w, "reported") => seat[w].verdict # None
  /\ \A w \in Workers : At(w, "recorded") => receipt[seat[w].req] # None

IInv == TypeOK /\ Grants /\ Published /\ OneStart /\ Answered

USE DispatchAssumption
-----------------------------------------------------------------------------
LEMMA SeatTyped ==
  ASSUME TypeOK, NEW w \in Workers, ~At(w, "idle")
  PROVE  seat[w] \in Busy /\ seat[w].req \in Requests
  BY DEF TypeOK, At, Idle, Busy

LEMMA InitIInv == Init => IInv
  BY DEF Init, IInv, TypeOK, Grants, Published, OneStart, Answered, AcknowledgedIsAnswered,
         NoEnvelope, Idle, At

(* The steps of a request and of its approval.                             *)
LEMMA RequestInv ==
  ASSUME IInv, NEW r \in Requests, RequestStep(r)
  PROVE  IInv'
<1> USE DEF IInv, At, asked, issued
<1>1. ASSUME Announce(r) \/ Record(r) \/ SubmitFails(r)
      PROVE  IInv'
  <2> USE <1>1 DEF Announce, Record, SubmitFails
  <2>1. TypeOK'
    BY DEF TypeOK
  <2>2. Grants'
    BY DEF TypeOK, Grants
  <2>3. Published' /\ OneStart' /\ Answered'
    BY DEF Published, OneStart, Answered, AcknowledgedIsAnswered
  <2> QED
    BY <2>1, <2>2, <2>3
<1>2. ASSUME NEW decision \in {"approved", "denied"}, Review(r, decision)
      PROVE  IInv'
  <2> USE <1>2 DEF Review
  <2>1. TypeOK'
    BY DEF TypeOK
  <2>2. \A q \in Requests : granted[q] => granted'[q]
    BY DEF TypeOK
  <2>3. \A q \in Requests : approval'[q] = "approved" => granted'[q]
    BY DEF TypeOK, Grants
  <2>4. Grants'
    BY <2>2, <2>3 DEF TypeOK, Grants, Envelope, NoEnvelope
  <2>5. Published' /\ OneStart' /\ Answered'
    BY DEF Published, OneStart, Answered, AcknowledgedIsAnswered
  <2> QED
    BY <2>1, <2>4, <2>5
<1> QED
  BY <1>1, <1>2 DEF RequestStep

(* The steps of a dispatch.                                                *)
LEMMA DispatchInv ==
  ASSUME IInv, NEW d \in Dispatchers, DispatchStep(d)
  PROVE  IInv'
<1> USE DEF IInv, At, asked, issued
<1>1. ASSUME NEW r \in Requests, NEW n \in Nonces, Sign(d, r, n)
      PROVE  IInv'
  <2> USE <1>1 DEF Sign, Dispatchable
  <2>1. TypeOK'
    BY DEF TypeOK, Envelope
  <2>2. Grants'
    BY DEF TypeOK, Grants
  <2>3. Published' /\ OneStart' /\ Answered'
    BY DEF Published, OneStart, Answered, AcknowledgedIsAnswered
  <2> QED
    BY <2>1, <2>2, <2>3
<1>2. CASE Publish(d)
  <2> DEFINE r == desk[d].req
  <2> USE <1>2 DEF Publish
  <2>1. /\ r \in Requests /\ desk[d].nonce \in Nonces
        /\ \A q \in Requests : intent[q] # None => intent'[q] = intent[q]
        /\ \A q \in Requests \ {r} : intent'[q] = intent[q] /\ message'[q] = message[q]
        /\ intent'[r] # None
        /\ message'[r] = "acknowledged" => message[r] = "acknowledged"
    BY DEF TypeOK, Envelope, NoEnvelope
  <2>2. TypeOK'
    BY <2>1 DEF TypeOK
  <2>3. Grants'
    BY <2>1 DEF Grants, TypeOK, NoEnvelope
  <2>4. Published'
    BY <2>1, SeatTyped DEF Published
  <2>5. OneStart'
    <3>1. \A q \in Requests : intent[q] \in used => intent'[q] = intent[q]
      BY <2>1 DEF TypeOK
    <3>2. \A w \in Workers : At(w, "cleared") => seat[w].req \in Requests
      BY SeatTyped
    <3> QED
      BY <3>1, <3>2 DEF OneStart
  <2>6. Answered'
    BY <2>1 DEF Answered, AcknowledgedIsAnswered
  <2> QED
    BY <2>2, <2>3, <2>4, <2>5, <2>6
<1>3. CASE DispatchFails(d)
  BY <1>3 DEF DispatchFails, TypeOK, Grants, Published, OneStart, Answered,
              AcknowledgedIsAnswered
<1> QED
  BY <1>1, <1>2, <1>3 DEF DispatchStep

(* The worker's steps that change nothing but its own seat: what it is at, *)
(* and about which request, is all that has to be looked at.               *)
LEMMA SeatInv ==
  ASSUME IInv, NEW w \in Workers, NEW s \in Busy \cup {Idle},
         seat' = [seat EXCEPT ![w] = s],
         UNCHANGED <<asked, issued, message, used, ran, receipt>>,
         s.step # "cleared", s.step # "recorded",
         s # Idle => intent[s.req] # None,
         s.step = "reported" => s.verdict # None
  PROVE  IInv'
<1> USE DEF IInv, At, asked, issued
<1>1. TypeOK'
  BY DEF TypeOK
<1>2. \A v \in Workers : seat'[v] = IF v = w THEN s ELSE seat[v]
  BY DEF TypeOK
<1>3. Grants'
  BY DEF Grants
<1>4. Published'
  BY <1>2 DEF Published, Idle
<1>5. OneStart'
  BY <1>2 DEF OneStart
<1>6. Answered'
  BY <1>2 DEF Answered, AcknowledgedIsAnswered
<1> QED
  BY <1>1, <1>3, <1>4, <1>5, <1>6

LEMMA SoloStep ==
  ASSUME IInv, NEW w \in Workers,
         \/ \E r \in Requests : Take(w, r)
         \/ Verify(w)
         \/ \E v \in {"completed", "held", "failed"} : Return(w, v)
         \/ PassOver(w) \/ Abandon(w)
  PROVE  IInv'
<1> USE DEF IInv
<1>1. ASSUME NEW r \in Requests, Take(w, r)
      PROVE  IInv'
  <2> DEFINE s == [step |-> "taken", req |-> r, verdict |-> None]
  <2>1. s \in Busy /\ intent[s.req] # None /\ s.step = "taken"
    BY <1>1 DEF Take, Busy, Steps, Published
  <2>2. seat' = [seat EXCEPT ![w] = s]
    BY <1>1 DEF Take
  <2> HIDE DEF s
  <2> QED
    BY <1>1, <2>1, <2>2, SeatInv DEF Take
<1>2. CASE Verify(w)
  <2>1. PICK step \in {"verified", "refused"} : Goto(w, step)
    BY <1>2 DEF Verify
  <2> DEFINE s == [seat[w] EXCEPT !.step = step]
  <2>2. seat[w] \in Busy /\ intent[seat[w].req] # None
    BY <1>2, SeatTyped DEF Verify, At, Published
  <2>3. s \in Busy /\ intent[s.req] # None /\ s.step = step
    BY <2>2 DEF Busy, Steps
  <2>4. seat' = [seat EXCEPT ![w] = s]
    BY <2>1 DEF Goto, TypeOK
  <2> HIDE DEF s
  <2> QED
    BY <1>2, <2>3, <2>4, SeatInv DEF Verify
<1>3. ASSUME NEW v \in {"completed", "held", "failed"}, Return(w, v)
      PROVE  IInv'
  <2> DEFINE s == [seat[w] EXCEPT !.step = "reported", !.verdict = v]
  <2>1. seat[w] \in Busy /\ intent[seat[w].req] # None
    BY <1>3, SeatTyped DEF Return, At, Published
  <2>2. s \in Busy /\ intent[s.req] # None /\ s.step = "reported" /\ s.verdict = v
    BY <2>1 DEF Busy, Steps
  <2>3. seat' = [seat EXCEPT ![w] = s]
    BY <1>3 DEF Return, Verdict, TypeOK
  <2> HIDE DEF s
  <2> QED
    BY <1>3, <2>2, <2>3, SeatInv DEF Return
<1>4. CASE PassOver(w) \/ Abandon(w)
  <2>1. Idle.step = "idle"
    BY DEF Idle
  <2> QED
    BY <1>4, <2>1, SeatInv DEF PassOver, Abandon, Leave
<1> QED
  BY <1>1, <1>2, <1>3, <1>4

(* A look at the receipts: nothing but an acknowledgement that is due.     *)
LEMMA LookInv ==
  ASSUME IInv, NEW w \in Workers, Look(w)
  PROVE  IInv'
<1> USE DEF IInv, Look
<1> DEFINE r == seat[w].req
<1>1. seat[w] \in Busy /\ r \in Requests /\ intent[r] # None
  BY SeatTyped DEF At, Published
<1>2. CASE receipt[r] = None
  <2> DEFINE s == [seat[w] EXCEPT !.step = "checked"]
  <2>1. s \in Busy /\ intent[s.req] # None /\ s.step = "checked"
    BY <1>1 DEF Busy, Steps
  <2>2. seat' = [seat EXCEPT ![w] = s]
    BY <1>2 DEF Goto, TypeOK
  <2> HIDE DEF s
  <2> QED
    BY <1>2, <2>1, <2>2, SeatInv
<1>3. CASE receipt[r] # None
  <2> USE <1>3 DEF At, asked, issued, Leave, Acknowledge
  <2>1. \A v \in Workers : seat'[v] = IF v = w THEN Idle ELSE seat[v]
    BY DEF TypeOK
  <2>2. message' = [message EXCEPT ![r] = "acknowledged"]
    OBVIOUS
  <2>3. TypeOK'
    BY DEF TypeOK
  <2>4. Grants'
    BY DEF Grants
  <2>5. Published'
    BY <1>1, <2>1, <2>2 DEF Published, TypeOK, Idle
  <2>6. OneStart'
    BY <2>1 DEF OneStart, Idle
  <2>7. Answered'
    BY <1>1, <2>1, <2>2 DEF Answered, AcknowledgedIsAnswered, TypeOK, Idle
  <2> QED
    BY <2>3, <2>4, <2>5, <2>6, <2>7
<1> QED
  BY <1>2, <1>3

(* The nonce: whoever consumes it is the only one about to start.          *)
LEMMA ConsumeInv ==
  ASSUME IInv, NEW w \in Workers, Consume(w)
  PROVE  IInv'
<1> USE DEF IInv, Consume, At, asked, issued
<1> DEFINE r == seat[w].req
           n == intent[r]
           accepted == n \notin used /\ left[n] > 0
<1>1. seat[w] \in Busy /\ r \in Requests /\ n \in Nonces
  BY SeatTyped DEF Published, TypeOK
<1>2. PICK s \in Busy : /\ seat' = [seat EXCEPT ![w] = s]
                        /\ s.req = r
                        /\ \/ s.step = "cleared" /\ accepted
                           \/ s.step = "reported" /\ s.verdict = "held"
  <2>1. CASE accepted /\ Goto(w, "cleared")
    <3> DEFINE t == [seat[w] EXCEPT !.step = "cleared"]
    <3>1. t \in Busy /\ t.req = r /\ t.step = "cleared"
      BY <1>1 DEF Busy, Steps
    <3>2. seat' = [seat EXCEPT ![w] = t]
      BY <2>1 DEF Goto, TypeOK
    <3> QED
      BY <2>1, <3>1, <3>2
  <2>2. CASE Verdict(w, "held")
    <3> DEFINE t == [seat[w] EXCEPT !.step = "reported", !.verdict = "held"]
    <3>1. t \in Busy /\ t.req = r /\ t.step = "reported" /\ t.verdict = "held"
      BY <1>1 DEF Busy, Steps
    <3>2. seat' = [seat EXCEPT ![w] = t]
      BY <2>2 DEF Verdict, TypeOK
    <3> QED
      BY <3>1, <3>2
  <2> QED
    BY <2>1, <2>2
<1>3. \A v \in Workers : seat'[v] = IF v = w THEN s ELSE seat[v]
  BY <1>2 DEF TypeOK
<1>4. used' = IF accepted THEN used \cup {n} ELSE used
  OBVIOUS
<1>5. TypeOK'
  BY <1>1, <1>2, <1>4 DEF TypeOK
<1>6. Grants'
  BY DEF Grants
<1>7. Published'
  BY <1>1, <1>2, <1>3 DEF Published
<1>8. OneStart'
  <2>1. \A q \in Requests : ran'[q] = 0 \/ (ran'[q] = 1 /\ intent'[q] \in used')
    BY <1>4 DEF OneStart
  <2>2. ASSUME s.step = "cleared"
        PROVE  /\ ran[r] = 0 /\ n \in used'
               /\ \A v \in Workers : At(v, "cleared") => seat[v].req # r
    BY <1>1, <1>2, <1>4, <2>2 DEF OneStart
  <2>3. \A v \in Workers :
          At(v, "cleared")' => intent'[seat'[v].req] \in used' /\ ran'[seat'[v].req] = 0
    BY <1>2, <1>3, <1>4, <2>2 DEF OneStart
  <2>4. \A u, v \in Workers :
          At(u, "cleared")' /\ At(v, "cleared")' /\ seat'[u].req = seat'[v].req => u = v
    BY <1>2, <1>3, <2>2 DEF OneStart
  <2> QED
    BY <2>1, <2>3, <2>4 DEF OneStart
<1>9. Answered'
  BY <1>2, <1>3 DEF Answered, AcknowledgedIsAnswered
<1> QED
  BY <1>5, <1>6, <1>7, <1>8, <1>9

LEMMA RunInv ==
  ASSUME IInv, NEW w \in Workers, Run(w)
  PROVE  IInv'
<1> USE DEF IInv, Run, At, asked, issued
<1> DEFINE r == seat[w].req
           s == [seat[w] EXCEPT !.step = "running"]
<1>1. seat[w] \in Busy /\ r \in Requests /\ intent[r] # None
  BY SeatTyped DEF Published
<1>2. s \in Busy /\ s.req = r /\ s.step = "running" /\ seat' = [seat EXCEPT ![w] = s]
  BY <1>1 DEF Goto, TypeOK, Busy, Steps
<1> HIDE DEF s
<1>3. \A v \in Workers : seat'[v] = IF v = w THEN s ELSE seat[v]
  BY <1>2 DEF TypeOK
<1>4. /\ ran' = [ran EXCEPT ![r] = ran[r] + 1]
      /\ ran[r] = 0 /\ intent[r] \in used
      /\ \A v \in Workers \ {w} : At(v, "cleared") => seat[v].req # r
  BY DEF OneStart
<1>5. TypeOK'
  BY <1>1, <1>2, <1>4 DEF TypeOK
<1>6. Grants'
  BY DEF Grants
<1>7. Published'
  BY <1>1, <1>2, <1>3 DEF Published
<1>8. OneStart'
  <2>1. \A q \in Requests : ran'[q] = IF q = r THEN 1 ELSE ran[q]
    BY <1>1, <1>4 DEF TypeOK
  <2>2. \A v \in Workers : At(v, "cleared")' => v # w /\ At(v, "cleared") /\ seat'[v] = seat[v]
    BY <1>2, <1>3
  <2>3. \A v \in Workers : At(v, "cleared") => seat[v].req \in Requests
    BY SeatTyped
  <2>4. \A q \in Requests : ran'[q] = 0 \/ (ran'[q] = 1 /\ intent'[q] \in used')
    BY <1>4, <2>1 DEF OneStart
  <2>5. \A v \in Workers :
          At(v, "cleared")' => intent'[seat'[v].req] \in used' /\ ran'[seat'[v].req] = 0
    BY <1>4, <2>1, <2>2, <2>3 DEF OneStart
  <2>6. \A u, v \in Workers :
          At(u, "cleared")' /\ At(v, "cleared")' /\ seat'[u].req = seat'[v].req => u = v
    BY <2>2 DEF OneStart
  <2> QED
    BY <2>4, <2>5, <2>6 DEF OneStart
<1>9. Answered'
  BY <1>2, <1>3 DEF Answered, AcknowledgedIsAnswered
<1> QED
  BY <1>5, <1>6, <1>7, <1>8, <1>9

LEMMA ReportInv ==
  ASSUME IInv, NEW w \in Workers, Report(w)
  PROVE  IInv'
<1> USE DEF IInv, Report, At, asked, issued
<1> DEFINE r == seat[w].req
<1>1. seat[w] \in Busy /\ r \in Requests /\ intent[r] # None
  BY SeatTyped DEF Published
<1>2. CASE receipt[r] # None
  <2>1. Idle.step = "idle"
    BY DEF Idle
  <2> QED
    BY <1>2, <2>1, SeatInv DEF Leave
<1>3. CASE receipt[r] = None
  <2> DEFINE s == [seat[w] EXCEPT !.step = "recorded"]
  <2>1. s \in Busy /\ s.req = r /\ s.step = "recorded" /\ seat' = [seat EXCEPT ![w] = s]
    BY <1>1, <1>3 DEF Goto, TypeOK, Busy, Steps
  <2> HIDE DEF s
  <2>2. \A v \in Workers : seat'[v] = IF v = w THEN s ELSE seat[v]
    BY <2>1 DEF TypeOK
  <2>3. receipt' = [receipt EXCEPT ![r] = seat[w].verdict]
    BY <1>3
  <2>4. seat[w].verdict # None
    BY <1>1 DEF Answered
  <2>5. TypeOK'
    BY <1>1, <2>1, <2>3 DEF TypeOK, Busy
  <2>6. Grants'
    BY <1>3 DEF Grants
  <2>7. Published'
    BY <1>1, <1>3, <2>1, <2>2 DEF Published
  <2>8. OneStart'
    BY <1>3, <2>1, <2>2 DEF OneStart
  <2>9. Answered'
    BY <1>1, <1>3, <2>1, <2>2, <2>3, <2>4 DEF Answered, AcknowledgedIsAnswered, TypeOK
  <2> QED
    BY <2>5, <2>6, <2>7, <2>8, <2>9
<1> QED
  BY <1>2, <1>3

LEMMA CloseInv ==
  ASSUME IInv, NEW w \in Workers, Close(w)
  PROVE  IInv'
<1> USE DEF IInv, Close, At, asked, issued, Leave, Acknowledge
<1> DEFINE r == seat[w].req
<1>1. seat[w] \in Busy /\ r \in Requests /\ intent[r] # None
  BY SeatTyped DEF Published
<1>2. \A v \in Workers : seat'[v] = IF v = w THEN Idle ELSE seat[v]
  BY DEF TypeOK
<1>3. receipt[r] # None /\ message' = [message EXCEPT ![r] = "acknowledged"]
  BY DEF Answered
<1>4. TypeOK'
  BY DEF TypeOK
<1>5. Grants'
  BY DEF Grants
<1>6. Published'
  BY <1>1, <1>2, <1>3 DEF Published, TypeOK, Idle
<1>7. OneStart'
  BY <1>2 DEF OneStart, Idle
<1>8. Answered'
  BY <1>1, <1>2, <1>3 DEF Answered, AcknowledgedIsAnswered, TypeOK, Idle
<1> QED
  BY <1>4, <1>5, <1>6, <1>7, <1>8

LEMMA TickInv ==
  ASSUME IInv, Tick
  PROVE  IInv'
<1> USE DEF IInv, Tick, asked, At
<1>1. TypeOK'
  BY DEF TypeOK
<1>2. Grants' /\ Published' /\ OneStart' /\ Answered'
  BY DEF Grants, Published, OneStart, Answered, AcknowledgedIsAnswered
<1> QED
  BY <1>1, <1>2
-----------------------------------------------------------------------------
LEMMA StepIInv == IInv /\ [Next]_vars => IInv'
<1> SUFFICES ASSUME IInv, [Next]_vars
             PROVE  IInv'
  OBVIOUS
<1>1. ASSUME NEW r \in Requests, RequestStep(r)
      PROVE  IInv'
  BY <1>1, RequestInv
<1>2. ASSUME NEW d \in Dispatchers, DispatchStep(d)
      PROVE  IInv'
  BY <1>2, DispatchInv
<1>3. ASSUME NEW w \in Workers, WorkerStep(w)
      PROVE  IInv'
  BY <1>3, SoloStep, LookInv, ConsumeInv, RunInv, ReportInv, CloseInv
     DEF WorkerStep, Proceed
<1>4. CASE Tick
  BY <1>4, TickInv
<1>5. CASE UNCHANGED vars
  BY <1>5 DEF vars, asked, issued, IInv, TypeOK, Grants, Published, OneStart, Answered,
              AcknowledgedIsAnswered, At
<1> QED
  BY <1>1, <1>2, <1>3, <1>4, <1>5 DEF Next

LEMMA AlwaysIInv == Spec => []IInv
  BY InitIInv, StepIInv, PTL DEF Spec

(* Every reachable state is well typed.                                    *)
THEOREM TypeCorrect == Spec => []TypeOK
<1>1. IInv => TypeOK
  BY DEF IInv
<1> QED
  BY AlwaysIInv, <1>1, PTL

(* The handler of a request is started at most once, for any number of     *)
(* dispatches, workers and crashes.                                        *)
THEOREM HandlersRunOnce == Spec => []HandlerAtMostOnce
<1>1. IInv => HandlerAtMostOnce
  BY DEF IInv, OneStart, HandlerAtMostOnce
<1> QED
  BY AlwaysIInv, <1>1, PTL

(* What needs an approval is carried out only after it had one.            *)
THEOREM RunsWereApproved == Spec => []ApprovedBeforeRun
<1>1. IInv => ApprovedBeforeRun
  BY DEF IInv, TypeOK, OneStart, Grants, ApprovedBeforeRun
<1> QED
  BY AlwaysIInv, <1>1, PTL

(* An acknowledged message has been answered by a receipt.                 *)
THEOREM AcknowledgedAnswered == Spec => []AcknowledgedIsAnswered
<1>1. IInv => AcknowledgedIsAnswered
  BY DEF IInv, Answered
<1> QED
  BY AlwaysIInv, <1>1, PTL
=============================================================================
