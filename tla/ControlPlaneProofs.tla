------------------------- MODULE ControlPlaneProofs -------------------------
(***************************************************************************)
(* Safety of the request ledgers, for any number of requests, tasks and    *)
(* machines.  The invariant adds to the properties what they rest on: how  *)
(* far the client of an operator request has come, and that the task made  *)
(* for a peer request is the one it is linked to.                          *)
(***************************************************************************)
EXTENDS ControlPlane, TLAPS

(* An operator request is linked to tasks only by the client's last step,  *)
(* only to tasks that exist, and moves on only when it is linked.          *)
OpShape ==
  \A r \in Operator :
    /\ client[r] = "tasked" => opMade[r] \in Tasks /\ stage[opMade[r]] # "absent"
    /\ client[r] # "answered" => opTasks[r] = {}
    /\ \A t \in opTasks[r] : stage[t] # "absent"
    /\ opTasks[r] = {} => opStatus[r] \in {"absent", "queued"}

(* A peer request is linked to a task that exists, and a task made for a   *)
(* request is the one the request is linked to.                            *)
PrShape ==
  /\ \A p \in Peer :
       /\ prStatus[p] = "absent" => prTask[p] = None
       /\ prTask[p] # None => stage[prTask[p]] # "absent"
  /\ \A t \in Tasks : madeFor[t] # None => prTask[madeFor[t]] = t

(* A task that is worked on, or done, names the machine that claimed it;   *)
(* only done tasks are reported on.                                        *)
QueueShape ==
  /\ \A t \in Tasks : stage[t] \in {"working", "done"} => holder[t] # None
  /\ \A t \in reporting : stage[t] = "done"

IInv == TypeOK /\ QueueShape /\ OpShape /\ PrShape /\ OperatorTellsTruth /\ AnsweredByRight
-----------------------------------------------------------------------------
LEMMA InitIInv == Init => IInv
  BY ControlAssumption
  DEF Init, IInv, TypeOK, QueueShape, OpShape, PrShape, OperatorTellsTruth, AnsweredByRight

(* What every step keeps of the queue: tasks do not disappear, and what is *)
(* settled stays so, in the hands of the machine that settled it.          *)
Lasts ==
  \A t \in Tasks :
    /\ stage[t] # "absent" => stage'[t] # "absent"
    /\ Settled(t) => stage'[t] = stage[t] /\ holder'[t] = holder[t]

LEMMA OpFrame ==
  ASSUME IInv, Lasts, UNCHANGED opVars
  PROVE  OpShape' /\ OperatorTellsTruth'
  <1> USE DEF IInv, TypeOK, Lasts, Settled, opVars
  <1>1. OpShape'
    BY DEF OpShape
  <1>2. OperatorTellsTruth'
    BY DEF OperatorTellsTruth
  <1> QED
    BY <1>1, <1>2

LEMMA PrFrame ==
  ASSUME IInv, Lasts, UNCHANGED <<prVars, madeFor>>
  PROVE  PrShape' /\ AnsweredByRight'
  <1> USE DEF IInv, TypeOK, Lasts, Settled, prVars
  <1>1. PrShape'
    BY DEF PrShape
  <1>2. AnsweredByRight'
    BY DEF AnsweredByRight
  <1> QED
    BY <1>1, <1>2

(* An answer by a machine that may give it.                                *)
LEMMA AnswerFrame ==
  ASSUME IInv, NEW p \in Peer, NEW m \in Machines, NEW s,
         MayAnswer(p, m), Answer(p, m, s), s # "absent",
         UNCHANGED <<taskVars, prTask>>
  PROVE  PrShape' /\ AnsweredByRight'
  <1> USE DEF IInv, TypeOK, Answer, taskVars
  <1>1. PrShape'
    BY DEF PrShape
  <1>2. AnsweredByRight'
    BY DEF AnsweredByRight, MayAnswer
  <1> QED
    BY <1>1, <1>2
-----------------------------------------------------------------------------
LEMMA OperatorSteps ==
  ASSUME IInv, NEW r \in Operator, OperatorStep(r)
  PROVE  IInv'
  <1> USE ControlAssumption DEF IInv
  <1>1. ASSUME OpInsert(r) PROVE IInv'
    <2>1. Lasts
      BY <1>1 DEF OpInsert, Lasts, taskVars
    <2>2. TypeOK' /\ QueueShape'
      BY <1>1 DEF QueueShape, OpInsert, TypeOK, taskVars, prVars
    <2>3. OpShape' /\ OperatorTellsTruth'
      BY <1>1 DEF OpInsert, TypeOK, taskVars, OpShape, OperatorTellsTruth, Settled
    <2>4. PrShape' /\ AnsweredByRight'
      BY <1>1, <2>1, PrFrame DEF OpInsert, taskVars, prVars
    <2> QED
      BY <2>2, <2>3, <2>4
  <1>2. ASSUME NEW t \in Tasks, NEW m \in Machines, OpCreateTask(r, t, m) PROVE IInv'
    <2>1. Lasts
      BY <1>2 DEF OpCreateTask, Lasts, Settled, TypeOK
    <2>2. TypeOK' /\ QueueShape'
      BY <1>2 DEF QueueShape, OpCreateTask, TypeOK, prVars
    <2>3. OpShape'
      BY <1>2 DEF OpCreateTask, TypeOK, OpShape
    <2>4. OperatorTellsTruth'
      BY <1>2, <2>1 DEF OpCreateTask, TypeOK, OperatorTellsTruth, Settled, Lasts
    <2>5. PrShape' /\ AnsweredByRight'
      BY <1>2, <2>1, PrFrame DEF OpCreateTask, prVars
    <2> QED
      BY <2>2, <2>3, <2>4, <2>5
  <1>3. ASSUME OpLink(r) PROVE IInv'
    <2>1. Lasts
      BY <1>3 DEF OpLink, Lasts, taskVars
    <2>2. TypeOK' /\ QueueShape'
      BY <1>3 DEF QueueShape, OpLink, TypeOK, OpShape, taskVars, prVars
    <2>3. OpShape' /\ OperatorTellsTruth'
      BY <1>3 DEF OpLink, TypeOK, taskVars, OpShape, OperatorTellsTruth, Settled
    <2>4. PrShape' /\ AnsweredByRight'
      BY <1>3, <2>1, PrFrame DEF OpLink, taskVars, prVars
    <2> QED
      BY <2>2, <2>3, <2>4
  <1>4. ASSUME OpCrash(r) PROVE IInv'
    <2>1. Lasts
      BY <1>4 DEF OpCrash, Lasts, taskVars
    <2>2. TypeOK' /\ QueueShape'
      BY <1>4 DEF QueueShape, OpCrash, TypeOK, taskVars, prVars
    <2>3. OpShape' /\ OperatorTellsTruth'
      BY <1>4 DEF OpCrash, TypeOK, taskVars, OpShape, OperatorTellsTruth, Settled
    <2>4. PrShape' /\ AnsweredByRight'
      BY <1>4, <2>1, PrFrame DEF OpCrash, taskVars, prVars
    <2> QED
      BY <2>2, <2>3, <2>4
  <1> QED
    BY <1>1, <1>2, <1>3, <1>4 DEF OperatorStep

LEMMA PeerSteps ==
  ASSUME IInv, NEW p \in Peer, PeerStep(p)
  PROVE  IInv'
  <1> USE ControlAssumption DEF IInv
  <1>1. ASSUME NEW t \in Tasks \cup {None}, PeerInsert(p, t) PROVE IInv'
    <2>1. Lasts
      BY <1>1 DEF PeerInsert, Lasts
    <2>2. TypeOK' /\ QueueShape'
      BY <1>1 DEF QueueShape, PeerInsert, TypeOK, opVars
    <2>3. OpShape' /\ OperatorTellsTruth'
      BY <1>1, <2>1, OpFrame DEF PeerInsert
    <2>4. PrShape'
      BY <1>1 DEF PeerInsert, PrShape, TypeOK
    <2>5. AnsweredByRight'
      BY <1>1 DEF PeerInsert, PrShape, TypeOK, AnsweredByRight
    <2> QED
      BY <2>2, <2>3, <2>4, <2>5
  <1>2. ASSUME NEW m \in Machines,
               NEW s \in {"in_progress", "fulfilled", "needs_clarification", "rejected"},
               Respond(p, m, s)
        PROVE  IInv'
    <2>1. Lasts
      BY <1>2 DEF Respond, Lasts, taskVars
    <2>2. TypeOK' /\ QueueShape'
      BY <1>2 DEF QueueShape, Respond, Answer, TypeOK, taskVars, opVars
    <2>3. OpShape' /\ OperatorTellsTruth'
      BY <1>2, <2>1, OpFrame DEF Respond
    <2>4. PrShape' /\ AnsweredByRight'
      BY <1>2, AnswerFrame DEF Respond
    <2> QED
      BY <2>2, <2>3, <2>4
  <1> QED
    BY <1>1, <1>2 DEF PeerStep

LEMMA QueueSteps ==
  ASSUME IInv, NEW t \in Tasks, QueueStep(t)
  PROVE  IInv'
  <1> USE ControlAssumption DEF IInv
  <1>1. ASSUME Start(t) \/ Return(t) \/ Finish(t) \/ \E m \in Machines : Move(t, m)
        PROVE  IInv'
    <2>1. Lasts
      BY <1>1 DEF Start, Return, Finish, Move, Lasts, Settled, TypeOK
    <2>2. TypeOK' /\ QueueShape'
      BY <1>1 DEF QueueShape, Start, Return, Finish, Move, TypeOK, opVars, prVars
    <2>3. OpShape' /\ OperatorTellsTruth'
      BY <1>1, <2>1, OpFrame DEF Start, Return, Finish, Move
    <2>4. PrShape' /\ AnsweredByRight'
      BY <1>1, <2>1, PrFrame DEF Start, Return, Finish, Move
    <2> QED
      BY <2>2, <2>3, <2>4
  <1>2. ASSUME Report(t) \/ ReportLost(t) PROVE IInv'
    <2>1. Lasts
      BY <1>2 DEF Report, ReportLost, Lasts, taskVars
    <2>2. OpShape' /\ OperatorTellsTruth'
      BY <1>2, <2>1, OpFrame DEF Report, ReportLost
    <2>3. CASE told[t] # None /\ MayAnswer(told[t], holder[t]) /\ Report(t)
      <3>1. told[t] \in Peer /\ holder[t] \in Machines
        BY <1>2, <2>3 DEF TypeOK, QueueShape, Report, ReportLost
      <3>2. TypeOK' /\ QueueShape'
        BY <2>3, <3>1 DEF QueueShape, Report, Answer, TypeOK, taskVars, opVars
      <3>3. PrShape' /\ AnsweredByRight'
        BY <2>3, <3>1, AnswerFrame DEF Report
      <3> QED
        BY <2>2, <3>2, <3>3
    <2>4. CASE ~(told[t] # None /\ MayAnswer(told[t], holder[t]) /\ Report(t))
      <3>1. UNCHANGED <<taskVars, opVars, prVars>> /\ reporting' \subseteq reporting
        BY <1>2, <2>4 DEF Report, ReportLost, prVars
      <3>2. TypeOK' /\ QueueShape'
        BY <3>1 DEF QueueShape, TypeOK, taskVars, opVars, prVars
      <3>3. PrShape' /\ AnsweredByRight'
        BY <2>1, <3>1, PrFrame DEF taskVars
      <3> QED
        BY <2>2, <3>2, <3>3
    <2> QED
      BY <2>3, <2>4
  <1> QED
    BY <1>1, <1>2 DEF QueueStep
-----------------------------------------------------------------------------
(* What a sweep does to the tasks: absent ones may start to wait, each for *)
(* the one request it was made for; the others are not touched.            *)
LEMMA MaterializeEffect ==
  ASSUME TypeOK, NEW ops, NEW peers, NEW new \in SUBSET Peer,
         NEW made \in [new -> Tasks], Reconcile(ops, peers, made)
  PROVE  /\ \A t \in Tasks : (\A p \in new : made[p] # t)
              => stage'[t] = stage[t] /\ exec'[t] = exec[t]
                 /\ peerOf'[t] = peerOf[t] /\ madeFor'[t] = madeFor[t]
         /\ \A p \in new : /\ stage[made[p]] = "absent" /\ stage'[made[p]] = "waiting"
                            /\ exec'[made[p]] = To[p]
                            /\ peerOf'[made[p]] = p /\ madeFor'[made[p]] = p
         /\ holder' = holder /\ told' = told
  <1> DEFINE for(t) == {p \in DOMAIN made : made[p] = t}
             fresh == {t \in Tasks : for(t) # {}}
             peer(t) == CHOOSE p \in for(t) : TRUE
  <1>1. Materialize(made)
    BY DEF Reconcile
  <1>2. ASSUME NEW p \in new PROVE made[p] \in fresh /\ peer(made[p]) = p
    <2>1. p \in for(made[p])
      OBVIOUS
    <2>2. peer(made[p]) \in for(made[p])
      BY <2>1
    <2>3. \A q \in new : made[q] = made[p] => q = p
      BY DEF Reconcile, IsInjective
    <2> QED
      BY <2>1, <2>2, <2>3
  <1>3. \A t \in Tasks : (\A p \in new : made[p] # t) => t \notin fresh
    OBVIOUS
  <1>4. /\ stage' = [t \in Tasks |-> IF t \in fresh THEN "waiting" ELSE stage[t]]
        /\ exec' = [t \in Tasks |-> IF t \in fresh THEN To[peer(t)] ELSE exec[t]]
        /\ peerOf' = [t \in Tasks |-> IF t \in fresh THEN peer(t) ELSE peerOf[t]]
        /\ madeFor' = [t \in Tasks |-> IF t \in fresh THEN peer(t) ELSE madeFor[t]]
        /\ holder' = holder /\ told' = told
    BY <1>1 DEF Materialize
  <1>5. \A p \in new : stage[made[p]] = "absent"
    BY DEF Reconcile
  <1> HIDE DEF for, fresh, peer
  <1> QED
    BY <1>2, <1>3, <1>4, <1>5

LEMMA ReconcileStep ==
  ASSUME IInv, NEW ops \in SUBSET Operator, NEW peers \in SUBSET Peer,
         NEW new \in SUBSET peers, NEW made \in [new -> Tasks],
         Reconcile(ops, peers, made)
  PROVE  IInv'
  <1> USE ControlAssumption DEF IInv
  <1>1. new \in SUBSET Peer
    OBVIOUS
  <1>2. /\ \A t \in Tasks : (\A p \in new : made[p] # t)
             => stage'[t] = stage[t] /\ exec'[t] = exec[t]
                /\ peerOf'[t] = peerOf[t] /\ madeFor'[t] = madeFor[t]
        /\ \A p \in new : /\ stage[made[p]] = "absent" /\ stage'[made[p]] = "waiting"
                           /\ exec'[made[p]] = To[p]
                           /\ peerOf'[made[p]] = p /\ madeFor'[made[p]] = p
        /\ holder' = holder /\ told' = told
    BY <1>1, MaterializeEffect
  <1>3. Lasts
    BY <1>2 DEF Lasts, Settled
  <1>4. /\ DOMAIN stage' = Tasks /\ stage' = [t \in Tasks |-> stage'[t]]
        /\ exec' = [t \in Tasks |-> exec'[t]]
        /\ peerOf' = [t \in Tasks |-> peerOf'[t]]
        /\ madeFor' = [t \in Tasks |-> madeFor'[t]]
    BY DEF Reconcile, Materialize
  <1>5. ASSUME NEW t \in Tasks
        PROVE  /\ stage'[t] \in {"absent", "waiting", "working", "done", "dead"}
               /\ exec'[t] \in Machines
               /\ peerOf'[t] \in Peer \cup {None}
               /\ madeFor'[t] \in Peer \cup {None}
    BY <1>1, <1>2 DEF TypeOK
  <1>6. SyncPeer(peers, made) /\ SyncOperator(ops)
    BY DEF Reconcile
  <1>7. /\ \A p \in new : prTask[p] = None /\ prTask'[p] = made[p]
        /\ \A p \in Peer \ new : prTask'[p] = prTask[p]
        /\ prTask' \in [Peer -> Tasks \cup {None}]
    BY <1>1, <1>6 DEF SyncPeer, Linked, Reconcile, NeedsTask, TypeOK
  <1>8. TypeOK'
    <2>1. opStatus' \in [Operator -> {"absent", "queued", "running", "completed", "failed"}]
      BY <1>6 DEF SyncOperator, Derive, TypeOK
    <2>2. prStatus' \in [Peer -> {"absent", "requested", "in_progress", "fulfilled",
                                  "needs_clarification", "rejected"}]
      BY <1>6 DEF SyncPeer, PeerStatus, TypeOK
    <2>3. responder' \in [Peer -> Machines \cup {None}]
      BY <1>6 DEF SyncPeer, TypeOK
    <2>4. UNCHANGED <<client, opMade, opTasks, reporting, holder, told>>
      BY <1>2 DEF Reconcile
    <2>5. /\ stage' \in [Tasks -> {"absent", "waiting", "working", "done", "dead"}]
          /\ exec' \in [Tasks -> Machines]
          /\ peerOf' \in [Tasks -> Peer \cup {None}]
          /\ madeFor' \in [Tasks -> Peer \cup {None}]
      BY <1>4, <1>5
    <2> QED
      BY <1>7, <2>1, <2>2, <2>3, <2>4, <2>5 DEF TypeOK
  <1>9. OpShape'
    BY <1>3, <1>6 DEF SyncOperator, Reconcile, OpShape, Lasts, TypeOK
  <1>10. OperatorTellsTruth'
    <2> SUFFICES ASSUME NEW r \in Operator
                 PROVE  /\ opStatus'[r] = "completed"
                             => opTasks[r] # {} /\ \A t \in opTasks[r] : stage'[t] = "done"
                        /\ opStatus'[r] = "failed"
                             => /\ \A t \in opTasks[r] : stage'[t] \in {"done", "dead"}
                                /\ \E t \in opTasks[r] : stage'[t] = "dead"
      BY DEF OperatorTellsTruth, Reconcile, Settled
    <2>1. opTasks[r] \subseteq Tasks
      BY DEF TypeOK
    <2>2. CASE r \in ops /\ opTasks[r] # {}
      <3>1. opStatus'[r] = Derive({stage[t] : t \in opTasks[r]})
        BY <1>6, <2>2 DEF SyncOperator
      <3>2. opStatus'[r] = "completed" => \A t \in opTasks[r] : stage[t] = "done"
        BY <3>1 DEF Derive
      <3>3. opStatus'[r] = "failed"
              => /\ \A t \in opTasks[r] : stage[t] \in {"done", "dead"}
                 /\ \E t \in opTasks[r] : stage[t] = "dead"
        BY <3>1 DEF Derive
      <3> QED
        BY <1>3, <2>1, <2>2, <3>2, <3>3 DEF Lasts, Settled
    <2>3. CASE ~(r \in ops /\ opTasks[r] # {})
      <3>1. opStatus'[r] = opStatus[r]
        BY <1>6, <2>3 DEF SyncOperator
      <3> QED
        BY <1>3, <2>1, <3>1 DEF OperatorTellsTruth, Lasts, Settled
    <2> QED
      BY <2>2, <2>3
  <1>11. PrShape'
    <2>1. \A p \in Peer : prStatus'[p] = "absent" => prTask'[p] = None
      BY <1>6, <1>7 DEF SyncPeer, PeerStatus, PrShape, Reconcile, OpenPeer, TypeOK
    <2>2. \A p \in Peer : prTask'[p] # None => stage'[prTask'[p]] # "absent"
      BY <1>2, <1>3, <1>7 DEF PrShape, Lasts, TypeOK
    <2>3. \A t \in Tasks : madeFor'[t] # None => prTask'[madeFor'[t]] = t
      BY <1>1, <1>2, <1>7 DEF PrShape, TypeOK
    <2> QED
      BY <2>1, <2>2, <2>3 DEF PrShape
  <1>12. AnsweredByRight'
    <2>1. \A p \in Peer : responder'[p] = To[p] \/ responder'[p] = responder[p]
      BY <1>6 DEF SyncPeer, TypeOK
    <2> QED
      BY <1>2, <1>3, <1>7, <2>1 DEF AnsweredByRight, Lasts, Settled, TypeOK
  <1>13. QueueShape'
    BY <1>2, <1>3 DEF QueueShape, Reconcile, Lasts, Settled, TypeOK
  <1> QED
    BY <1>8, <1>9, <1>10, <1>11, <1>12, <1>13

LEMMA NextIInv == IInv /\ [Next]_vars => IInv'
  <1> SUFFICES ASSUME IInv, [Next]_vars PROVE IInv'
    OBVIOUS
  <1>1. CASE UNCHANGED vars
    BY <1>1 DEF vars, taskVars, opVars, prVars, IInv, TypeOK, QueueShape, OpShape, PrShape,
                OperatorTellsTruth, AnsweredByRight, Settled
  <1>2. CASE SomeReconcile
    BY <1>2, ReconcileStep DEF SomeReconcile
  <1> QED
    BY <1>1, <1>2, OperatorSteps, PeerSteps, QueueSteps DEF Next

LEMMA SpecIInv == Spec => []IInv
  BY InitIInv, NextIInv, PTL DEF Spec
-----------------------------------------------------------------------------
(* Type correctness of the ledgers and of the tasks they refer to.         *)
THEOREM TypeCorrect == Spec => []TypeOK
  BY SpecIInv, PTL DEF IInv

(* An operator request says completed, or failed, only when its tasks are. *)
THEOREM OperatorsToldTruth == Spec => []OperatorTellsTruth
  BY SpecIInv, PTL DEF IInv

(* No peer request is worked through twice by tasks made for it: each task *)
(* made for a request is the one its row links, and rows are linked once.  *)
THEOREM PeersGetOneTask == Spec => []OneTaskPerPeer
  <1>1. IInv => OneTaskPerPeer
    BY DEF IInv, PrShape, OneTaskPerPeer
  <1> QED
    BY <1>1, SpecIInv, PTL

(* The machine on record as having answered had the right to answer, and   *)
(* the record stays true while tasks move and are claimed again.           *)
THEOREM AnswersByRight == Spec => []AnsweredByRight
  BY SpecIInv, PTL DEF IInv

(* No step puts an answered peer request back to waiting or links it to    *)
(* another task: sweeps only look at open rows, and answers never say      *)
(* "requested".                                                            *)
THEOREM AnswersNotUndone == Spec => AnswersStand
  <1> DEFINE Stands == \A p \in Peer :
               prStatus[p] \in {"fulfilled", "rejected", "needs_clarification"}
                 => prStatus'[p] # "requested" /\ prTask'[p] = prTask[p]
  <1>1. IInv /\ [Next]_vars => [Stands]_vars
    <2> SUFFICES ASSUME IInv, Next, NEW p \in Peer,
                        prStatus[p] \in {"fulfilled", "rejected", "needs_clarification"}
                 PROVE  prStatus'[p] # "requested" /\ prTask'[p] = prTask[p]
      OBVIOUS
    <2> USE DEF IInv, TypeOK
    <2>1. ASSUME NEW r \in Operator, OperatorStep(r)
          PROVE  prStatus'[p] # "requested" /\ prTask'[p] = prTask[p]
      BY <2>1 DEF OperatorStep, OpInsert, OpCreateTask, OpLink, OpCrash, prVars
    <2>2. ASSUME NEW q \in Peer, PeerStep(q)
          PROVE  prStatus'[p] # "requested" /\ prTask'[p] = prTask[p]
      BY <2>2 DEF PeerStep, PeerInsert, Respond, Answer
    <2>3. ASSUME NEW t \in Tasks, QueueStep(t)
          PROVE  prStatus'[p] # "requested" /\ prTask'[p] = prTask[p]
      BY <2>3 DEF QueueStep, Start, Return, Finish, Move, Report, ReportLost, Answer, prVars
    <2>4. CASE SomeReconcile
      BY <2>4 DEF SomeReconcile, Reconcile, SyncPeer, Linked, OpenPeer
    <2> QED
      BY <2>1, <2>2, <2>3, <2>4 DEF Next
  <1> QED
    BY <1>1, SpecIInv, PTL DEF Spec, AnswersStand
=============================================================================
