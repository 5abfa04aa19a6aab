---------------------------- MODULE ControlPlane ----------------------------
(***************************************************************************)
(* Two ledgers of requests kept beside the task queue: operator requests   *)
(* (operator_requests.py) and the requests machines make of each other     *)
(* (collaboration.py).  Each is worked through as a task; the steward      *)
(* reconciles both with their tasks (_reconcile_control_plane), and the    *)
(* worker that completed a task answers the peer request it was for        *)
(* (worker.py).  Tasks go through the stages TaskLedger allows.            *)
(***************************************************************************)
EXTENDS Integers, FiniteSets, Functions

CONSTANTS
  Tasks,      \* ids of table tasks
  Machines,   \* ids of table machines
  Operator,   \* rows of operator_requests
  Peer,       \* rows of peer_requests
  To,         \* peer_requests.to_machine_id
  None        \* null

ASSUME ControlAssumption ==
  /\ To \in [Peer -> Machines]
  /\ None \notin Tasks \cup Machines \cup Peer

VARIABLES
  stage,      \* tasks.status, as in TaskLedger
  exec,       \* tasks.execution_machine_id
  holder,     \* tasks.claimed_by_machine, which a completed task keeps
  peerOf,     \* tasks.metadata.peer_request_id
  madeFor,    \* the peer request named in the title of a task made for it
  told,       \* the peer_request_id the task had when it was last claimed
  client,     \* how far create_operator_request has come
  opStatus,   \* operator_requests.status
  opMade,     \* the task the client created, as the client knows it
  opTasks,    \* operator_requests.routed_task_ids
  prStatus,   \* peer_requests.status; "absent" before the insert
  prTask,     \* peer_requests.task_id
  responder,  \* peer_requests.responder_machine_id
  reporting   \* completed tasks whose worker has not answered for them yet

taskVars == <<stage, exec, holder, peerOf, madeFor, told>>
opVars   == <<client, opStatus, opMade, opTasks>>
prVars   == <<prStatus, prTask, responder>>
vars     == <<taskVars, opVars, prVars, reporting>>

TypeOK ==
  /\ stage \in [Tasks -> {"absent", "waiting", "working", "done", "dead"}]
  /\ exec \in [Tasks -> Machines]
  /\ holder \in [Tasks -> Machines \cup {None}]
  /\ peerOf \in [Tasks -> Peer \cup {None}]
  /\ madeFor \in [Tasks -> Peer \cup {None}]
  /\ told \in [Tasks -> Peer \cup {None}]
  /\ client \in [Operator -> {"idle", "inserted", "tasked", "answered", "gone"}]
  /\ opStatus \in [Operator -> {"absent", "queued", "running", "completed", "failed"}]
  /\ opMade \in [Operator -> Tasks \cup {None}]
  /\ opTasks \in [Operator -> SUBSET Tasks]
  /\ prStatus \in [Peer -> {"absent", "requested", "in_progress", "fulfilled",
                            "needs_clarification", "rejected"}]
  /\ prTask \in [Peer -> Tasks \cup {None}]
  /\ responder \in [Peer -> Machines \cup {None}]
  /\ reporting \subseteq Tasks

Init ==
  /\ stage = [t \in Tasks |-> "absent"]
  /\ exec \in [Tasks -> Machines]
  /\ holder = [t \in Tasks |-> None]
  /\ peerOf = [t \in Tasks |-> None]
  /\ madeFor = [t \in Tasks |-> None]
  /\ told = [t \in Tasks |-> None]
  /\ client = [r \in Operator |-> "idle"]
  /\ opStatus = [r \in Operator |-> "absent"]
  /\ opMade = [r \in Operator |-> None]
  /\ opTasks = [r \in Operator |-> {}]
  /\ prStatus = [p \in Peer |-> "absent"]
  /\ prTask = [p \in Peer |-> None]
  /\ responder = [p \in Peer |-> None]
  /\ reporting = {}

Settled(t) == stage[t] \in {"done", "dead"}
-----------------------------------------------------------------------------
(* create_operator_request: three transactions, and the process may fail   *)
(* between any two of them.                                                *)

OpInsert(r) ==
  /\ client[r] = "idle"
  /\ client' = [client EXCEPT ![r] = "inserted"]
  /\ opStatus' = [opStatus EXCEPT ![r] = "queued"]
  /\ UNCHANGED <<taskVars, opMade, opTasks, prVars, reporting>>

OpCreateTask(r, t, m) ==
  /\ client[r] = "inserted" /\ stage[t] = "absent"
  /\ stage' = [stage EXCEPT ![t] = "waiting"]
  /\ exec' = [exec EXCEPT ![t] = m]
  /\ client' = [client EXCEPT ![r] = "tasked"]
  /\ opMade' = [opMade EXCEPT ![r] = t]
  /\ UNCHANGED <<holder, peerOf, madeFor, told, opStatus, opTasks, prVars, reporting>>

(* Slip: the request is linked to whatever it has, a task or not.          *)
OpLinkEarly(r) ==
  /\ client[r] \in {"inserted", "tasked"}
  /\ client' = [client EXCEPT ![r] = "answered"]
  /\ opTasks' = [opTasks EXCEPT ![r] = {opMade[r]}]
  /\ UNCHANGED <<taskVars, opStatus, opMade, prVars, reporting>>

OpLink(r) ==
  /\ client[r] = "tasked"
  /\ client' = [client EXCEPT ![r] = "answered"]
  /\ opTasks' = [opTasks EXCEPT ![r] = {opMade[r]}]
  /\ UNCHANGED <<taskVars, opStatus, opMade, prVars, reporting>>

OpCrash(r) ==
  /\ client[r] \in {"inserted", "tasked"}
  /\ client' = [client EXCEPT ![r] = "gone"]
  /\ UNCHANGED <<taskVars, opStatus, opMade, opTasks, prVars, reporting>>
-----------------------------------------------------------------------------
(* create_peer_request: the caller may hand over a task that is assigned   *)
(* to the addressee, at any stage, and even one already handed over.       *)
PeerInsert(p, t) ==
  /\ prStatus[p] = "absent"
  /\ t # None => stage[t] # "absent" /\ exec[t] = To[p]
  /\ prStatus' = [prStatus EXCEPT ![p] = "requested"]
  /\ prTask' = [prTask EXCEPT ![p] = t]
  /\ peerOf' = [u \in Tasks |-> IF u = t THEN p ELSE peerOf[u]]
  /\ UNCHANGED <<stage, exec, holder, madeFor, told, opVars, responder, reporting>>

(* Slip: whoever answers is believed.                                      *)
MayAnswerAnyone(p, m) == TRUE

(* Who respond_to_peer_request takes an answer from.                       *)
MayAnswer(p, m) ==
  \/ m = To[p]
  \/ prTask[p] # None /\ stage[prTask[p]] = "done" /\ holder[prTask[p]] = m

Answer(p, m, s) ==
  /\ prStatus' = [prStatus EXCEPT ![p] = s]
  /\ responder' = [responder EXCEPT ![p] = m]

(* A machine answers by itself (the API); nothing asks what was answered   *)
(* before.                                                                 *)
Respond(p, m, s) ==
  /\ prStatus[p] # "absent" /\ MayAnswer(p, m)
  /\ Answer(p, m, s)
  /\ UNCHANGED <<taskVars, opVars, prTask, reporting>>
-----------------------------------------------------------------------------
(* The queue, as far as the ledgers see it.                                *)

Start(t) ==
  /\ stage[t] = "waiting"
  /\ stage' = [stage EXCEPT ![t] = "working"]
  /\ holder' = [holder EXCEPT ![t] = exec[t]]
  /\ told' = [told EXCEPT ![t] = peerOf[t]]
  /\ UNCHANGED <<exec, peerOf, madeFor, opVars, prVars, reporting>>

Return(t) ==
  /\ stage[t] = "working"
  /\ \E s \in {"waiting", "dead"} : stage' = [stage EXCEPT ![t] = s]
  /\ holder' = [holder EXCEPT ![t] = None]
  /\ UNCHANGED <<exec, peerOf, madeFor, told, opVars, prVars, reporting>>

Move(t, m) ==
  /\ stage[t] = "waiting"
  /\ exec' = [exec EXCEPT ![t] = m]
  /\ UNCHANGED <<stage, holder, peerOf, madeFor, told, opVars, prVars, reporting>>

Finish(t) ==
  /\ stage[t] = "working"
  /\ stage' = [stage EXCEPT ![t] = "done"]
  /\ reporting' = reporting \cup {t}
  /\ UNCHANGED <<exec, holder, peerOf, madeFor, told, opVars, prVars>>

(* _respond_to_linked_peer_request, with what the worker was told when it  *)
(* claimed the task: a refusal is logged and the worker goes on.           *)
Report(t) ==
  /\ t \in reporting
  /\ reporting' = reporting \ {t}
  /\ IF told[t] # None /\ MayAnswer(told[t], holder[t])
     THEN Answer(told[t], holder[t], "fulfilled")
     ELSE UNCHANGED <<prStatus, responder>>
  /\ UNCHANGED <<taskVars, opVars, prTask>>

(* The worker dies after complete_task and before the answer.              *)
ReportLost(t) ==
  /\ t \in reporting
  /\ reporting' = reporting \ {t}
  /\ UNCHANGED <<taskVars, opVars, prVars>>
-----------------------------------------------------------------------------
(* Slip: a request whose last task was given up is done with, too.         *)
DeriveSettled(states) ==
  IF states = {} THEN "queued"
  ELSE IF states \subseteq {"done", "dead"} THEN "completed"
  ELSE IF "working" \in states THEN "running"
  ELSE "queued"

(* derive_parent_status.                                                   *)
Derive(states) ==
  IF states = {} THEN "queued"
  ELSE IF states \subseteq {"done"} THEN "completed"
  ELSE IF states \subseteq {"done", "dead"} THEN "failed"
  ELSE IF "working" \in states THEN "running"
  ELSE "queued"

(* Slip: a task that was given up leaves its request waiting.              *)
PeerStatusOpen(s) ==
  CASE s = "done" -> "fulfilled" [] s = "working" -> "in_progress" [] OTHER -> "requested"

(* What the status of its task makes of a peer request.                    *)
PeerStatus(s) ==
  CASE s = "done" -> "fulfilled" [] s = "dead" -> "rejected"
    [] s = "working" -> "in_progress" [] OTHER -> "requested"

(* Slips: parents already running are not looked at again; an answer that  *)
(* asks for more, or turns the request down, counts as open.               *)
OpenOperatorQueued == {r \in Operator : opStatus[r] = "queued"}
OpenPeerUnfulfilled == {p \in Peer : prStatus[p] \notin {"absent", "fulfilled"}}

OpenOperator == {r \in Operator : opStatus[r] \in {"queued", "running"}}
OpenPeer == {p \in Peer : prStatus[p] \in {"requested", "in_progress"}}

(* Slip: a task that was given up is replaced.                             *)
NeedsTaskAgain(p) == prTask[p] = None \/ stage[prTask[p]] = "dead"

NeedsTask(p) == prTask[p] = None
Linked(made) == [p \in Peer |-> IF p \in DOMAIN made THEN made[p] ELSE prTask[p]]

SyncOperator(rows) ==
  opStatus' = [r \in Operator |->
                 IF r \in rows /\ opTasks[r] # {}
                 THEN Derive({stage[t] : t \in opTasks[r]}) ELSE opStatus[r]]

(* A request without a task gets one, if its machine has an active agent:  *)
(* made says which.  Then every request with a task follows the task.      *)
SyncPeer(rows, made) ==
  LET task == Linked(made)
      news == {p \in rows : task[p] # None /\ PeerStatus(stage'[task[p]]) # prStatus[p]}
  IN  /\ prTask' = task
      /\ prStatus' = [p \in Peer |-> IF p \in news THEN PeerStatus(stage'[task[p]])
                                     ELSE prStatus[p]]
      /\ responder' = [p \in Peer |->
                         IF p \in news /\ Settled(task[p]) THEN To[p] ELSE responder[p]]

Materialize(made) ==
  LET for(t) == {p \in DOMAIN made : made[p] = t}
      new == {t \in Tasks : for(t) # {}}
      peer(t) == CHOOSE p \in for(t) : TRUE
  IN  /\ stage' = [t \in Tasks |-> IF t \in new THEN "waiting" ELSE stage[t]]
      /\ exec' = [t \in Tasks |-> IF t \in new THEN To[peer(t)] ELSE exec[t]]
      /\ peerOf' = [t \in Tasks |-> IF t \in new THEN peer(t) ELSE peerOf[t]]
      /\ madeFor' = [t \in Tasks |-> IF t \in new THEN peer(t) ELSE madeFor[t]]
      /\ UNCHANGED <<holder, told>>

(* _reconcile_control_plane, inside the steward's transaction: rows locked *)
(* by another transaction, or beyond the sweep's limit, are left out.      *)
Reconcile(ops, peers, made) ==
  /\ ops \subseteq OpenOperator /\ peers \subseteq OpenPeer
  /\ DOMAIN made \subseteq {p \in peers : NeedsTask(p)}
  /\ IsInjective(made)
  /\ \A p \in DOMAIN made : stage[made[p]] = "absent"
  /\ Materialize(made)
  /\ SyncOperator(ops)
  /\ SyncPeer(peers, made)
  /\ UNCHANGED <<client, opMade, opTasks, reporting>>

SomeReconcile ==
  \E ops \in SUBSET Operator, peers \in SUBSET Peer :
    \E new \in SUBSET peers : \E made \in [new -> Tasks] : Reconcile(ops, peers, made)

FullReconcile ==
  \E new \in SUBSET OpenPeer : \E made \in [new -> Tasks] :
    Reconcile(OpenOperator, OpenPeer, made)

OperatorStep(r) ==
  \/ OpInsert(r) \/ OpLink(r) \/ OpCrash(r)
  \/ \E t \in Tasks, m \in Machines : OpCreateTask(r, t, m)

PeerStep(p) ==
  \/ \E t \in Tasks \cup {None} : PeerInsert(p, t)
  \/ \E m \in Machines, s \in {"in_progress", "fulfilled", "needs_clarification", "rejected"} :
       Respond(p, m, s)

QueueStep(t) ==
  \/ Start(t) \/ Return(t) \/ Finish(t) \/ Report(t) \/ ReportLost(t)
  \/ \E m \in Machines : Move(t, m)

Next ==
  \/ \E r \in Operator : OperatorStep(r)
  \/ \E p \in Peer : PeerStep(p)
  \/ \E t \in Tasks : QueueStep(t)
  \/ SomeReconcile

Spec == Init /\ [][Next]_vars

(* Sweeps go on for ever, and again and again one finds no row locked.     *)
FairSpec == Spec /\ WF_vars(FullReconcile)
-----------------------------------------------------------------------------
(* A finished operator request tells the truth about its tasks, for good:  *)
(* it is completed only when all of them are done, and failed only when    *)
(* all are settled and one was given up (derive_parent_status, and the     *)
(* tasks table, which never reopens a settled task).                       *)
OperatorTellsTruth ==
  \A r \in Operator :
    /\ opStatus[r] = "completed"
         => opTasks[r] # {} /\ \A t \in opTasks[r] : stage[t] = "done"
    /\ opStatus[r] = "failed"
         => /\ \A t \in opTasks[r] : Settled(t)
            /\ \E t \in opTasks[r] : stage[t] = "dead"

(* However sweeps, answers and crashes interleave, a peer request has at   *)
(* most one task made for it.                                              *)
OneTaskPerPeer ==
  \A t, u \in Tasks : madeFor[t] # None /\ madeFor[t] = madeFor[u] => t = u

(* The machine on record as having answered is the one addressed, or the   *)
(* one that completed the request's task after it was moved there.         *)
AnsweredByRight ==
  \A p \in Peer : responder[p] # None =>
    \/ responder[p] = To[p]
    \/ prTask[p] # None /\ stage[prTask[p]] = "done" /\ holder[prTask[p]] = responder[p]

(* Reconciling never undoes an answer: a request that was fulfilled,       *)
(* rejected or sent back for clarification is not put back to waiting and  *)
(* gets no new task.                                                       *)
AnswersStand ==
  [][\A p \in Peer :
       prStatus[p] \in {"fulfilled", "rejected", "needs_clarification"}
         => prStatus'[p] # "requested" /\ prTask'[p] = prTask[p]]_vars

(* A peer request does not stay open when its task has settled, even if    *)
(* the worker died before it could answer.                                 *)
PeerFollowsTask ==
  \A p \in Peer :
    []<>~(/\ prStatus[p] \in {"requested", "in_progress"}
          /\ prTask[p] # None /\ Settled(prTask[p]))

(* An operator request does not stay open when its tasks have settled.     *)
OperatorFollowsTasks ==
  \A r \in Operator :
    []<>~(/\ opStatus[r] \in {"queued", "running"}
          /\ opTasks[r] # {} /\ \A t \in opTasks[r] : Settled(t))
=============================================================================
