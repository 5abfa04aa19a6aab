----------------------------- MODULE ModelQuery -----------------------------
(***************************************************************************)
(* Questions put to external models through the API: the handlers of       *)
(* /models/query and its cancellation with their registry (api.py), the    *)
(* router that turns the answers into a packet, tasks or an approval       *)
(* (model_router.py), and the round of providers (model_workflows.py,      *)
(* integrations.py).                                                       *)
(*                                                                         *)
(* A query is an asyncio task of the API process.  It gives up the event   *)
(* loop only while it awaits a provider; between two awaits it blocks the  *)
(* loop with calls to the database, each of which commits by itself.  So   *)
(* `loop` names the query that runs, and only the end of the process or an *)
(* error comes between its calls.                                          *)
(***************************************************************************)
EXTENDS Naturals, FiniteSets

CONSTANTS
  Calls,       \* calls of the handler
  Ids,         \* request ids that callers choose
  Nil,         \* no id, no call
  IdOf,        \* the request_id of a call, or Nil
  Device,      \* calls of a device principal
  Chat,        \* those whose interaction is pet_chat
  AutoTasks,   \* those with auto_create_tasks
  Asked,       \* those with require_approval = True
  Waived,      \* those with require_approval = False
  Providers,   \* how many providers a query asks in turn
  Lanes        \* how many tasks create_chat_task_intake creates for a query

ASSUME QueryAssumption ==
  /\ IdOf \in [Calls -> Ids \cup {Nil}] /\ Nil \notin Ids \cup Calls
  /\ {Device, Chat, AutoTasks, Asked, Waived} \subseteq SUBSET Calls
  /\ Asked \cap Waived = {}
  /\ Providers \in Nat \ {0} /\ Lanes \in Nat \ {0}

VARIABLES
  state,      \* where the query of a call is
  next,       \* the provider it asks, or asks next
  loop,       \* the query that runs on the event loop
  registry,   \* _model_query_tasks
  stopping,   \* queries whose cancellation was requested
  open,       \* queries with an integration run that was not finished
  tasks,      \* how many tasks a query created
  approval,   \* queries that asked for an approval
  packet      \* model_solution_packets.status

queryRows == <<open, tasks, approval, packet>>
queryVars == <<state, next, loop, registry, stopping, queryRows>>

Busy  == {"dispatching", "answered", "deciding", "asking", "recording"}
Ended == {"done", "failed", "cancelled"}
Gone  == {"refused", "closed", "lost"}

QueryTypeOK ==
  /\ state \in [Calls -> {"new", "ready", "waiting"} \cup Busy \cup Ended \cup Gone]
  /\ next \in [Calls -> 1 .. Providers]
  /\ loop \in Calls \cup {Nil}
  /\ registry \in [Ids -> Calls \cup {Nil}]
  /\ stopping \subseteq Calls
  /\ open \subseteq Calls
  /\ tasks \in [Calls -> 0 .. Lanes]
  /\ approval \subseteq Calls
  /\ packet \in [Calls -> {"none", "pending_approval", "queued_for_execution", "recorded"}]

QueryInit ==
  /\ state = [q \in Calls |-> "new"]
  /\ next = [q \in Calls |-> 1]
  /\ loop = Nil
  /\ registry = [i \in Ids |-> Nil]
  /\ stopping = {}
  /\ open = {}
  /\ tasks = [q \in Calls |-> 0]
  /\ approval = {}
  /\ packet = [q \in Calls |-> "none"]
-----------------------------------------------------------------------------
(* The handlers of the API.                                                *)

Goto(q, s) == state' = [state EXCEPT ![q] = s]

(* The handler of a device refuses what asks for work or for an approval.  *)
Forbidden(q) == q \in Device /\ (q \in AutoTasks \/ q \in Asked)

(* Slip: the id is taken over from the query that has it.                  *)
HandleOver(q) ==
  /\ loop = Nil /\ state[q] = "new"
  /\ IF Forbidden(q)
     THEN Goto(q, "refused") /\ UNCHANGED registry
     ELSE /\ Goto(q, "ready")
          /\ registry' = IF IdOf[q] = Nil THEN registry
                         ELSE [registry EXCEPT ![IdOf[q]] = q]
  /\ UNCHANGED <<next, loop, stopping, queryRows>>

(* models_query, up to its await: a query whose id is taken is cancelled   *)
(* before it has begun.                                                    *)
Handle(q) ==
  /\ loop = Nil /\ state[q] = "new"
  /\ IF Forbidden(q) \/ (IdOf[q] # Nil /\ registry[IdOf[q]] # Nil)
     THEN Goto(q, "refused") /\ UNCHANGED registry
     ELSE /\ Goto(q, "ready")
          /\ registry' = IF IdOf[q] = Nil THEN registry
                         ELSE [registry EXCEPT ![IdOf[q]] = q]
  /\ UNCHANGED <<next, loop, stopping, queryRows>>

(* cancel_model_query, where the query is active.                          *)
Cancel(i) ==
  /\ loop = Nil /\ registry[i] # Nil
  /\ state[registry[i]] \in {"ready", "waiting"}
  /\ stopping' = stopping \cup {registry[i]}
  /\ UNCHANGED <<state, next, loop, registry, queryRows>>

(* Slip: the id is freed when there is a response, not in a finally clause.*)
RespondOnly(q) ==
  /\ loop = Nil /\ state[q] \in Ended
  /\ Goto(q, "closed")
  /\ registry' = [i \in Ids |-> IF registry[i] = q /\ state[q] = "done"
                                THEN Nil ELSE registry[i]]
  /\ UNCHANGED <<next, loop, stopping, queryRows>>

(* models_query, from the end of its query on.                             *)
Respond(q) ==
  /\ loop = Nil /\ state[q] \in Ended
  /\ Goto(q, "closed")
  /\ registry' = [i \in Ids |-> IF registry[i] = q THEN Nil ELSE registry[i]]
  /\ UNCHANGED <<next, loop, stopping, queryRows>>
-----------------------------------------------------------------------------
(* The query: submit_model_query.                                          *)

(* It announces itself and turns to the first provider.                    *)
Start(q) ==
  /\ loop = Nil /\ state[q] = "ready" /\ q \notin stopping
  /\ Goto(q, "dispatching") /\ loop' = q
  /\ UNCHANGED <<next, registry, stopping, queryRows>>

(* dispatch_to_provider, up to its await: a run is recorded.  Without a    *)
(* key there is nothing to wait for, and the run is finished as failed.    *)
DispatchTo(q, configured) ==
  /\ state[q] = "dispatching"
  /\ IF configured
     THEN /\ Goto(q, "waiting") /\ loop' = Nil
          /\ open' = open \cup {q}
     ELSE Goto(q, "answered") /\ UNCHANGED <<loop, open>>
  /\ UNCHANGED <<next, registry, stopping, tasks, approval, packet>>

(* Slip: a cancellation is taken for a failure of the provider.            *)
ReplySwallowed(q) ==
  /\ loop = Nil /\ state[q] = "waiting"
  /\ Goto(q, "answered") /\ loop' = q
  /\ open' = open \ {q}
  /\ UNCHANGED <<next, registry, stopping, tasks, approval, packet>>

(* The provider answers, fails, or runs into the time-out: the run is      *)
(* finished as completed or failed, and the result noted.                  *)
Reply(q) ==
  /\ loop = Nil /\ state[q] = "waiting" /\ q \notin stopping
  /\ Goto(q, "answered") /\ loop' = q
  /\ open' = open \ {q}
  /\ UNCHANGED <<next, registry, stopping, tasks, approval, packet>>

(* run_external_model_workflow: the next provider, or the end of the round.*)
Continue(q) ==
  /\ state[q] = "answered"
  /\ IF next[q] < Providers
     THEN next' = [next EXCEPT ![q] = @ + 1] /\ Goto(q, "dispatching")
     ELSE Goto(q, "deciding") /\ UNCHANGED next
  /\ UNCHANGED <<loop, registry, stopping, queryRows>>

(* needs_approval: as the caller says, or by the risk of what was asked    *)
(* and answered.                                                           *)
NeedsApproval(q, risky) == q \in Asked \/ (q \notin Waived /\ risky)

(* Slip: tasks are created whether or not an approval is needed.           *)
DecideEagerly(q, risky) ==
  /\ state[q] = "deciding"
  /\ IF q \in AutoTasks \ Chat /\ tasks[q] < Lanes
     THEN tasks' = [tasks EXCEPT ![q] = @ + 1] /\ UNCHANGED state
     ELSE Goto(q, IF NeedsApproval(q, risky) THEN "asking" ELSE "recording") /\ UNCHANGED tasks
  /\ UNCHANGED <<next, loop, registry, stopping, open, approval, packet>>

(* What comes of the answers.  Tasks are created one by one, and nothing   *)
(* is asked for once the first one exists.                                 *)
Asks(q, risky) == NeedsApproval(q, risky) /\ tasks[q] = 0
Works(q) == q \in AutoTasks \ Chat /\ tasks[q] < Lanes

Decide(q, risky) ==
  /\ state[q] = "deciding"
  /\ \/ Asks(q, risky) /\ Goto(q, "asking") /\ UNCHANGED tasks
     \/ ~Asks(q, risky) /\ Works(q) /\ tasks' = [tasks EXCEPT ![q] = @ + 1] /\ UNCHANGED state
     \/ ~Asks(q, risky) /\ ~Works(q) /\ Goto(q, "recording") /\ UNCHANGED tasks
  /\ UNCHANGED <<next, loop, registry, stopping, open, approval, packet>>

(* create_approval_request.                                                *)
Ask(q) ==
  /\ state[q] = "asking"
  /\ approval' = approval \cup {q}
  /\ Goto(q, "recording")
  /\ UNCHANGED <<next, loop, registry, stopping, open, tasks, packet>>

(* _record_packet; the log, the note and the message follow, and the query *)
(* ends.                                                                   *)
Record(q) ==
  /\ state[q] = "recording"
  /\ packet' = [packet EXCEPT ![q] =
       IF q \in approval THEN "pending_approval"
       ELSE IF tasks[q] > 0 THEN "queued_for_execution" ELSE "recorded"]
  /\ Goto(q, "done") /\ loop' = Nil
  /\ UNCHANGED <<next, registry, stopping, open, tasks, approval>>

(* A call to the database raises.                                          *)
QueryRaises(q) ==
  /\ state[q] \in Busy
  /\ Goto(q, "failed") /\ loop' = Nil
  /\ UNCHANGED <<next, registry, stopping, queryRows>>

(* CancelledError is thrown into the query where it waits, or as it begins.*)
(* Nothing below catches it.                                               *)
Stop(q) ==
  /\ loop = Nil /\ q \in stopping /\ state[q] \in {"ready", "waiting"}
  /\ Goto(q, "cancelled")
  /\ UNCHANGED <<next, loop, registry, stopping, queryRows>>

(* The process ends and starts again: rows stay, queries do not.           *)
Restart ==
  /\ \E q \in Calls : state[q] \notin {"new"} \cup Gone
  /\ state' = [q \in Calls |-> IF state[q] \in {"new"} \cup Gone THEN state[q] ELSE "lost"]
  /\ loop' = Nil
  /\ registry' = [i \in Ids |-> Nil]
  /\ UNCHANGED <<next, stopping, queryRows>>

QueryStep(q) ==
  \/ Start(q) \/ Stop(q) \/ Reply(q) \/ Continue(q) \/ Ask(q) \/ Record(q) \/ Respond(q)
  \/ \E configured \in BOOLEAN : DispatchTo(q, configured)
  \/ \E risky \in BOOLEAN : Decide(q, risky)

QueryNext ==
  \/ \E q \in Calls : Handle(q) \/ QueryStep(q) \/ QueryRaises(q)
  \/ \E i \in Ids : Cancel(i)
  \/ Restart

(* The event loop runs what is ready, and every wait for a provider ends,  *)
(* by a time-out after a minute if nothing else.                           *)
QuerySpec ==
  QueryInit /\ [][QueryNext]_queryVars /\ \A q \in Calls : SF_queryVars(QueryStep(q))
-----------------------------------------------------------------------------
(* A query whose caller was told "stop_requested" leaves no task, no       *)
(* approval and no packet: not even when its provider had just answered,   *)
(* when the process ends, or when its id is used again.                    *)
StoppedLeavesNothing ==
  \A q \in stopping : tasks[q] = 0 /\ q \notin approval /\ packet[q] = "none"

(* No two queries with one id are under way, also when ids are reused while*)
(* a cancelled query winds up; what is cancelled by its id is the query    *)
(* its caller means.                                                       *)
Active(q) == state[q] \notin {"new"} \cup Gone

OneActivePerId ==
  \A p, q \in Calls :
    Active(p) /\ Active(q) /\ IdOf[p] = IdOf[q] /\ IdOf[p] # Nil => p = q

(* A packet says what became of its query: work was queued, or an approval *)
(* is to be given first, never both, and the providers' runs are finished. *)
PacketTruthful ==
  \A q \in Calls :
    /\ packet[q] = "pending_approval" => q \in approval
    /\ packet[q] = "queued_for_execution" => tasks[q] > 0
    /\ packet[q] = "recorded" => tasks[q] = 0 /\ q \notin approval
    /\ packet[q] # "none" => q \notin open
    /\ q \in approval => tasks[q] = 0

(* An id is free again some time, however its query ends.                  *)
IdIsFreed ==
  \A i \in Ids, q \in Calls : registry[i] = q ~> registry[i] # q
=============================================================================
