--------------------------- MODULE OperationScripts ---------------------------
(***************************************************************************)
(* The statements of the handlers that seed the operations ledger and that *)
(* pass messages between machines, as scripts for Transactions.  A loop    *)
(* over rows that are written alike is one statement, or two where the     *)
(* order of the rows matters; audit_logs rows, which nothing reads back,   *)
(* are left out, and so is what a row says.                                *)
(***************************************************************************)
EXTENDS Transactions

Tried(s) == [i \in DOMAIN s |-> [s[i] EXCEPT !.tried = TRUE]]

-----------------------------------------------------------------------------
(* The bus.  team_chat_messages is indexed anew by each writer, and what   *)
(* the bus mirrors there is tried only.                                    *)
Chat(m) ==
  <<Index("team_chat_messages"), Insert(<<"team_chat_messages", m>>), Commit>>

Mirror(m) == Tried(Chat(m))

Speaker(m) == <<Insert(<<"speaker_messages", m>>), Commit>> \o Mirror("speaker")

Task(t) == <<Insert(<<"tasks", t>>), Commit>>

(* apply_brain_logic: the event is marked as processed, and the Brain gets *)
(* a message about it, a task or a request for approval, or nothing.       *)
Apply(e, actions) == <<Insert(<<"processed events", e>>), Commit>> \o actions

Listener(e, actions) ==
  <<Insert(<<"listener_events", e>>), Commit>> \o Mirror(e) \o Apply(e, actions)

(* With a dedupe key: an equal event of the window ends the call, whose    *)
(* transaction ends with it.                                               *)
ListenerOnce(e, actions) ==
  LET rest == <<Commit>> \o Mirror(e) \o Apply(e, actions)
      look == [Unless(<<"listener_events", e>>) EXCEPT !.else = Len(rest) + 1]
  IN  <<look>> \o rest \o <<Commit>>
-----------------------------------------------------------------------------
(* Seeds.                                                                  *)
SplitProject ==
  <<Refer("projects"), Upsert(<<"project_phases", "phase">>), Commit>>
  \o Task("phase")

SeedOperations2 ==
  <<Alter("projects"),
    Upsert(<<"projects", "platform">>),
    Unless(<<"project_notes", "context">>),
    Upsert(<<"git_repositories", "center">>),
    Upsert(<<"kpis", "business">>), Upsert(<<"kpis", "ai">>),
    Unless(<<"products", "default">>),
    Commit>>
  \o SplitProject

SeedImprovementBacklog == <<Unless(<<"tasks", "improvement">>), Commit>>
SeedExpansionBacklog == <<Unless(<<"tasks", "expansion">>), Commit>>
SeedEnterpriseFeatureBacklog == <<Unless(<<"tasks", "feature">>), Commit>>

SeedLaptopWorkBatches ==
  <<Unless(<<"tasks", "laptop work">>),
    Insert(<<"speaker_messages", "work batch">>),
    Commit>>

SeedBusinessLaunches ==
  <<Alter("projects"),
    Upsert(<<"projects", "launch">>),
    Unless(<<"products", "offer">>),
    Unless(<<"tasks", "launch">>),
    Insert(<<"speaker_messages", "launch">>),
    Commit>>

(* _ensure_schema and _ensure_base_project                                 *)
EnsureBase == <<Alter("projects"), Unless(<<"projects", "platform">>)>>

SeedAutonomousBusinessOS ==
  EnsureBase \o
  <<Upsert(<<"projects", "business">>),
    Unless(<<"project_notes", "business">>),
    Unless(<<"tasks", "business">>),
    Upsert(<<"prompts", "master">>),
    Commit>>
  \o Speaker("setup") \o Listener("seeded", Speaker("event"))

SeedEnterpriseDepartments ==
  EnsureBase \o
  <<Unless(<<"project_notes", "department">>),
    Upsert(<<"agents", "department">>),
    Upsert(<<"prompts", "operating officer">>),
    Unless(<<"tasks", "standing brief">>),
    Upsert(<<"prompts", "financial officer">>),
    Commit>>

BusinessOSSeed == SeedAutonomousBusinessOS \o SeedEnterpriseDepartments

SeedRegistry ==
  <<Upsert(<<"machines", "registered">>), Upsert(<<"agents", "registered">>),
    Upsert(<<"system_state", "strategy">>), Commit>>

(* A bundle lists prompts by name and kpis by domain; that of scope "ops"  *)
(* has nothing that refers to a project.                                   *)
ImportPrompts ==
  <<Upsert(<<"prompts", "financial officer">>),
    Upsert(<<"prompts", "operating officer">>)>>

ImportKpis == <<Upsert(<<"kpis", "ai">>), Upsert(<<"kpis", "business">>)>>

ImportBundle ==
  <<Refer("projects"),
    Insert(<<"project_notes", "context">>),
    Insert(<<"work_logs", "imported">>),
    Insert(<<"documents", "imported">>)>>
  \o ImportPrompts \o <<Insert(<<"reports", "imported">>)>> \o ImportKpis
  \o <<Commit>>

ImportOpsBundle == ImportPrompts \o ImportKpis \o <<Commit>>
-----------------------------------------------------------------------------
(* Requests between people and machines.                                   *)
OperatorRequest ==
  <<Insert(<<"operator_requests", "request">>), Commit>>
  \o Task("operator request") \o Speaker("operator request")
  \o <<Insert(<<"operator_requests", "routed">>), Commit>>

PeerRequest ==
  <<Insert(<<"peer_requests", "request">>), Commit>>
  \o Speaker("peer request") \o Listener("peer request", Speaker("event"))

PeerResponse ==
  <<Insert(<<"peer_requests", "response">>), Commit>>
  \o Speaker("peer response") \o Listener("peer response", Speaker("event"))

ApprovedHandoff ==
  <<Insert(<<"laptop_handoffs", "approved">>), Commit>>
  \o Speaker("handoff") \o Listener("handoff", Speaker("event"))

PendingHandoff ==
  <<Insert(<<"laptop_handoffs", "pending">>), Commit,
    Insert(<<"approval_requests", "handoff">>), Commit>>
  \o Listener("handoff", Speaker("event"))

ModelSession ==
  <<Insert(<<"laptop_model_sessions", "session">>), Commit>>
  \o Speaker("model session")

PipeCodexRequest ==
  Chat("codex") \o OperatorRequest \o Speaker("assignment")
  \o PeerRequest \o Listener("codex", Speaker("event"))

ImportScan ==
  <<Index("project_intake_scans"), Insert(<<"project_intake_scans", "scan">>), Commit>>
  \o Chat("scan")

TaskIntake == Task("intake") \o Chat("intake")
TaskRequest == Listener("task request", Task("requested"))
SpeakerReceipt == Listener("receipt", <<>>)
ChangeRequest ==
  Listener("change request",
           <<Insert(<<"approval_requests", "change">>), Commit>> \o Speaker("review"))

BrainDecision == Chat("decision") \o Speaker("decision")
SecurityGuardianAudit == Listener("guardian", Speaker("event")) \o Speaker("guardian")
-----------------------------------------------------------------------------
(* What machines report.                                                   *)
ConnectionDiagnostics == ListenerOnce("marker", Speaker("event"))
DiagnosticQuery == Speaker("diagnostic query")
DiagnosticResponse == Speaker("diagnostic response")

\* An exception in the diagnostics is swallowed, which ends the call too.
UpdateConnection ==
  <<Upsert(<<"machine_connections", "connection">>), Commit>>
  \o ConnectionDiagnostics

PublishWorkstationUpdate ==
  <<Refer("projects"),
    Insert(<<"workstation_updates", "update">>),
    Insert(<<"work_logs", "update">>),
    Insert(<<"resource_recommendations", "update">>),
    Commit>>

PublishDeviceTelemetry ==
  <<Refer("machines"),
    Insert(<<"device_telemetry", "sample">>),
    Upsert(<<"machine_status_current", "machine">>),
    Insert(<<"machine_heartbeats", "sample">>),
    Insert(<<"resource_recommendations", "health">>),
    Commit>>
SaveBenchmark ==
  <<Refer("machines"), Insert(<<"machine_benchmarks", "benchmark">>), Commit>>
-----------------------------------------------------------------------------
(* Upkeep.  apply_migrations reads what is applied under an advisory lock  *)
(* and applies the rest in one transaction; the migrations that alter      *)
(* tables of other handlers come in the order machines, tasks, status.     *)
ApplyMigrations ==
  LET alters == <<Alter("machines"), Alter("tasks"), Alter("machine_status_current")>>
      look == [Unless(<<"schema_migrations", "version">>) EXCEPT !.else = Len(alters) + 1]
  IN  <<Alter("advisory lock"), look>> \o alters \o <<Commit>>

(* An update of the tasks still queued for the agent: who waits for the    *)
(* row finds it moved.                                                     *)
RedistributeBusinessQueue ==
  <<Statement("unless", <<"task_events", "redistributed">>,
              {<<<<"task_events">>, "write">>, <<<<"tasks">>, "write">>,
               <<<<"tasks", "queued">>, "exclusive">>}),
    Commit>>

DailyPriorities == Task("daily")
DispatchLaptopPackages == Speaker("laptop package")
ReserveIdentity == <<Upsert(<<"brain_device_identity_reservations", "device">>), Commit>>
CreateNotification ==
  <<Refer("projects"), Insert(<<"notifications", "notification">>), Commit>>
RecordPhoenixEvent == <<Insert(<<"phoenix_events", "event">>), Commit>>
-----------------------------------------------------------------------------
Scripts ==
  [seed_operations_2            |-> SeedOperations2,
   split_project                |-> SplitProject,
   seed_improvement_backlog     |-> SeedImprovementBacklog,
   seed_expansion_backlog       |-> SeedExpansionBacklog,
   seed_enterprise_features     |-> SeedEnterpriseFeatureBacklog,
   seed_laptop_work_batches     |-> SeedLaptopWorkBatches,
   seed_business_launches       |-> SeedBusinessLaunches,
   business_os_seed             |-> BusinessOSSeed,
   seed_enterprise_departments  |-> SeedEnterpriseDepartments,
   seed_registry                |-> SeedRegistry,
   import_bundle                |-> ImportBundle,
   import_ops_bundle            |-> ImportOpsBundle,
   peer_response                |-> PeerResponse,
   approved_handoff             |-> ApprovedHandoff,
   pending_handoff              |-> PendingHandoff,
   model_session                |-> ModelSession,
   pipe_codex_request           |-> PipeCodexRequest,
   import_scan                  |-> ImportScan,
   task_intake                  |-> TaskIntake,
   task_request                 |-> TaskRequest,
   brain_decision               |-> BrainDecision,
   security_guardian_audit      |-> SecurityGuardianAudit,
   connection_diagnostics       |-> ConnectionDiagnostics,
   diagnostic_query             |-> DiagnosticQuery,
   workstation_update           |-> PublishWorkstationUpdate,
   device_telemetry             |-> PublishDeviceTelemetry,
   speaker_receipt              |-> SpeakerReceipt,
   change_request               |-> ChangeRequest,
   diagnostic_response          |-> DiagnosticResponse,
   update_connection            |-> UpdateConnection,
   save_benchmark               |-> SaveBenchmark,
   apply_migrations             |-> ApplyMigrations,
   redistribute_business_queue  |-> RedistributeBusinessQueue,
   daily_priorities             |-> DailyPriorities,
   dispatch_laptop_packages     |-> DispatchLaptopPackages,
   reserve_identity             |-> ReserveIdentity,
   create_notification          |-> CreateNotification,
   record_phoenix_event         |-> RecordPhoenixEvent]

RowsOf(scripts) ==
  UNION {{scripts[h][i].row : i \in DOMAIN scripts[h]} : h \in DOMAIN scripts} \ {None}
-----------------------------------------------------------------------------
(* The places where a transaction that has locked something, and nothing   *)
(* of it in share mode, may wait for a lock, and what it holds there.      *)
HeldBefore(s, i) ==
  UNION {s[j].needs : j \in {k \in DOMAIN s : k < i /\ \A l \in k .. i - 1 : s[l].op # "commit"}}

Needs(p) == Script[p[1]][p[2]].needs
HeldAt(p) == HeldBefore(Script[p[1]], p[2])

Places ==
  {p \in UNION {{h} \X DOMAIN Script[h] : h \in Handlers \ {"import_ops_bundle"}} :
     Needs(p) # {} /\ HeldAt(p) # {} /\ \A l \in HeldAt(p) : l[2] # "share"}

Clashing(K, L) == \E k \in K, l \in L : k[1] = l[1] /\ Clash(k[2], l[2])

(* A transaction at p may find itself waiting for one at q.                *)
MayWait(p, q) == Clashing(Needs(p), HeldAt(q)) /\ ~Clashing(HeldAt(p), HeldAt(q))

(* Waiting goes one way: a waits for b and b for c, but c waits for none.  *)
ASSUME LockOrderAssumption ==
  /\ \A h \in Handlers : \A i \in DOMAIN Script[h] :
       Script[h][i].op = "commit" => Script[h][i].needs = {}
  /\ \A p \in Places : \A q \in {x \in Places : MayWait(p, x)} :
       \A r \in {x \in Places : MayWait(q, x)} : ~\E x \in Places : MayWait(r, x)

(* A deadlock takes a transaction that has indexed a table that it goes on *)
(* to write (team_chat.py, project_intake.py), or an import of scope       *)
(* "ops", whose prompts and kpis come in another order than the seeds'.    *)
(* The seeds among themselves, a full import and all other handlers never  *)
(* wait in a circle: they lock the projects first.                         *)
DeadlocksExplained ==
  \A c \in Callers : Deadlocked(c) =>
    \E d \in Callers : \/ \E l \in locks[d] : l[2] = "share"
                       \/ call[d].handler = "import_ops_bundle"

Announced == {
  <<<<"laptop_model_sessions", "session">>, <<"speaker_messages", "model session">>>>,
  <<<<"laptop_handoffs", "approved">>, <<"speaker_messages", "handoff">>>>,
  <<<<"laptop_handoffs", "pending">>, <<"approval_requests", "handoff">>>>,
  <<<<"peer_requests", "request">>, <<"speaker_messages", "peer request">>>>,
  <<<<"peer_requests", "response">>, <<"speaker_messages", "peer response">>>>,
  <<<<"listener_events", "change request">>, <<"approval_requests", "change">>>>,
  <<<<"listener_events", "marker">>, <<"processed events", "marker">>>>,
  <<<<"operator_requests", "request">>, <<"tasks", "operator request">>>>}

(* Whoever writes the one row or the other of p writes both, each once:    *)
(* the first at i, committed at a, and then the second at j, committed at  *)
(* b.  Only where the first is found, the call goes on, past both; and     *)
(* what is tried up to there is over before the first is written.          *)
InOrder(s, p, i, a, j, b) ==
  /\ Adds(s, p[1]) = {i} /\ Adds(s, p[2]) = {j}
  /\ i < a /\ a < j /\ j < b /\ IsCommit(s, a) /\ IsCommit(s, b)
  /\ \A l \in (i .. a - 1) \cup (j .. b - 1) : s[l].op # "commit"
  /\ s[j].op = "insert" /\ (s[i].op = "unless" => i + s[i].else > b)
  /\ \A l \in DOMAIN s \ {i} : s[l].else = 1
  /\ \A l \in 1 .. a : s[l].tried => AfterCommit(s, l) <= i

ASSUME AnnouncementAssumption ==
  /\ IsFiniteSet(Callers)
  /\ \A p \in Announced : p[1] # p[2] /\ {p[1], p[2]} \subseteq Rows
  /\ \A p \in Announced, h \in Handlers :
       LET s == Script[h]
       IN  \/ Adds(s, p[1]) = {} /\ Adds(s, p[2]) = {}
           \/ \E i \in Adds(s, p[1]), j \in Adds(s, p[2]) :
                \E a \in i .. j, b \in j .. Len(s) : InOrder(s, p, i, a, j, b)

(* What is stored and what tells of it are committed apart, so a failure   *)
(* between the two leaves a request that nobody hears of; never a message  *)
(* about a request that is not there, and no request goes unheard unless a *)
(* call is under way or was cut short (collaboration.py,                   *)
(* operator_requests.py).                                                  *)
AnnouncementsFollow ==
  \A p \in Announced :
    /\ table[p[2]] <= table[p[1]]
    /\ table[p[1]] <= table[p[2]] + lost + Cardinality({c \in Callers : Active(c)})
=============================================================================
