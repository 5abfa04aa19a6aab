# AI Operations Center: models, checks and proofs

The AI Operations Center is a "brain": an HTTP API, a PostgreSQL database, and one worker
process on each laptop of a small fleet. There is no broker and no consensus: everything the
parts tell each other is a row of the shared database, each `with connect()` block is one
READ COMMITTED transaction, and any process may die between two of them. What can go wrong is
therefore an interleaving of transactions, and that is what this directory models.

The modules are written from the code under `ai_ops_center/` and `sql/`. `PROJECT.json` maps every
definition to the lines it stands for, and lists the hazards, the runs, the mutants (one
plausible bug for each property, which the run must catch) and the theorems.

## 1. Inventory

| Part | State | Operations | Talks to | What is hard | Correct when |
|---|---|---|---|---|---|
| Task queue (`orchestrator.py`, `worker.py`, `sql/schema.sql`) | `tasks`: status, machine, claim token, lease, attempts, next attempt, result | `create_task`, `claim_next_task`, `renew_task_lease`, `complete_task`, `fail_task`; the trigger `enforce_worker_claim_protocol` | steward, failover, ledgers | several workers, lost leases, crashes, clock skew, retries | a claim has one holder, stale workers change nothing, budgets are kept |
| Queue steward (`queue_manager.py`, `failover.py`) | the loads it counts, advisory lock 4107202601, `assignment_generation` | `steward_queue` (recover, route, reconcile), `evaluate_failover`, `evaluate_stale_workers`, `queue_health` | queue, ledgers, heartbeats | every worker sweeps; counted loads go stale; ping-pong | no machine overfilled, work leaves dead machines, moves end |
| Request ledgers (`operator_requests.py`, `collaboration.py`) | `operator_requests`, `peer_requests` | create, respond, `_reconcile_control_plane` | queue, steward, speaker messages | three-transaction creates, a reconciler that skips locked rows, answers by hand | a request agrees with its tasks; answers come from who may answer |
| PET machine capabilities (`pet_machine_capabilities.py`, migrations 015-018) | requests, dispatch intents, outbox, nonces, receipts | submit, dispatch, execute, record a receipt | approvals, brain bus, worker | crash between nonce, action, receipt and acknowledgement; expiry | an action runs at most once, approved first, acknowledged with a receipt |
| Brain bus and PET instructions (`brain_bus.py`, `pet_instruction_protocol.py`, migration 011) | `listener_events`, `speaker_messages`, consumed nonces | submit an event, apply the brain's logic, feed, acknowledge, verify an instruction | worker, ledgers | at-least-once feed of 50 rows, a nonce consumed before the acknowledgement | each instruction accepted at most once and acknowledged |
| Approvals, remote operations, SSH broker (`approvals.py`, `approval_processor.py`, `remote_ops.py`, `ssh_broker.py`) | `approval_requests`, `remote_operations`, sessions, kill switch | create, review, process pending, request and execute an operation | operators, PETs | a decision made on a snapshot; a kill switch thrown between check and use | nothing runs without an approval that stands |
| PET release (`pet_release.py`) | assignments, submissions, samples, release state | submit, decide, reserve, finalize | API | a reservation whose owner dies | one release per submission |
| PET conversation actions (`pet_conversation_actions.py`) | proposals | propose, confirm, claim, complete, release | queue, capabilities, team room | double confirmation; errors and deaths between the calls of one confirmation | callers get one result; only an error makes a call be made again |
| API (`api.py`) | registry of cancellable model queries | ~170 handlers calling the modules above | everything | queries and cancellations interleave on one event loop; other handlers in threads | ids are exclusive and freed; a stopped query leaves nothing |
| Migrations (`migrations.py`) | `schema_migrations` | apply | database, every handler whose table is altered | two appliers at start-up, beside live handlers | each migration applied once |
| Model routing, LLM mesh (`model_router.py`, `model_workflows.py`, `integrations.py`, `llm_mesh.py`) | packets, integration runs | ask the providers in turn, decide, record | HTTP services, approvals, tasks | cancelled or broken half way | a packet says what became of its query |
| Operations ledger, telemetry (`ops2.py`, `connectivity.py`, `readiness.py`, `health.py`) | projects, kpis, prompts, updates, telemetry, notifications | seed, split, import, export, record | bus, dashboards | overlapping seeds and imports, lock orders, repeated runs | what is created once exists once; deadlocks only where they are known |
| Intake and reports (`tasks.py`, `reports.py`, `factory.py`, `codex_*.py`, `project_intake.py`) | scans | create tasks, announce them, read summaries | queue, bus | several commits per call | what is stored is announced |
| Authentication, devices (`auth.py`, `security_guardian.py`, `device_gateway.py`, `audit50.py`) | devices, tokens | per-request checks, an audit | API, bus | - | - |
| Business modules, catalogues, identity (`business_os.py`, `enterprise_features.py`, `team_chat.py`, `registry.py`, ...) | projects, agents, prompts, the team room, static documents | seed, post, list, reserve | API, bus | as for the operations ledger | as for the operations ledger |
| Infrastructure, dashboards, deployment scripts | - | connect, configure, display | API | - | - |

All rows but the last are modelled, in whole or in part, and explained in section 3. `PROJECT.json` says
of each part what is left out, and why.

## 2. Plan

| Order | Module | Composes or refines | Main questions |
|---|---|---|---|
| done | `TaskLedger` | abstract: what a task queue promises a submitter | refined by `TaskQueue` |
| done | `TaskQueue` (+ `TaskQueueProofs`) | refines `TaskLedger` | exclusive claims, fencing, leases, budgets, the trigger |
| done | `QueueSteward` (+ `QueueStewardProofs`) | the queue with routing policy, coarser claims | loads, evacuation, starvation, termination of moves |
| done | `ControlPlane` (+ `ControlPlaneProofs`) | ledgers with the queue's moves | truthfulness and progress of both ledgers |
| done | `CapabilityDispatch` (+ `CapabilityProofs`) | approvals, brain bus, worker, receipts | at most one action, receipts and acknowledgements |
| done | `InstructionIntake` (+ `IntakeProofs`) | brain bus, replay guard, worker loop | one acceptance per instruction, replay evidence, every message answered |
| done | `ApprovalFlow` (+ `ApprovalProofs`) | approvals, processor, PET release submissions, remote operations, SSH broker | one approval per submission, decisions on snapshots, what runs was approved |
| done | `ProposalConfirm` (+ `ProposalProofs`) | conversation actions, over capability requests, operator requests, the team room | one result per proposal, what errors submit again |
| done | `ModelQuery` (+ second part of `ProposalProofs`) | the API's registry, the router, the providers' round | cancellation at every await, exclusive ids, truthful packets |
| done | `Transactions` (+ `TransactionProofs`) | abstract: any handlers as scripts of statements, under READ COMMITTED | created once, doubled only by overlap |
| done | `OperationScripts` (+ `TransactionProofs`) | `Transactions` with the scripts of 38 handlers | lock orders and deadlocks, what is announced after a failure |
| 1 | `QueueRules` | pure functions of `queue_manager.py` against reference definitions | hold reasons, health |
| 2 | `RoutePolicy` | scoring of `llm_mesh.py` | a route is eligible; ties are decided |

Left for later besides: a run of `QueueSteward` with a routing window filled by held tasks; and of `InstructionIntake`
with a feed filled by rejected messages.

## 3. What is modelled

### TaskQueue: the claim protocol

One record-like function per column of `tasks`: `status`, `exec` (execution_machine_id), `holder`,
`token`, `lease`, `attempts`, `due`, `result`; and for each worker process its `phase`, the task it
works on (`job`) and the claim it was handed (`claim`). Actions are the handlers: `Create`,
`Claim`, `Renew`, `RenewRefused`, `Finish`, `Raise`, `Complete`, `CompleteBroken` (the connection
breaks inside `complete_task`, before or after the commit), `Fail`, `Crash`, `Restart`, `Sweep`
(one steward's transaction: `Recover` for every expired claim, `Rerouted` for any set of queued
tasks), `Failover` and `Tick`.

- Time is a countdown: `lease` and `due` shrink by one per `Tick`. The steward and `fail_task`
  compute times with the host's clock, everything else with the database's; the difference is any
  member of `Offsets`, at most `MaxOffset` ticks.
- Claim tokens are uuid4: a fresh number each time (`nextToken`); the attempt budget bounds how many there are.
- Which queued task moves where is arbitrary here; the policy is `QueueSteward`'s.
- `active_task_id` of a machine, a display field, is left out. The legacy branch for running rows without a
  token cannot occur with the trigger in place. A result is never empty: the trigger demands one.
- `TriggerAllows` is the trigger itself; that no step of the program violates it is a property.

`TaskLedger` is the promise made to whoever submits a task: it is started, may return to the
queue while its attempts last, and ends done or given up; a done task stays done. `KeepsLedger`
is the refinement, `StageOf` its mapping.

### QueueSteward: routing, starvation, failover

Tasks with a stage, a machine, the time since their last change (`idle`) and a generation;
machines with `up` and the age of their heartbeat (`seen`). A sweep is one transaction in several
steps: `Survey` (lock and recover lapsed claims, count the loads), `Pick` (lock the queued tasks past their
grace that no other transaction has locked), one `Send` or `Keep` for each turn of the loop over them, with
the loads it adjusts itself, and `CommitSweep`. Claims, completions and failovers come in between as
they do under READ COMMITTED, and see none of the sweep's writes before the commit; what the sweep has
locked (`Locked`) they pass over. `Rollback` is a sweep that fails. It leaves nothing but
the locks it lets go, so it is taken before `Pick`: a later one has the same effect.

- One `Tick` is one turn of the poll loop (15 s). A retry's back-off is shorter and left out;
  the attempt budget is `TaskQueue`'s.
- Tasks are numbers in order of priority and age, machines in order of their ids: the aging of
  priorities is left out. `Staffed` are the machines with an active agent: where the chosen one has none, the
  task stays. Failover may choose any healthy machine and, other than in the code, also drain the brain's own.
- `Alarmed` machines are those whose telemetry or operator asks for a failover. `Pinned` are the tasks
  that `task_is_automatic_eligible` keeps where they are.
- `Tick` is guarded so that machines that are up beat within a tick and a free worker polls
  within one: a sweep is taken to be shorter than a tick.
- Fairness: strong for `Tick` (time does not stop), weak for `Survey` (some worker always
  sweeps), strong for a `Pick` that finds no row locked, weak for each turn of the loop, the commit, claims and completions of live
  machines. Machines outside `Steady` may fall silent; those outside `Claiming` only beat.

### ControlPlane: operator and peer requests

Tasks in three stages; operator requests with their client (between the three transactions of
`create_operator_request`), status and routed tasks; peer requests with status, task, responder and who
completed. `Reconcile` takes any sets of rows: those the sweep could lock. `FullReconcile` is one
that found none locked, and is all that fairness assumes (WF): locks are held for one transaction, sweeps
recur. A completed task's peer request is answered in a later transaction (`Report`), which a crash loses
(`ReportLost`). Speaker messages and events written along the way are left out.

### CapabilityDispatch: actions on a target machine

A request is announced (approval, event, message) and recorded, in separate transactions that
may fail between. A dispatcher reads request and approval (`Sign`), then publishes (`Publish`);
the first envelope stays. A worker takes the message from its feed, looks for a receipt, verifies,
consumes the nonce, runs the handler, records a receipt, acknowledges: eight steps, `Abandon`
between any two. `left` is what remains of an envelope's five minutes (`Life` = 1 tick).

- Keys are registered and valid. A payload or a machine setting that forbids the action is one way to be held.
- `AddedKeys` is what the message carries beyond what was signed. The worker's tests deliver exactly
  what was signed (`{}`); migration 018 adds an `idempotency_key`. The passing run uses the
  former, to check the rest of the protocol; `capability_as_built` the latter, see section 5.
  The theorems hold for both.
- Fairness: a worker goes on with what it has taken up (weak), its feed and its look for a receipt are not
  interrupted every single time (strong). Handlers return.

### InstructionIntake: messages to a machine

Messages are rows of `speaker_messages`, numbered by their place in the feed; a worker reads the
feed, takes the messages one by one, verifies the envelope (`Check`), consumes the nonce
(`Consume`, a transaction of its own), writes the receipt event (`Receive`) and acknowledges, or
reports the rejection and leaves the message open. `Die`, `PassOver` (a call raises and is logged) and
`ConsumeBroken` (the database call fails before or after its commit) may come between. `Prune` is the
maintenance function: it archives claims past their retention, where the archive has room for
one envelope per nonce.

- `left` is an envelope's remaining life by the database's clock; a worker judges it by its host's,
  off by any member of `Offsets`. All envelopes have the same `Life`; what makes one unacceptable for any
  other reason than time is `Genuine`.
- Pending and delivered are one status, `open`. An acknowledgement by the device over the API is kept
  apart (`byHand`), since no worker then saw the message. Broadcasts appear in the feed and are never
  acknowledged by a worker. The rejection event and the message the brain's logic derives from it are one step.
- Action executions (`pet_capability_signed_execution`) are `CapabilityDispatch`'s. Messages at
  work on the machine at the same time meet only in the feed and in shared nonces.
- Fairness: each worker keeps serving (weak). `calm`, a flag that the code does not have, ends the failures: after
  `CalmDown` nothing dies or raises any more. It stands for "processes die and calls fail only so often".

### ApprovalFlow: approvals and what hangs on them

A PET release candidate (`Submissions`), a remote operation (`Operations`) and a request made on its
own (`Plain`) each have at most one approval, except that a broken reservation could open
more for a submission, which `opened` counts. Clients submit and request in up to four
transactions (`Reserve` or `Request`, then `TurnDown`, or `Open` and `Link`); reviewers decide in one
and carry the decision over to the record in another (`Review`, then `Record` or `Follow`); the processor takes
a snapshot and then decides item by item (`Snapshot`, `Decide`, `Route`); brokers look at the kill
switch, load the approval, run ssh and record (`Start`, `Load`, `Run`, `Close`). All of them may
end between any two of these steps.

- The texts that policies search for words are sets: `Typed`, `Worded` and `Allowed` say what
  `evaluate_remote_operation` finds of an operation, `LowRisk` which plain requests the processor approves.
- The metadata of a request holds what this program writes into it: callers do not name the ids
  of other requests there.
- `events` keeps the decisions of operators only; the processor's are in `approval`. That requesters do not
  review their own requests, speaker messages and listener events are left out.
- `Evidence` is a decision's actor and evidence together, of which the ledger of a submission takes each once.
- A command that times out may have run on the target or not. `ran` is what truly did.
- The verification of the signed command on both ends is part of `Run`, and its refusals of `BrokerFails`.

### ProposalConfirm: what an operator tells a PET to do

A proposal has a `status`, a `result`, and for each of its one or two calls the rows it was submitted as
(`rows`) and which of them were dispatched (`sent`); each confirmation has a desk that says where it is.
`Claim` and `Recall` are `_claim_proposal` on a row that may and may not be claimed; `Submit`, `Dispatch`
and `Complete` are the transactions of a confirmation; `Raise` may come at each of them, the last
one perhaps after its commit; `Release` is the except clause; `Die` may come anywhere.

- The conversation is parsed before anything is stored: what the parser decides is the kind of the
  proposal, `Twofold`, `Messages`, `Guarded` or neither.
- A capability request is one row here: what becomes of it is `CapabilityDispatch`'s, and what becomes of
  an operator request `ControlPlane`'s. `answered` and `raised` are history.

### ModelQuery: questions to external models

`loop` names the query that runs: between two awaits nothing but an error or the end of the process
comes in between, so `Dispatch` ends where the code awaits a provider and `Reply` begins there.
`Handle`, `Cancel` and `Respond` are the route handlers with the `registry` of ids; `Start`,
`DispatchTo`, `Reply`, `Continue`, `Decide`, `Ask`, `Record` are `submit_model_query` with its callees, one action per
commit that a failure may fall between; `Stop` is the CancelledError; `QueryRaises` a database call that
raises; `Restart` the end of the process.

- Synchronous calls block the loop, which is why a cancellation can only meet a query that waits or
  has not begun.
- What the texts say is one choice, `risky`. The events, messages, log and note around a packet are part of
  `Record`; who may cancel whose query is left out.
- Fairness: strong for each query's next step, since the event loop is first in, first out and providers are
  given up on after a minute.

### Transactions and OperationScripts: everything else that writes

Most handlers are straight sequences of statements with commits in between, and what can go wrong
with them is how two of them overlap. `Transactions` runs such scripts: a statement takes its locks, on
a table or a row, and waits while another transaction holds what clashes; an insert may be guarded by
a look for an equal row, which sees what is committed and what its own transaction wrote; a
commit publishes and releases. `Fail` is a statement that raises, `Die` a process that ends, `Victim` the
transaction the server picks from a circle of waiting ones. After an exception that the code swallows
(`tried`), the script goes on behind the next commit. `OperationScripts` has the scripts of 38 handlers, built from
those of the bus (`Chat`, `Mirror`, `Speaker`, `Listener`, `Apply`) as the code is from its functions.

- Lock modes: `write` (row exclusive) and `share` (create index) clash, `exclusive` (alter table, an upserted or updated row,
  an advisory lock) clashes with everything, also with `refer`, the lock of a foreign key. Row locks of foreign keys
  other than on the tables that are altered, and the order of the server's lock queues, are left out.
- A loop over rows written alike is one statement, or two where two handlers write the rows in different
  orders. `audit_logs` is left out. Which text a row has, the window of a dedupe key and the
  first-call schema check of `collaboration.py` are left out too.
- What is counted is rows of a kind: `<<table, name>>`, where the name says which handler's rows they are.
- Callers overlap two at a time, so circles of three are not explored; the theorems hold for any number.

## 4. What the runs check

| Run | Bounds | Shows |
|---|---|---|
| `task_queue` | 2 tasks, 2 machines with a worker each, 2 attempts, leases of 2 ticks, clocks right or 1 tick ahead | a task is claimed, lost, claimed again by the other machine while the first still works, and settled by either or by a steward; budgets run out. Exclusive claims, fencing, budgets, live leases, the trigger, the ledger |
| `queue_steward` | 2 tasks, a claiming machine of capacity 2 that may fall silent and a steady one of capacity 1 that only beats | both evacuation and starvation moves occur, generations reach their cap. Nothing running is moved (`RunningStaysPut`); a sweep fills no machine beyond what it can do (`SweepFillsNoMachine`); work leaves dead machines; abandoned claims return; moves end |
| `control_plane` | 2 tasks, 2 machines, 1 operator request, 1 peer request, every set of locked rows | truthfulness, one task per peer request, answers stand; both ledgers follow their tasks |
| `capability` | 1 guarded request, 2 dispatchers, 2 workers, 2 nonces | two envelopes, two workers on one message, crash at each step, expiry |
| `intake` | 2 signed messages with one nonce, 2 workers, life and retention of 1 tick, a host clock 3 ticks behind or right | a nonce is claimed, pruned, archived and claimed again; both workers hold one message; an expired envelope looks valid to a slow host. One acceptance, evidence kept, receipts before acknowledgements, an answer for every message. Window 2 holds both messages, there is no broadcast and every message is signed: the theorems do not depend on that, `EveryMessageAnswered` does |
| `approvals` | 1 complete and 1 incomplete candidate, 1 plain request of low risk, 1 diagnostic and 1 blocked operation, 2 clients, 2 reviewers, the processor, 2 brokers; at most 3 different decisions by operators, 2 on candidates | candidates and operations are explored one after the other, not at once: they share no state but the processor's list. Retries race for one key, clients die at each step, decisions arrive before the link to the approval or twice, brokers run while the decision changes; one approval each, nothing passes or runs without an operator, what is completed was done |
| `proposals` | a proposal with two guarded actions, one with a free action, one message to the Brain; 2 confirmations at a time, at most 1 error for each proposal | confirmations overlap, raise and die at each step; one result, errors bound the rows, a confirmed proposal stands |
| `model_query` | 3 queries that choose one id: a device's chat, one that creates tasks, one whose approval is waived; 2 providers, 2 tasks | cancellation at each await, reuse of the id, errors between commits, a restart; nothing is left of a stopped query, ids are exclusive and freed, packets tell the truth. The run may end: every query ends |
| `transactions` | 2 threads, 2 calls of any of 38 handlers, at most 1 failure | every pair of handlers in every interleaving of their statements. Two calls suffice for a doubled row, for a circle of two, and for a failure followed by a second try. The run ends after the second call |
| `steward_starvation`, `capability_as_built`, `proposal_twice` | as above | the disagreements of section 5 |

The state of one task or request in these protocols meets that of another only through loads and
machines, so two or three show every kind of meeting; a third worker adds a second stale one. The
safety properties of nine modules are proved for all sizes besides, which removes the
question for them. Symmetry over tasks is used in `task_queue`, which checks no liveness. Deadlock is
checked in the runs of protocols that go on for ever, where time, sweeps or retries always continue; `proposals`,
`model_query` and `transactions` make a bounded number of calls and stop.

## 5. Disagreements found

- **`NoIndefiniteStarvation`** (`steward_starvation`): the audit says portable work cannot stay on a
  machine that only beats. `assignment_generation` also counts evacuations and is never
  reset; at 2 a task is not treated as starved any more and stays.
- **`GenuineNotRefused`** (`capability_as_built`): the outbox adds a field to the signed envelope;
  the executor signs all fields but the signature again, so no published execution verifies.
- **`SubmittedOnce`** (`proposal_twice`): a confirmation is said to be idempotent. One that raises after its first call
  has committed is released, and confirming again makes that call again.

Behaviour that the models have and that a document describes otherwise, without a run of its own:

- `evaluate_failover` moves every queued task of a machine, also those that the audit calls protected
  (`docs/PET_COMMAND_CENTER_AUDIT.md:44`): `Failover` of `QueueSteward`.
- An operator request whose creator dies before it stores `routed_task_ids` is skipped by the
  reconciler for good (`queue_manager.py:310`), though its docstring promises aligned ledgers: `OpCrash` of
  `ControlPlane`. `AnnouncementsFollow` says that it takes such a death.
- The approval processor decides on what its snapshot says is pending; an operator's decision in
  between is replaced: `Decide` of `ApprovalFlow`.
- Two posts to the team room that overlap both hold the share lock of `create index if not exists` and
  wait for each other's insert. The server ends one of them; where the bus mirrors an event or a message, the
  exception is swallowed (`brain_bus.py:216`, `:251`) and the row is missing from the room, which
  `docs/LLM_MESH_AND_LAPTOP_RECOVERY.md:101` calls the chat log: `Mirror` of `OperationScripts`, admitted by `DeadlocksExplained`.
  `collaboration.py` creates its tables and indexes once per process and does not have this circle.
- A device's chat is refused if it asks for tasks or an approval ("device model chat cannot create tasks or
  approvals", `api.py:1801`), but one that leaves `require_approval` open gets an approval request when the words are
  of high risk: `Forbidden` and `NeedsApproval` of `ModelQuery`.

## 6. What is proved

For all values of the constants allowed by the named assumptions (`...Assumption` in each module):

- `TaskQueueProofs`: `TypeOK`, `OneHolder`, `BudgetKept`, `ResultIsLatest`, `StaleWorkerHarmless`,
  `LeaseProtects`, `TriggerSilent`, and `KeepsLedger`, the refinement of `TaskLedger`. None of the
  invariants is inductive alone. `IInv` adds that tokens are handed out in order (every token and claim is below
  `nextToken`), that no two workers have the same claim, and how the columns of a row go together
  in each status. The action properties and the refinement then follow step by step from `IInv`.
- `ControlPlaneProofs`: `TypeOK`, `OperatorTellsTruth`, `OneTaskPerPeer`, `AnsweredByRight`,
  `AnswersStand`. `IInv` adds the shape of tasks and of both ledgers: which task belongs to which request
  at which point of its creation, and that a settled task never changes.
- `CapabilityProofs`: `TypeOK`, `HandlerAtMostOnce`, `ApprovedBeforeRun`, `AcknowledgedIsAnswered`.
  `IInv` adds that an envelope, once signed, was approved (`Grants`), that message and intent exist together
  (`Published`), that a start, or a worker about to start, has consumed the one nonce of its request
  and excludes every other (`OneStart`), and what each seat knows of the receipt (`Answered`).
- `IntakeProofs`: `TypeOK`, `AcceptedOnce`, `EvidenceKept`, `AcknowledgedWasReceived`. `IInv` adds that an
  accepted envelope holds its nonce or has expired (`AcceptedHolds`), which is why pruning cannot let a
  replay through; that an accepted instruction without a receipt has its evidence too (`EvidenceHeld`);
  and what the worker has in hand at each step (`Orderly`). The proof needs nothing of the
  hosts' clocks: the second look at the expiry, in the database, is enough.
- `ApprovalProofs`: `TypeOK`, `OneApprovalEach`, `RunsWereApproved`, `PassedWasReviewed`,
  `CompletedWasDone`. `IInv` adds that a client holding a fresh reservation is alone with it and
  nothing has been opened (`Reserved`), that nothing incomplete ever has an approval (`Complete`), and follows an
  operator's decision to wherever it has been read: a review in hand, an approval that stands (`Decided`), a
  broker past its check (`Executed`). It needs that the processor never approves what is of high impact.
- `ProposalProofs`: `TypeOK`, `OneResult`, `ErrorsBoundRows`, `ConfirmedStands`. `IInv` adds that a proposal is in
  one confirmation's hands at a time and only while `confirming`, that a result is stored exactly with
  `confirmed`, and what a desk has submitted so far against what has raised.
- `ProposalProofs`, second part, about `ModelQuery`: `QueryTypeOK`, `StoppedLeavesNothing`, `OneActivePerId`, `PacketTruthful`.
  `QueryInv` adds, for each place where a query may be, what it can have left in the database (`Left`):
  nothing before it decides, and if it is marked for cancellation, nothing at all and no place but an await or an end; and that a query
  under way is the one registered under its id (`Registered`).
- `QueueStewardProofs`: `TypeOK`, `SweepFillsNoMachine`, `RunningStaysPut`, for any number of tasks and machines
  and sweeps of any length. `IInv` adds `LocksHold` (what the sweep has locked is still as it was read, and every
  move it has decided is of a locked, queued task) and `CountsHold`: for each machine, the load that the loop goes by
  is at least the one counted plus the moves in and less the moves out, and where anything was moved in, that sum
  is within the capacity. It is an inequality because the loop counts a source down to zero and no further.
- `TransactionProofs`, in three parts, for any callers, calls and failures. The assumptions on the scripts are
  evaluated for the 38 scripts in the run `transactions`.
  - `TypeOK`, `OneOfEach`, `DuplicatesNeedOverlap`, for arbitrary scripts that end with a commit (`ScriptAssumption`):
    what makes rows unique is stated of the scripts (`SerializedBy`, `WrittenBy`) and the theorems say that the engine
    honours it. `IInv` adds that no two transactions hold an exclusive lock on the same thing, that a transaction holds
    until its commit what its statements have locked (`LocksHeld`), and that a pending row is one its handler adds,
    under that lock (`Owned`).
  - `DeadlocksExplained`, from `LockOrderAssumption`: leaving aside what holds a share lock and the import of scope `ops`, one
    place of a script may wait for another (`MayWait`, what the one needs clashes with what the other holds) only in
    chains of at most two waits. `LocksTaken` adds to `IInv` that a transaction holds
    no more than its statements so far have locked, `Compatible` that what two of them hold never clashes. A circle of waiting
    transactions would then be a chain of places that goes on. It covers circles of any length, where the run has two threads.
  - `AnnouncementsFollow`, from `AnnouncementAssumption`: a script that writes either row of an announced pair writes both, once,
    each in a transaction of its own and in that order, and jumps only past both. `PendingKnown` says what each caller
    has pending from where it is in its script, and `Balance` that what is stored exceeds what is announced by at least the
    callers between the two commits (`Owing`) and at most those and the calls that were cut short.

`TypeOK`, and `BudgetKept` of `TaskQueue`, are proved where a proof module exists and are not repeated as invariants of the runs;
`KeepsLedger` checks the budget again in `task_queue`.

Only model-checked: all liveness (`WorkLeavesDeadMachines`, `AbandonedClaimsReturn`, `MovesEnd`,
`PeerFollowsTask`, `OperatorFollowsTasks`, `AnsweredIsAcknowledged`, `EveryMessageAnswered`, `IdIsFreed`), which
needs fairness and ENABLED. Every safety property of the passing runs is proved. That the 38 scripts satisfy the assumptions
on scripts is evaluated by TLC, not proved: it is a finite computation on constants.

## 7. Not modelled

- Listings and snapshots (`*_snapshot`, `queue_health`, readiness, reports): they read in several statements and
  write nothing that a protocol depends on. `noc_snapshot`'s refresh of statuses is a display.
- Pure classification: the scoring of `llm_mesh.py`, the markers of `connectivity.py`, the parsers of conversations and of instructions.
- Static catalogues and their certification, dashboards, configuration, command line, deployment scripts.
- HTTP calls to model servers and Flowise, but for their answer, failure or time-out.
- Authentication, which keeps no state between requests: who may call is a guard of the caller in the models.

Hazards that no property covers are listed with their reason in `PROJECT.json`.
