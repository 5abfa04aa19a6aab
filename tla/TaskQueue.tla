----------------------------- MODULE TaskQueue -----------------------------
(***************************************************************************)
(* The claim protocol of the task queue: one table of tasks shared by the  *)
(* workers of several machines (worker.py, orchestrator.py) and by the     *)
(* queue steward (queue_manager.py), which any host may run.  Each action  *)
(* is one database transaction, or one step of a worker's loop between     *)
(* two transactions.                                                       *)
(*                                                                         *)
(* Time is counted in ticks and every timestamp column holds what is left  *)
(* of it: lease[t] is lease_expires_at - now() and due[t] is               *)
(* next_attempt_at - now(), on the database's clock.  The steward and      *)
(* fail_task read the clock of the host they run on instead, which may be  *)
(* ahead of the database's (a positive offset) or behind it.               *)
(***************************************************************************)
EXTENDS Integers, FiniteSets

CONSTANTS
  Tasks,         \* the rows of table tasks
  Machines,      \* the rows of table machines
  Workers,       \* worker processes; nothing stops two on one machine
  MachineOf,     \* the machine_id each worker was started with
  Held,          \* tasks whose metadata holds them for an approval
  MaxAttempts,   \* tasks.max_attempts
  LeaseTicks,    \* lease_seconds of claim_next_task and renew_task_lease
  RetryBase,     \* the first delay of retry_delay_seconds
  RetryCap,      \* its largest delay
  Offsets,       \* how far hosts' clocks may be from the database's
  MaxOffset,     \* a bound on their size
  NoTask         \* the job of a worker that has none

ASSUME QueueAssumption ==
  /\ MachineOf \in [Workers -> Machines]
  /\ Held \subseteq Tasks
  /\ NoTask \notin Tasks
  /\ MaxAttempts \in Nat \ {0}
  /\ LeaseTicks \in Nat \ {0}
  /\ RetryBase \in Nat \ {0}
  /\ RetryCap \in Nat \ {0}
  /\ MaxOffset \in Nat
  /\ Offsets \subseteq -MaxOffset .. MaxOffset

VARIABLES
  status,     \* tasks.status; "absent" before the insert
  exec,       \* tasks.execution_machine_id
  holder,     \* tasks.claimed_by_machine, when the task is running
  token,      \* tasks.claim_token; 0 is null
  lease,      \* tasks.lease_expires_at - now()
  attempts,   \* tasks.attempt_count
  due,        \* tasks.next_attempt_at - now(); Floor when null
  result,     \* tasks.result: the claim whose work product it is; 0 is null
  phase,      \* where each worker process is in run_worker
  job,        \* the task a worker took
  claim,      \* the claim token it was handed with it; 0 is none
  nextToken   \* claims are uuid4 tokens: never the same twice

row  == <<status, exec, holder, token, lease, attempts, due, result>>
loop == <<phase, job, claim>>
vars == <<row, loop, nextToken>>

(* No timer needs to run below this: no clock is further behind.           *)
Floor == -(MaxOffset + 1)
Down(timer) == IF timer > Floor THEN timer - 1 ELSE Floor
AtLeastFloor(timer) == IF timer > Floor THEN timer ELSE Floor

(* retry_delay_seconds: doubles with each attempt, from RetryBase, and     *)
(* never exceeds RetryCap.                                                 *)
RetryDelay(n) ==
  LET doubled == RetryBase * 2 ^ (IF n > 0 THEN n - 1 ELSE 0)
  IN  IF doubled \in 1 .. RetryCap THEN doubled ELSE RetryCap

TypeOK ==
  /\ status \in [Tasks -> {"absent", "queued", "running", "completed", "failed"}]
  /\ exec \in [Tasks -> Machines]
  /\ holder \in [Tasks -> Machines]
  /\ token \in [Tasks -> Nat]
  /\ lease \in [Tasks -> Int]
  /\ attempts \in [Tasks -> 0 .. MaxAttempts]
  /\ due \in [Tasks -> Int]
  /\ result \in [Tasks -> Nat]
  /\ phase \in [Workers -> {"idle", "executing", "lost", "finished", "raised", "down"}]
  /\ job \in [Workers -> Tasks \cup {NoTask}]
  /\ claim \in [Workers -> Nat]
  /\ nextToken \in Nat \ {0}

Init ==
  /\ status = [t \in Tasks |-> "absent"]
  /\ exec \in [Tasks -> Machines]
  /\ holder = exec
  /\ token = [t \in Tasks |-> 0]
  /\ lease = [t \in Tasks |-> 0]
  /\ attempts = [t \in Tasks |-> 0]
  /\ due = [t \in Tasks |-> Floor]
  /\ result = [t \in Tasks |-> 0]
  /\ phase = [w \in Workers |-> "idle"]
  /\ job = [w \in Workers |-> NoTask]
  /\ claim = [w \in Workers |-> 0]
  /\ nextToken = 1

-----------------------------------------------------------------------------
(* The tasks table as a worker's statements see it.                        *)

(* Worker w's claim is the one in the row of its job: the condition every  *)
(* statement of orchestrator.py that settles or renews a task begins with. *)
Owns(w) ==
  /\ job[w] \in Tasks
  /\ status[job[w]] = "running"
  /\ token[job[w]] = claim[w]
  /\ holder[job[w]] = MachineOf[w]

(* Slips of LiveLease: the lease or the token left out of the condition.   *)
LiveLeaseUntimed(w) == Owns(w)
LiveLeaseUnfenced(w) ==
  job[w] \in Tasks /\ status[job[w]] = "running" /\ lease[job[w]] > 0

LiveLease(w) == Owns(w) /\ lease[job[w]] > 0

Claimable(t, m) ==
  /\ status[t] = "queued"
  /\ exec[t] = m
  /\ due[t] <= 0
  /\ t \notin Held

(* What is left of a claim when the task goes back to the queue or fails.  *)
ClearClaim(S) ==
  /\ token' = [t \in Tasks |-> IF t \in S THEN 0 ELSE token[t]]
  /\ lease' = [t \in Tasks |-> IF t \in S THEN 0 ELSE lease[t]]

Goto(w, p) == phase' = [phase EXCEPT ![w] = p]

Forget(w, p) ==
  /\ Goto(w, p)
  /\ job' = [job EXCEPT ![w] = NoTask]
  /\ claim' = [claim EXCEPT ![w] = 0]
-----------------------------------------------------------------------------
(* create_task, on behalf of the API, the orchestrator or a request.       *)
Create(t, m) ==
  /\ status[t] = "absent"
  /\ status' = [status EXCEPT ![t] = "queued"]
  /\ exec' = [exec EXCEPT ![t] = m]
  /\ UNCHANGED <<holder, token, lease, attempts, due, result, loop, nextToken>>

(* Slip: the attempt number serves as the claim token.                     *)
ClaimByAttempt(w, t) ==
  /\ phase[w] = "idle"
  /\ Claimable(t, MachineOf[w])
  /\ status' = [status EXCEPT ![t] = "running"]
  /\ holder' = [holder EXCEPT ![t] = MachineOf[w]]
  /\ token' = [token EXCEPT ![t] = attempts[t] + 1]
  /\ lease' = [lease EXCEPT ![t] = LeaseTicks]
  /\ attempts' = [attempts EXCEPT ![t] = attempts[t] + 1]
  /\ due' = [due EXCEPT ![t] = Floor]
  /\ Goto(w, "executing")
  /\ job' = [job EXCEPT ![w] = t]
  /\ claim' = [claim EXCEPT ![w] = attempts[t] + 1]
  /\ UNCHANGED <<exec, result, nextToken>>

(* claim_next_task.  Rows locked by others are skipped, so any claimable   *)
(* row may be the one taken.  The attempt budget is not looked at here.    *)
Claim(w, t) ==
  /\ phase[w] = "idle"
  /\ Claimable(t, MachineOf[w])
  /\ status' = [status EXCEPT ![t] = "running"]
  /\ holder' = [holder EXCEPT ![t] = MachineOf[w]]
  /\ token' = [token EXCEPT ![t] = nextToken]
  /\ lease' = [lease EXCEPT ![t] = LeaseTicks]
  /\ attempts' = [attempts EXCEPT ![t] = attempts[t] + 1]
  /\ due' = [due EXCEPT ![t] = Floor]
  /\ Goto(w, "executing")
  /\ job' = [job EXCEPT ![w] = t]
  /\ claim' = [claim EXCEPT ![w] = nextToken]
  /\ nextToken' = nextToken + 1
  /\ UNCHANGED <<exec, result>>

(* renew_task_lease, called while the executing thread runs on.            *)
Renew(w) ==
  /\ phase[w] = "executing"
  /\ LiveLease(w)
  /\ lease' = [lease EXCEPT ![job[w]] = LeaseTicks]
  /\ UNCHANGED <<status, exec, holder, token, attempts, due, result, loop, nextToken>>

(* The renewal is refused: the worker raises, but leaving the thread pool  *)
(* waits for the executing thread, which goes on until it returns.         *)
RenewRefused(w) ==
  /\ phase[w] = "executing"
  /\ ~LiveLease(w)
  /\ Goto(w, "lost")
  /\ UNCHANGED <<row, job, claim, nextToken>>

Finish(w) ==
  /\ phase[w] = "executing"
  /\ Goto(w, "finished")
  /\ UNCHANGED <<row, job, claim, nextToken>>

(* The executor raised, or the execution ended after the lease was lost.   *)
Raise(w) ==
  /\ phase[w] \in {"executing", "lost"}
  /\ Goto(w, "raised")
  /\ UNCHANGED <<row, job, claim, nextToken>>

RecordResult(w) ==
  /\ status' = [status EXCEPT ![job[w]] = "completed"]
  /\ result' = [result EXCEPT ![job[w]] = claim[w]]
  /\ ClearClaim({job[w]})
  /\ UNCHANGED <<exec, holder, attempts, due, nextToken>>

(* complete_task: the result is written only under a live claim; the       *)
(* worker goes on to its next task either way.                             *)
Complete(w) ==
  /\ phase[w] = "finished"
  /\ IF LiveLease(w) THEN RecordResult(w) ELSE UNCHANGED <<row, nextToken>>
  /\ Forget(w, "idle")

(* The connection fails in complete_task, before the commit or after it:   *)
(* the worker sees an exception in both cases and goes on to fail_task.    *)
CompleteBroken(w) ==
  /\ phase[w] = "finished"
  /\ \/ LiveLease(w) /\ RecordResult(w)
     \/ UNCHANGED <<row, nextToken>>
  /\ Goto(w, "raised")
  /\ UNCHANGED <<job, claim>>

(* Slip: one attempt too many before the task fails.                       *)
GiveUpLate(w, o) ==
  LET t == job[w]
      last == attempts[t] > MaxAttempts
  IN  /\ status' = [status EXCEPT ![t] = IF last THEN "failed" ELSE "queued"]
      /\ due' = [due EXCEPT ![t] =
                   IF last THEN Floor ELSE AtLeastFloor(RetryDelay(attempts[t]) + o)]
      /\ ClearClaim({t})
      /\ UNCHANGED <<exec, holder, attempts, result>>

(* fail_task: a claim still in the row is given up, even when its lease    *)
(* has run out; the task waits for its retry time, taken from the host's   *)
(* clock, or fails for good.  A superseded claim changes nothing.          *)
GiveUp(w, o) ==
  LET t == job[w]
      last == attempts[t] >= MaxAttempts
  IN  /\ status' = [status EXCEPT ![t] = IF last THEN "failed" ELSE "queued"]
      /\ due' = [due EXCEPT ![t] =
                   IF last THEN Floor ELSE AtLeastFloor(RetryDelay(attempts[t]) + o)]
      /\ ClearClaim({t})
      /\ UNCHANGED <<exec, holder, attempts, result>>

(* Slip: the task is given up by its id, whoever holds it now.             *)
FailAnyone(w, o) ==
  /\ phase[w] = "raised"
  /\ IF status[job[w]] = "running" THEN GiveUp(w, o) ELSE UNCHANGED row
  /\ Forget(w, "idle")
  /\ UNCHANGED nextToken

Fail(w, o) ==
  /\ phase[w] = "raised"
  /\ IF Owns(w) THEN GiveUp(w, o) ELSE UNCHANGED row
  /\ Forget(w, "idle")
  /\ UNCHANGED nextToken

(* The process dies wherever it is; what it held stays in the table.       *)
Crash(w) ==
  /\ phase[w] # "down"
  /\ Forget(w, "down")
  /\ UNCHANGED <<row, nextToken>>

Restart(w) ==
  /\ phase[w] = "down"
  /\ Goto(w, "idle")
  /\ UNCHANGED <<row, job, claim, nextToken>>
-----------------------------------------------------------------------------
(* Slips of Expired: a lease ending now counts as expired; a row that is   *)
(* no longer running still does.                                           *)
ExpiredEarly(o) == {t \in Tasks : status[t] = "running" /\ lease[t] <= o}
ExpiredAnyStatus(o) == {t \in Tasks : status[t] # "absent" /\ lease[t] < o}

(* The claims the steward takes for abandoned, on a clock offset by o.     *)
Expired(o) == {t \in Tasks : status[t] = "running" /\ lease[t] < o}

(* Where a sweep or a failover sends each queued task.  Which tasks may    *)
(* move, and where, is routing policy: here any of them may go anywhere.   *)
Routings == [Tasks -> Machines]
Rerouted(r) ==
  exec' = [t \in Tasks |-> IF status[t] = "queued" THEN r[t] ELSE exec[t]]

(* Slip: one attempt too many, as in GiveUpLate.                           *)
RecoverLate(o, expired) ==
  LET spent == {t \in expired : attempts[t] > MaxAttempts}
  IN  /\ status' = [t \in Tasks |-> IF t \in spent THEN "failed"
                                    ELSE IF t \in expired THEN "queued" ELSE status[t]]
      /\ due' = [t \in Tasks |-> IF t \in expired \ spent
                                 THEN AtLeastFloor(RetryDelay(attempts[t]) + o) ELSE due[t]]
      /\ ClearClaim(expired)

(* steward_queue: one transaction that returns the expired claims to the   *)
(* queue, or fails them for good, and moves queued tasks between machines. *)
(* A row another transaction holds, or one beyond the sweep's limit, is    *)
(* left for a later sweep.                                                 *)
Recover(o, expired) ==
  LET spent == {t \in expired : attempts[t] >= MaxAttempts}
  IN  /\ status' = [t \in Tasks |-> IF t \in spent THEN "failed"
                                    ELSE IF t \in expired THEN "queued" ELSE status[t]]
      /\ due' = [t \in Tasks |-> IF t \in expired \ spent
                                 THEN AtLeastFloor(RetryDelay(attempts[t]) + o) ELSE due[t]]
      /\ ClearClaim(expired)

Sweep(o, locked, r) ==
  /\ Recover(o, Expired(o) \ locked)
  /\ Rerouted(r)
  /\ UNCHANGED <<holder, attempts, result, loop, nextToken>>

(* evaluate_failover: queued tasks leave a machine.                        *)
Failover(r) ==
  /\ Rerouted(r)
  /\ UNCHANGED <<status, holder, token, lease, attempts, due, result, loop, nextToken>>

Tick ==
  /\ lease' = [t \in Tasks |-> IF status[t] = "running" THEN Down(lease[t]) ELSE lease[t]]
  /\ due' = [t \in Tasks |-> IF status[t] = "queued" THEN Down(due[t]) ELSE due[t]]
  /\ UNCHANGED <<status, exec, holder, token, attempts, result, loop, nextToken>>

WorkerStep(w) ==
  \/ \E t \in Tasks : Claim(w, t)
  \/ Renew(w) \/ RenewRefused(w) \/ Finish(w) \/ Raise(w)
  \/ Complete(w) \/ CompleteBroken(w)
  \/ \E o \in Offsets : Fail(w, o)
  \/ Crash(w) \/ Restart(w)

StewardStep ==
  \/ \E o \in Offsets, locked \in SUBSET Tasks, r \in Routings : Sweep(o, locked, r)
  \/ \E r \in Routings : Failover(r)

Next ==
  \/ \E t \in Tasks, m \in Machines : Create(t, m)
  \/ \E w \in Workers : WorkerStep(w)
  \/ StewardStep
  \/ Tick

Spec == Init /\ [][Next]_vars

-----------------------------------------------------------------------------
(* Two workers never hold one claim, and a claim found in a row was handed *)
(* to a worker of the machine the row names, for that very task            *)
(* (claim_next_task; a new uuid4 per claim, for update skip locked).       *)
OneHolder ==
  /\ \A v, w \in Workers : claim[v] # 0 /\ claim[v] = claim[w] => v = w
  /\ \A w \in Workers, t \in Tasks :
       claim[w] # 0 /\ token[t] = claim[w]
         => job[w] = t /\ status[t] = "running" /\ holder[t] = MachineOf[w]

(* A queued task always has an attempt left: claim_next_task does not look *)
(* at the budget, so every path back to the queue (fail_task, the          *)
(* steward) has to; and a task is given up only with its budget spent.     *)
BudgetKept ==
  \A t \in Tasks :
    /\ status[t] = "queued" => attempts[t] < MaxAttempts
    /\ status[t] = "failed" => attempts[t] = MaxAttempts

(* The result on record is the work of the last claim ever made on the     *)
(* task: no worker that is still executing it holds a newer one.           *)
ResultIsLatest ==
  \A t \in Tasks, w \in Workers :
    status[t] = "completed" /\ job[w] = t => claim[w] <= result[t]

(* A worker whose claim is no longer in the row leaves the row alone, for  *)
(* as long as it goes on believing it works on the task: late results,     *)
(* renewals and failures are refused (the guards of complete_task,         *)
(* renew_task_lease and fail_task).                                        *)
RowOf(t) == <<status[t], exec[t], holder[t], token[t], lease[t], attempts[t], due[t], result[t]>>

StaleWorkerHarmless ==
  [][\A w \in Workers, t \in Tasks :
       job[w] = t /\ ~Owns(w) /\ phase[w]' # phase[w] => RowOf(t)' = RowOf(t)]_vars

(* A claim whose lease still has MaxOffset ticks to run, or more, is ended *)
(* only by the worker that made it: the steward's clock may be ahead, but  *)
(* not by more than that (queue_manager.py compares leases with the host's *)
(* clock, orchestrator.py with the database's).                            *)
LeaseProtects ==
  [][\A t \in Tasks :
       /\ status[t] = "running" /\ lease[t] >= MaxOffset
       /\ <<status[t], token[t]>>' # <<status[t], token[t]>>
       => \E w \in Workers : Owns(w) /\ job[w] = t /\ phase[w]' # phase[w]]_vars

(* enforce_worker_claim_protocol, the trigger on tasks: what it lets an    *)
(* update of status do, with the session settings of complete_task.        *)
TriggerAllows(t, sessionToken, sessionMachine) ==
  /\ status[t]' = "running" /\ status[t] # "running" => token[t]' # 0
  /\ status[t]' = "completed" /\ status[t] # "completed"
       => /\ status[t] = "running" /\ token[t] # 0
          /\ result[t]' # 0
          /\ sessionToken = token[t] /\ sessionMachine = holder[t]
          /\ lease[t] > 0

(* The trigger never has to refuse what the program writes: every          *)
(* completion comes from a session that owns the claim, under a live lease.*)
TriggerSilent ==
  [][\A t \in Tasks :
       status[t]' # status[t] =>
         \/ \E w \in Workers : job[w] = t /\ TriggerAllows(t, claim[w], MachineOf[w])
         \/ TriggerAllows(t, 0, holder[t])]_vars

(* The queue keeps the ledger's promise.                                   *)
StageOf(s) ==
  CASE s = "absent" -> "absent" [] s = "queued" -> "waiting" [] s = "running" -> "working"
    [] s = "completed" -> "done" [] s = "failed" -> "dead"

Ledger == INSTANCE TaskLedger WITH
            stage <- [t \in Tasks |-> StageOf(status[t])], tries <- attempts

KeepsLedger == Ledger!Spec
=============================================================================
