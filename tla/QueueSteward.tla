---------------------------- MODULE QueueSteward ----------------------------
(***************************************************************************)
(* Where queued work goes: the routing half of the queue steward           *)
(* (queue_manager.py) and the failover of a machine (failover.py), against *)
(* workers that claim, machines that fall silent, and machines that send   *)
(* heartbeats without a worker behind them.  Who may settle a claim is the *)
(* business of TaskQueue; here a claim is only a task that runs.           *)
(*                                                                         *)
(* The steward's transaction is READ COMMITTED: it counts the load of the  *)
(* machines in one statement (Survey), picks and locks tasks in the next   *)
(* (Pick), goes through them one by one (Send, Keep) and commits, and the  *)
(* others go on in between.                                                *)
(***************************************************************************)
EXTENDS Integers, FiniteSets

CONSTANTS
  Tasks,       \* the rows of table tasks, a number each: priority, then age
  Machines,    \* the rows of table machines, a number each: order of their ids
  Claiming,    \* the machines whose worker polls; the others only beat
  Steady,      \* machines that never fall silent
  Alarmed,     \* machines whose telemetry, or operator, asks for a failover
  Held,        \* tasks held for an approval
  Pinned,      \* tasks pinned to their machine, no_failover or local-resource
  Staffed,     \* machines that an active agent is assigned to
  Capacity,    \* machines.capacity_weight, at least 1
  Grace,       \* QUEUE_GRACE_SECONDS, in ticks
  Starvation,  \* QUEUE_STARVATION_SECONDS
  Lease,       \* LEASE_SECONDS
  Stale,       \* HEARTBEAT_STALE_SECONDS
  MaxMoves,    \* MAX_MOVES_PER_SWEEP
  Window       \* how many queued tasks a sweep looks at: max_moves * 4

ASSUME StewardAssumption ==
  /\ Tasks \subseteq Nat \ {0} /\ IsFiniteSet(Tasks)
  /\ Machines \subseteq Nat /\ IsFiniteSet(Machines)
  /\ {Claiming, Steady, Alarmed, Staffed} \subseteq SUBSET Machines
  /\ Held \subseteq Tasks /\ Pinned \subseteq Tasks
  /\ Capacity \in [Machines -> Nat \ {0}]
  /\ {Grace, Starvation, Lease, Stale, MaxMoves, Window} \subseteq Nat \ {0}
  /\ Grace <= Starvation

VARIABLES
  stage,    \* tasks.status: "absent", "queued", "running" or "settled"
  exec,     \* tasks.execution_machine_id
  idle,     \* now() - tasks.updated_at, in ticks
  gen,      \* tasks.assignment_generation
  up,       \* machines that send heartbeats
  seen,     \* now() - machine_status_current.last_seen_at
  sweep     \* the steward's transaction: what it read, locked and decided

work  == <<stage, exec, idle, gen>>
fleet == <<up, seen>>
vars  == <<work, fleet, sweep>>

(* Ages and generations are counted no further than the code tells apart.  *)
CapOf(S) == CHOOSE n \in S : \A k \in S : k <= n
MaxIdle  == CapOf({Starvation, Lease + 1})
MaxGen   == 2
UpTo(n, cap) == IF n < cap THEN n ELSE cap

Load    == [running : Nat, queued : Nat]
NoSweep == [step |-> "off", counted |-> <<>>, loads |-> <<>>,
            lapsed |-> {}, taken |-> {}, todo |-> {}, to |-> <<>>]

(* What the steward has locked: lapsed claims and the tasks it picked.     *)
Locked == sweep.lapsed \cup sweep.taken

TypeOK ==
  /\ stage \in [Tasks -> {"absent", "queued", "running", "settled"}]
  /\ exec \in [Tasks -> Machines]
  /\ idle \in [Tasks -> 0 .. MaxIdle]
  /\ gen \in [Tasks -> 0 .. MaxGen]
  /\ up \in [Machines -> BOOLEAN]
  /\ seen \in [Machines -> 0 .. Stale + 1]
  /\ DOMAIN sweep = DOMAIN NoSweep
  /\ sweep.step \in {"off", "counted", "routing"}
  /\ \A loads \in {sweep.counted, sweep.loads} :
       DOMAIN loads \subseteq Machines /\ loads \in [DOMAIN loads -> Load]
  /\ sweep.lapsed \subseteq Tasks /\ sweep.taken \subseteq Tasks /\ sweep.todo \subseteq Tasks
  /\ DOMAIN sweep.to \subseteq Tasks /\ sweep.to \in [DOMAIN sweep.to -> Machines]

Init ==
  /\ stage = [t \in Tasks |-> "absent"]
  /\ exec \in [Tasks -> Machines]
  /\ idle = [t \in Tasks |-> 0]
  /\ gen = [t \in Tasks |-> 0]
  /\ up = [m \in Machines |-> TRUE]
  /\ seen = [m \in Machines |-> 0]
  /\ sweep = NoSweep

Portable(t) == t \notin Held /\ t \notin Pinned
Healthy == {m \in Machines : seen[m] <= Stale}

(* A statement that writes a task: its status and updated_at.              *)
Becomes(S, s) ==
  /\ stage' = [t \in Tasks |-> IF t \in S THEN s ELSE stage[t]]
  /\ idle' = [t \in Tasks |-> IF t \in S THEN 0 ELSE idle[t]]
-----------------------------------------------------------------------------
(* The workers and the machines.                                           *)

Create(t, m) ==
  /\ stage[t] = "absent"
  /\ Becomes({t}, "queued")
  /\ exec' = [exec EXCEPT ![t] = m]
  /\ UNCHANGED <<gen, fleet, sweep>>

(* What claim_next_task finds for the worker of m, when that worker is not *)
(* already executing a task.                                               *)
Claimable(m) ==
  IF /\ up[m] /\ m \in Claiming
     /\ \A u \in Tasks : ~(stage[u] = "running" /\ exec[u] = m)
  THEN {t \in Tasks \ Held : stage[t] = "queued" /\ exec[t] = m}
  ELSE {}

(* Slip: the worker takes a row that the steward has locked.               *)
ClaimLocked(m) ==
  /\ \E t \in Claimable(m) : Becomes({t}, "running")
  /\ UNCHANGED <<exec, gen, fleet, sweep>>

Claim(m) ==
  /\ \E t \in Claimable(m) \ Locked : Becomes({t}, "running")
  /\ UNCHANGED <<exec, gen, fleet, sweep>>

(* renew_task_lease; the rows the steward has locked are out of reach.     *)
Renew(t) ==
  /\ stage[t] = "running" /\ idle[t] <= Lease /\ up[exec[t]]
  /\ t \notin Locked
  /\ Becomes({t}, "running")
  /\ UNCHANGED <<exec, gen, fleet, sweep>>

(* complete_task, or fail_task with or without an attempt left.            *)
Settle(t) ==
  /\ stage[t] = "running" /\ up[exec[t]] /\ t \notin Locked
  /\ Becomes({t}, "settled") \/ Becomes({t}, "queued")
  /\ UNCHANGED <<exec, gen, fleet, sweep>>

FallSilent(m) ==
  /\ up[m] /\ m \notin Steady
  /\ up' = [up EXCEPT ![m] = FALSE]
  /\ UNCHANGED <<work, seen, sweep>>

ComeBack(m) ==
  /\ ~up[m]
  /\ up' = [up EXCEPT ![m] = TRUE]
  /\ seen' = [seen EXCEPT ![m] = 0]
  /\ UNCHANGED <<work, sweep>>

(* A machine that is up beats, and its worker polls unless it is busy,     *)
(* every few seconds, well within a tick; a sweep takes less.              *)
Tick ==
  /\ sweep.step = "off"
  /\ \A m \in Machines : \A t \in Claimable(m) : idle[t] = 0
  /\ idle' = [t \in Tasks |-> IF stage[t] \in {"queued", "running"}
                              THEN UpTo(idle[t] + 1, MaxIdle) ELSE idle[t]]
  /\ seen' = [m \in Machines |-> IF up[m] THEN 0 ELSE UpTo(seen[m] + 1, Stale + 1)]
  /\ UNCHANGED <<stage, exec, gen, up, sweep>>
-----------------------------------------------------------------------------
(* The loads steward_queue goes by, and what it decides from them.         *)

Total(loads, m) == loads[m].running + loads[m].queued
HasRoom(loads, m) == Total(loads, m) < Capacity[m]

(* rank_fallback_targets: idle machines first, then the least loaded for   *)
(* their capacity, then by id.                                             *)
RanksBefore(loads, m, n) ==
  LET busy(x) == loads[x].running > 0
      fill(x, y) == Total(loads, x) * Capacity[y]
  IN  \/ ~busy(m) /\ busy(n)
      \/ busy(m) = busy(n) /\ fill(m, n) < fill(n, m)
      \/ busy(m) = busy(n) /\ fill(m, n) = fill(n, m) /\ m <= n

(* Slip: a full machine is no target, even for work with nowhere to stay.  *)
TargetsWithRoom(loads, source) ==
  {m \in DOMAIN loads \ {source} : HasRoom(loads, m)}

(* select_fallback_target: work that lost its machine goes to the first,   *)
(* full or not; other work to the first that has room.                     *)
Targets(loads, source) ==
  {m \in DOMAIN loads \ {source} : source \in DOMAIN loads => HasRoom(loads, m)}

(* Slip: starved work moves however often it has moved before.             *)
ShouldRerouteUncapped(loads, source, target, generation, waited) ==
  LET total == IF source \in DOMAIN loads THEN Total(loads, source) ELSE 0
      running == IF source \in DOMAIN loads THEN loads[source].running ELSE 0
  IN  \/ source \notin DOMAIN loads
      \/ /\ HasRoom(loads, target)
         /\ \/ total > Total(loads, target) + 1
            \/ running = 0 /\ waited >= Starvation

(* should_reroute_task, with the conditions its caller computes.           *)
ShouldReroute(loads, source, target, generation, waited) ==
  LET total == IF source \in DOMAIN loads THEN Total(loads, source) ELSE 0
      running == IF source \in DOMAIN loads THEN loads[source].running ELSE 0
  IN  \/ source \notin DOMAIN loads
      \/ /\ HasRoom(loads, target)
         /\ \/ total > Total(loads, target) + 1
            \/ running = 0 /\ generation < 2 /\ waited >= Starvation

(* Slip: the loads are left as they were counted while tasks move.         *)
ShiftNot(loads, source, target) == loads

(* A task moves in the loads the loop goes on with.                        *)
Shift(loads, source, target) ==
  [m \in DOMAIN loads |->
     CASE m = target -> [loads[m] EXCEPT !.queued = @ + 1]
       [] m = source -> [loads[m] EXCEPT !.queued = IF @ > 0 THEN @ - 1 ELSE 0]
       [] OTHER -> loads[m]]

(* Queued tasks past their grace: the first Window of those not locked.    *)
Candidates(locked) ==
  LET waiting == {t \in Tasks \ locked : stage[t] = "queued" /\ idle[t] >= Grace}
  IN  {t \in waiting : Cardinality({u \in waiting : u < t}) < Window}
-----------------------------------------------------------------------------
(* Slip: only machines that can be asked about their claims are recovered. *)
LapsedOnline == {t \in Tasks : stage[t] = "running" /\ idle[t] > Lease /\ exec[t] \in Healthy}

(* Claims whose lease ran out: updated_at was set when it was last renewed.*)
LapsedClaims == {t \in Tasks : stage[t] = "running" /\ idle[t] > Lease}

CountLoads(lapsed) ==
  [m \in Healthy |->
     [running |-> Cardinality({t \in Tasks \ lapsed : stage[t] = "running" /\ exec[t] = m}),
      queued |-> Cardinality({t \in Tasks : exec[t] = m /\ (stage[t] = "queued" \/ t \in lapsed)})]]

(* steward_queue, up to the count of the loads: claims whose lease ran out *)
(* are locked and returned to the queue, which the count already sees.     *)
(* One steward at a time: the others find the advisory lock taken.         *)
Survey ==
  /\ sweep.step = "off"
  /\ \E lapsed \in SUBSET LapsedClaims :
       /\ Cardinality(lapsed) = UpTo(Cardinality(LapsedClaims), MaxMoves)
       /\ sweep' = [NoSweep EXCEPT !.step = "counted", !.lapsed = lapsed,
                           !.counted = CountLoads(lapsed), !.loads = CountLoads(lapsed)]
  /\ UNCHANGED <<work, fleet>>

(* The next statement locks the candidates that no other transaction has.  *)
Pick(locked) ==
  /\ sweep.step = "counted"
  /\ sweep' = [sweep EXCEPT !.step = "routing", !.taken = Candidates(locked),
                            !.todo = Candidates(locked)]
  /\ UNCHANGED <<work, fleet>>

(* The loop over the candidates, in their order, ends after MaxMoves moves.*)
NextInLine(t) ==
  /\ sweep.step = "routing" /\ Cardinality(DOMAIN sweep.to) < MaxMoves
  /\ t \in sweep.todo /\ \A u \in sweep.todo : t <= u

Chosen(t, m) ==
  LET targets == Targets(sweep.loads, exec[t])
  IN  /\ Portable(t) /\ m \in Staffed
      /\ m \in targets /\ \A n \in targets : RanksBefore(sweep.loads, m, n)
      /\ ShouldReroute(sweep.loads, exec[t], m, gen[t], idle[t])

Send(t, m) ==
  /\ NextInLine(t) /\ Chosen(t, m)
  /\ sweep' = [sweep EXCEPT !.todo = @ \ {t},
        !.loads = Shift(@, exec[t], m),
        !.to = [u \in DOMAIN @ \cup {t} |-> IF u = t THEN m ELSE sweep.to[u]]]
  /\ UNCHANGED <<work, fleet>>

Keep(t) ==
  /\ NextInLine(t) /\ ~\E m \in Machines : Chosen(t, m)
  /\ sweep' = [sweep EXCEPT !.todo = @ \ {t}]
  /\ UNCHANGED <<work, fleet>>

(* Everything is committed.  A lapsed claim with no attempt left fails     *)
(* instead of going back to the queue.                                     *)
CommitSweep ==
  LET moved == DOMAIN sweep.to
  IN  /\ sweep.step = "routing"
      /\ sweep.todo = {} \/ Cardinality(moved) = MaxMoves
      /\ exec' = [t \in Tasks |-> IF t \in moved THEN sweep.to[t] ELSE exec[t]]
      /\ gen' = [t \in Tasks |-> IF t \in moved THEN UpTo(gen[t] + 1, MaxGen) ELSE gen[t]]
      /\ idle' = [t \in Tasks |-> IF t \in moved \cup sweep.lapsed THEN 0 ELSE idle[t]]
      /\ \E spent \in SUBSET sweep.lapsed :
           stage' = [t \in Tasks |-> CASE t \in spent -> "settled"
                                       [] t \in sweep.lapsed \ spent -> "queued"
                                       [] OTHER -> stage[t]]
      /\ sweep' = NoSweep
      /\ UNCHANGED fleet

(* The host or its connection fails: the transaction is rolled back.  It   *)
(* leaves nothing, so it may as well do so before it picks tasks.          *)
Rollback ==
  /\ sweep.step = "counted"
  /\ sweep' = NoSweep
  /\ UNCHANGED <<work, fleet>>

(* evaluate_failover, for a machine gone silent or one an alarm was raised *)
(* about: queued tasks leave for a machine that is online, chosen by the   *)
(* fallback tables; pins, holds and generations are not looked at.         *)
Failover(m) ==
  /\ m \in Alarmed \/ m \notin Healthy
  /\ \E locked \in SUBSET Tasks, to \in [Tasks -> Healthy \ {m}] :
       LET moved == {t \in Tasks \ (locked \cup Locked) : stage[t] = "queued" /\ exec[t] = m}
       IN  /\ Becomes(moved, "queued")
           /\ exec' = [t \in Tasks |-> IF t \in moved THEN to[t] ELSE exec[t]]
  /\ UNCHANGED <<gen, fleet, sweep>>

WorkerStep ==
  \/ \E t \in Tasks, m \in Machines : Create(t, m)
  \/ \E m \in Machines : Claim(m)
  \/ \E t \in Tasks : Renew(t) \/ Settle(t)

FleetStep == \E m \in Machines : FallSilent(m) \/ ComeBack(m)

StewardStep ==
  \/ Survey \/ CommitSweep \/ Rollback
  \/ \E locked \in SUBSET Tasks : Pick(locked)
  \/ \E t \in Tasks : Keep(t) \/ \E m \in Machines : Send(t, m)

Next == WorkerStep \/ FleetStep \/ Tick \/ StewardStep \/ \E m \in Machines : Failover(m)

Spec == Init /\ [][Next]_vars

(* Every worker sweeps every five seconds, and the API too, so sweeps go   *)
(* on whatever host is down, and time goes on between them; no row stays   *)
(* locked for long, so again and again a sweep finds none locked.  A       *)
(* worker that polls claims, and settles what it executes.                 *)
Fairness ==
  /\ SF_vars(Tick) /\ WF_vars(Survey) /\ SF_vars(Pick({})) /\ WF_vars(CommitSweep)
  /\ \A t \in Tasks : WF_vars(Keep(t) \/ \E m \in Machines : Send(t, m))
  /\ \A m \in Machines : WF_vars(Claim(m))
  /\ \A t \in Tasks : WF_vars(Settle(t))

FairSpec == Spec /\ Fairness
-----------------------------------------------------------------------------
(* However the fleet changes while a sweep runs, it never sends work from  *)
(* one healthy machine to another beyond the room it counted there: the    *)
(* moves of a sweep add up (the loads the loop of steward_queue adjusts).  *)
SweepFillsNoMachine ==
  [][\A m \in DOMAIN sweep.counted :
       LET moved == {t \in Tasks : exec'[t] # exec[t]}
           into == {t \in moved : exec'[t] = m /\ exec[t] \in DOMAIN sweep.counted}
           out == {t \in moved : exec[t] = m}
       IN  CommitSweep /\ into # {} =>
             Total(sweep.counted, m) + Cardinality(into) - Cardinality(out) <= Capacity[m]]_vars

(* Nobody moves a task from under the worker that executes it: the sweep   *)
(* decides on a task long before it commits, and failover does not look    *)
(* at the status when it updates (failover.py), so both go by their locks, *)
(* and workers pass over what is locked (claim_next_task, "skip locked").  *)
RunningStaysPut ==
  [][\A t \in Tasks : stage[t] = "running" => exec'[t] = exec[t]]_vars

(* Portable work never stays queued for good on a machine that has gone    *)
(* silent, while another is healthy (select_fallback_target: a full one    *)
(* will do).  Steady is not empty where this is checked.                   *)
Stranded(t) == stage[t] = "queued" /\ Portable(t) /\ exec[t] \notin Healthy
WorkLeavesDeadMachines == \A t \in Tasks : []<>~Stranded(t)

(* A task does not stay claimed by a machine that is gone: its lease runs  *)
(* out and a sweep returns it (steward_queue, lease_recovered).            *)
AbandonedClaimsReturn ==
  \A t \in Tasks : []<>~(stage[t] = "running" /\ exec[t] \notin Healthy)

(* When the fleet stays as it is and no alarm is raised, the steward's     *)
(* moves come to an end, even between machines that never claim: "the      *)
(* generation cap prevents ping-pong"                                      *)
(* (docs/PET_COMMAND_CENTER_AUDIT.md:13).                                  *)
MovesEnd == (<>[][UNCHANGED up]_vars) => <>[][UNCHANGED exec]_vars

(* "Eligible portable work cannot remain indefinitely on a heartbeat-only  *)
(* non-claiming source" (docs/PET_COMMAND_CENTER_AUDIT.md:31), given a     *)
(* claiming machine that is up.                                            *)
StuckOnSilentWorker(t) ==
  /\ stage[t] = "queued" /\ Portable(t)
  /\ exec[t] \notin Claiming /\ \E m \in Claiming : up[m]
NoIndefiniteStarvation == \A t \in Tasks : []<>~StuckOnSilentWorker(t)
=============================================================================
