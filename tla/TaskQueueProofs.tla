-------------------------- MODULE TaskQueueProofs --------------------------
(***************************************************************************)
(* Theorems about TaskQueue for every set of tasks, machines and workers,  *)
(* every number of workers on a machine, every budget, lease length and    *)
(* clock offset.                                                           *)
(***************************************************************************)
EXTENDS TaskQueue, TLAPS

LEMMA FloorType == Floor \in Int /\ Floor < 0
  BY QueueAssumption DEF Floor

LEMMA RetryDelayType == ASSUME NEW n \in Nat PROVE RetryDelay(n) \in Nat
  BY QueueAssumption DEF RetryDelay

LEMMA TimerTypes ==
  ASSUME NEW x \in Int
  PROVE  Down(x) \in Int /\ AtLeastFloor(x) \in Int
  BY FloorType DEF Down, AtLeastFloor

(* The invariant that induction needs beside the types: how the tokens in  *)
(* the rows and in the workers' hands relate, and what each status implies *)
(* about the rest of a row.                                                *)
TokensIssued ==
  /\ \A t \in Tasks : token[t] < nextToken /\ result[t] < nextToken
  /\ \A w \in Workers : claim[w] < nextToken

RowShape ==
  /\ \A t \in Tasks : status[t] = "running" <=> token[t] # 0
  /\ \A t \in Tasks : status[t] = "running" => attempts[t] > 0
  /\ \A t \in Tasks : status[t] = "absent" => attempts[t] = 0
  /\ \A w \in Workers : claim[w] # 0 <=> job[w] # NoTask
  /\ \A w \in Workers : claim[w] # 0 <=> phase[w] \notin {"idle", "down"}

ClaimOrder ==
  \A w \in Workers, t \in Tasks :
    job[w] = t =>
      /\ status[t] # "absent"
      /\ status[t] = "running" => claim[w] <= token[t]
      /\ status[t] = "completed" => claim[w] <= result[t]

TokensDistinct ==
  \A t, u \in Tasks : token[t] # 0 /\ token[t] = token[u] => t = u

IInv == TypeOK /\ TokensIssued /\ RowShape /\ ClaimOrder /\ TokensDistinct
          /\ OneHolder /\ BudgetKept

LEMMA InitIInv == Init => IInv
  BY QueueAssumption, FloorType
  DEF Init, IInv, TypeOK, TokensIssued, RowShape, ClaimOrder, TokensDistinct,
      OneHolder, BudgetKept

-----------------------------------------------------------------------------
(* Each step preserves the invariant.                                      *)

LEMMA CreateStep ==
  ASSUME IInv, NEW t \in Tasks, NEW m \in Machines, Create(t, m)
  PROVE  IInv'
  <1> USE QueueAssumption, FloorType DEF IInv, Create, loop
  <1>1. TypeOK'
    BY DEF TypeOK, BudgetKept
  <1>2. TokensIssued'
    BY DEF TokensIssued, TypeOK
  <1>3. RowShape'
    BY DEF RowShape, TypeOK, TokensIssued, OneHolder
  <1>4. ClaimOrder'
    BY DEF ClaimOrder, TypeOK, TokensIssued, RowShape
  <1>5. TokensDistinct'
    BY DEF TokensDistinct, TypeOK, TokensIssued, RowShape
  <1>6. OneHolder'
    BY DEF OneHolder, TypeOK, TokensIssued, RowShape
  <1>7. BudgetKept'
    BY DEF BudgetKept, TypeOK, RowShape
  <1> QED
    BY <1>1, <1>2, <1>3, <1>4, <1>5, <1>6, <1>7

LEMMA ClaimStep ==
  ASSUME IInv, NEW w \in Workers, NEW t \in Tasks, Claim(w, t)
  PROVE  IInv'
  <1> USE QueueAssumption, FloorType DEF IInv, Claim, Claimable, Goto
  <1>1. TypeOK'
    BY DEF TypeOK, BudgetKept
  <1>2. TokensIssued'
    BY DEF TokensIssued, TypeOK
  <1>3. RowShape'
    BY DEF RowShape, TypeOK, TokensIssued, OneHolder
  <1>4. ClaimOrder'
    BY DEF ClaimOrder, TypeOK, TokensIssued, RowShape
  <1>5. TokensDistinct'
    BY DEF TokensDistinct, TypeOK, TokensIssued, RowShape
  <1>6. OneHolder'
    BY DEF OneHolder, TypeOK, TokensIssued, RowShape
  <1>7. BudgetKept'
    BY DEF BudgetKept, TypeOK, RowShape
  <1> QED
    BY <1>1, <1>2, <1>3, <1>4, <1>5, <1>6, <1>7

LEMMA RenewStep ==
  ASSUME IInv, NEW w \in Workers, Renew(w)
  PROVE  IInv'
  <1> USE QueueAssumption, FloorType DEF IInv, Renew, LiveLease, Owns, loop
  <1>1. TypeOK'
    BY DEF TypeOK, BudgetKept
  <1>2. TokensIssued'
    BY DEF TokensIssued, TypeOK
  <1>3. RowShape'
    BY DEF RowShape, TypeOK, TokensIssued, OneHolder
  <1>4. ClaimOrder'
    BY DEF ClaimOrder, TypeOK, TokensIssued, RowShape
  <1>5. TokensDistinct'
    BY DEF TokensDistinct, TypeOK, TokensIssued, RowShape
  <1>6. OneHolder'
    BY DEF OneHolder, TypeOK, TokensIssued, RowShape
  <1>7. BudgetKept'
    BY DEF BudgetKept, TypeOK, RowShape
  <1> QED
    BY <1>1, <1>2, <1>3, <1>4, <1>5, <1>6, <1>7

LEMMA RenewRefusedStep ==
  ASSUME IInv, NEW w \in Workers, RenewRefused(w)
  PROVE  IInv'
  <1> USE QueueAssumption, FloorType DEF IInv, RenewRefused, Goto, row
  <1>1. TypeOK'
    BY DEF TypeOK, BudgetKept
  <1>2. TokensIssued'
    BY DEF TokensIssued, TypeOK
  <1>3. RowShape'
    BY DEF RowShape, TypeOK, TokensIssued, OneHolder
  <1>4. ClaimOrder'
    BY DEF ClaimOrder, TypeOK, TokensIssued, RowShape
  <1>5. TokensDistinct'
    BY DEF TokensDistinct, TypeOK, TokensIssued, RowShape
  <1>6. OneHolder'
    BY DEF OneHolder, TypeOK, TokensIssued, RowShape
  <1>7. BudgetKept'
    BY DEF BudgetKept, TypeOK, RowShape
  <1> QED
    BY <1>1, <1>2, <1>3, <1>4, <1>5, <1>6, <1>7

LEMMA FinishStep ==
  ASSUME IInv, NEW w \in Workers, Finish(w)
  PROVE  IInv'
  <1> USE QueueAssumption, FloorType DEF IInv, Finish, Goto, row
  <1>1. TypeOK'
    BY DEF TypeOK, BudgetKept
  <1>2. TokensIssued'
    BY DEF TokensIssued, TypeOK
  <1>3. RowShape'
    BY DEF RowShape, TypeOK, TokensIssued, OneHolder
  <1>4. ClaimOrder'
    BY DEF ClaimOrder, TypeOK, TokensIssued, RowShape
  <1>5. TokensDistinct'
    BY DEF TokensDistinct, TypeOK, TokensIssued, RowShape
  <1>6. OneHolder'
    BY DEF OneHolder, TypeOK, TokensIssued, RowShape
  <1>7. BudgetKept'
    BY DEF BudgetKept, TypeOK, RowShape
  <1> QED
    BY <1>1, <1>2, <1>3, <1>4, <1>5, <1>6, <1>7

LEMMA RaiseStep ==
  ASSUME IInv, NEW w \in Workers, Raise(w)
  PROVE  IInv'
  <1> USE QueueAssumption, FloorType DEF IInv, Raise, Goto, row
  <1>1. TypeOK'
    BY DEF TypeOK, BudgetKept
  <1>2. TokensIssued'
    BY DEF TokensIssued, TypeOK
  <1>3. RowShape'
    BY DEF RowShape, TypeOK, TokensIssued, OneHolder
  <1>4. ClaimOrder'
    BY DEF ClaimOrder, TypeOK, TokensIssued, RowShape
  <1>5. TokensDistinct'
    BY DEF TokensDistinct, TypeOK, TokensIssued, RowShape
  <1>6. OneHolder'
    BY DEF OneHolder, TypeOK, TokensIssued, RowShape
  <1>7. BudgetKept'
    BY DEF BudgetKept, TypeOK, RowShape
  <1> QED
    BY <1>1, <1>2, <1>3, <1>4, <1>5, <1>6, <1>7

LEMMA CrashStep ==
  ASSUME IInv, NEW w \in Workers, Crash(w)
  PROVE  IInv'
  <1> USE QueueAssumption, FloorType DEF IInv, Crash, Forget, Goto, row
  <1>1. TypeOK'
    BY DEF TypeOK, BudgetKept
  <1>2. TokensIssued'
    BY DEF TokensIssued, TypeOK
  <1>3. RowShape'
    BY DEF RowShape, TypeOK, TokensIssued, OneHolder
  <1>4. ClaimOrder'
    BY DEF ClaimOrder, TypeOK, TokensIssued, RowShape
  <1>5. TokensDistinct'
    BY DEF TokensDistinct, TypeOK, TokensIssued, RowShape
  <1>6. OneHolder'
    BY DEF OneHolder, TypeOK, TokensIssued, RowShape
  <1>7. BudgetKept'
    BY DEF BudgetKept, TypeOK, RowShape
  <1> QED
    BY <1>1, <1>2, <1>3, <1>4, <1>5, <1>6, <1>7

LEMMA RestartStep ==
  ASSUME IInv, NEW w \in Workers, Restart(w)
  PROVE  IInv'
  <1> USE QueueAssumption, FloorType DEF IInv, Restart, Goto, row
  <1>1. TypeOK'
    BY DEF TypeOK, BudgetKept
  <1>2. TokensIssued'
    BY DEF TokensIssued, TypeOK
  <1>3. RowShape'
    BY DEF RowShape, TypeOK, TokensIssued, OneHolder
  <1>4. ClaimOrder'
    BY DEF ClaimOrder, TypeOK, TokensIssued, RowShape
  <1>5. TokensDistinct'
    BY DEF TokensDistinct, TypeOK, TokensIssued, RowShape
  <1>6. OneHolder'
    BY DEF OneHolder, TypeOK, TokensIssued, RowShape
  <1>7. BudgetKept'
    BY DEF BudgetKept, TypeOK, RowShape
  <1> QED
    BY <1>1, <1>2, <1>3, <1>4, <1>5, <1>6, <1>7

LEMMA CompleteStep ==
  ASSUME IInv, NEW w \in Workers, Complete(w)
  PROVE  IInv'
  <1> USE QueueAssumption, FloorType DEF IInv, Complete, RecordResult, LiveLease, Owns, ClearClaim, Forget, Goto, row, loop
  <1>1. TypeOK'
    BY DEF TypeOK, BudgetKept
  <1>2. TokensIssued'
    BY DEF TokensIssued, TypeOK
  <1>3. RowShape'
    BY DEF RowShape, TypeOK, TokensIssued, OneHolder
  <1>4. ClaimOrder'
    BY DEF ClaimOrder, TypeOK, TokensIssued, RowShape
  <1>5. TokensDistinct'
    BY DEF TokensDistinct, TypeOK, TokensIssued, RowShape
  <1>6. OneHolder'
    BY DEF OneHolder, TypeOK, TokensIssued, RowShape
  <1>7. BudgetKept'
    BY DEF BudgetKept, TypeOK, RowShape
  <1> QED
    BY <1>1, <1>2, <1>3, <1>4, <1>5, <1>6, <1>7

LEMMA CompleteBrokenStep ==
  ASSUME IInv, NEW w \in Workers, CompleteBroken(w)
  PROVE  IInv'
  <1> USE QueueAssumption, FloorType DEF IInv, CompleteBroken, RecordResult, LiveLease, Owns, ClearClaim, Goto, row, loop
  <1>1. TypeOK'
    BY DEF TypeOK, BudgetKept
  <1>2. TokensIssued'
    BY DEF TokensIssued, TypeOK
  <1>3. RowShape'
    BY DEF RowShape, TypeOK, TokensIssued, OneHolder
  <1>4. ClaimOrder'
    BY DEF ClaimOrder, TypeOK, TokensIssued, RowShape
  <1>5. TokensDistinct'
    BY DEF TokensDistinct, TypeOK, TokensIssued, RowShape
  <1>6. OneHolder'
    BY DEF OneHolder, TypeOK, TokensIssued, RowShape
  <1>7. BudgetKept'
    BY DEF BudgetKept, TypeOK, RowShape
  <1> QED
    BY <1>1, <1>2, <1>3, <1>4, <1>5, <1>6, <1>7

LEMMA FailStep ==
  ASSUME IInv, NEW w \in Workers, NEW o \in Offsets, Fail(w, o)
  PROVE  IInv'
  <1> USE QueueAssumption, FloorType DEF IInv, Fail, GiveUp, Owns, ClearClaim, Forget, Goto, row, loop
  <1>1. TypeOK'
    <2>1. attempts[job[w]] \in Nat /\ o \in Int
      BY DEF TypeOK, RowShape
    <2>2. AtLeastFloor(RetryDelay(attempts[job[w]]) + o) \in Int
      BY <2>1, RetryDelayType, TimerTypes
    <2> QED
      BY <2>2 DEF TypeOK, BudgetKept
  <1>2. TokensIssued'
    BY DEF TokensIssued, TypeOK
  <1>3. RowShape'
    BY DEF RowShape, TypeOK, TokensIssued, OneHolder
  <1>4. ClaimOrder'
    BY DEF ClaimOrder, TypeOK, TokensIssued, RowShape
  <1>5. TokensDistinct'
    BY DEF TokensDistinct, TypeOK, TokensIssued, RowShape
  <1>6. OneHolder'
    BY DEF OneHolder, TypeOK, TokensIssued, RowShape
  <1>7. BudgetKept'
    BY DEF BudgetKept, TypeOK, RowShape
  <1> QED
    BY <1>1, <1>2, <1>3, <1>4, <1>5, <1>6, <1>7

LEMMA SweepStep ==
  ASSUME IInv, NEW o \in Offsets, NEW locked \in SUBSET Tasks, NEW r \in Routings, Sweep(o, locked, r)
  PROVE  IInv'
  <1> USE QueueAssumption, FloorType DEF IInv, Sweep, Expired, Recover, ClearClaim, Routings, Rerouted, loop
  <1>1. TypeOK'
    <2>1. o \in Int /\ \A t \in Tasks : attempts[t] \in Nat
      BY DEF TypeOK
    <2>2. \A t \in Tasks : AtLeastFloor(RetryDelay(attempts[t]) + o) \in Int
      BY <2>1, RetryDelayType, TimerTypes
    <2> QED
      BY <2>2 DEF TypeOK
  <1>2. TokensIssued'
    BY DEF TokensIssued, TypeOK
  <1>3. RowShape'
    <2>1. ASSUME NEW t \in Tasks
          PROVE  /\ status[t]' = "running" <=> token[t]' # 0
                 /\ status[t]' = "running" => attempts[t]' > 0
                 /\ status[t]' = "absent" => attempts[t]' = 0
      BY DEF RowShape, TypeOK
    <2> QED
      BY <2>1 DEF RowShape
  <1>4. ClaimOrder'
    BY DEF ClaimOrder, TypeOK, TokensIssued, RowShape
  <1>5. TokensDistinct'
    BY DEF TokensDistinct, TypeOK, TokensIssued, RowShape
  <1>6. OneHolder'
    BY DEF OneHolder, TypeOK, TokensIssued, RowShape
  <1>7. BudgetKept'
    <2>1. ASSUME NEW t \in Tasks
          PROVE  /\ status[t]' = "queued" => attempts[t]' < MaxAttempts
                 /\ status[t]' = "failed" => attempts[t]' = MaxAttempts
      BY DEF BudgetKept, TypeOK
    <2> QED
      BY <2>1 DEF BudgetKept
  <1> QED
    BY <1>1, <1>2, <1>3, <1>4, <1>5, <1>6, <1>7

LEMMA FailoverStep ==
  ASSUME IInv, NEW r \in Routings, Failover(r)
  PROVE  IInv'
  <1> USE QueueAssumption, FloorType DEF IInv, Failover, Routings, Rerouted, loop
  <1>1. TypeOK'
    BY DEF TypeOK, BudgetKept
  <1>2. TokensIssued'
    BY DEF TokensIssued, TypeOK
  <1>3. RowShape'
    BY DEF RowShape, TypeOK, TokensIssued, OneHolder
  <1>4. ClaimOrder'
    BY DEF ClaimOrder, TypeOK, TokensIssued, RowShape
  <1>5. TokensDistinct'
    BY DEF TokensDistinct, TypeOK, TokensIssued, RowShape
  <1>6. OneHolder'
    BY DEF OneHolder, TypeOK, TokensIssued, RowShape
  <1>7. BudgetKept'
    BY DEF BudgetKept, TypeOK, RowShape
  <1> QED
    BY <1>1, <1>2, <1>3, <1>4, <1>5, <1>6, <1>7

LEMMA TickStep ==
  ASSUME IInv, Tick
  PROVE  IInv'
  <1> USE QueueAssumption, FloorType DEF IInv, Tick, Down, loop
  <1>1. TypeOK'
    BY DEF TypeOK, BudgetKept
  <1>2. TokensIssued'
    BY DEF TokensIssued, TypeOK
  <1>3. RowShape'
    BY DEF RowShape, TypeOK, TokensIssued, OneHolder
  <1>4. ClaimOrder'
    BY DEF ClaimOrder, TypeOK, TokensIssued, RowShape
  <1>5. TokensDistinct'
    BY DEF TokensDistinct, TypeOK, TokensIssued, RowShape
  <1>6. OneHolder'
    BY DEF OneHolder, TypeOK, TokensIssued, RowShape
  <1>7. BudgetKept'
    BY DEF BudgetKept, TypeOK, RowShape
  <1> QED
    BY <1>1, <1>2, <1>3, <1>4, <1>5, <1>6, <1>7

LEMMA NextIInv == IInv /\ [Next]_vars => IInv'
  <1>1. ASSUME IInv, UNCHANGED vars PROVE IInv'
    BY <1>1 DEF vars, row, loop, IInv, TypeOK, TokensIssued, RowShape, ClaimOrder,
                TokensDistinct, OneHolder, BudgetKept
  <1>2. ASSUME IInv, NEW w \in Workers, WorkerStep(w) PROVE IInv'
    BY <1>2, ClaimStep, RenewStep, RenewRefusedStep, FinishStep, RaiseStep,
       CompleteStep, CompleteBrokenStep, FailStep, CrashStep, RestartStep
    DEF WorkerStep
  <1>3. ASSUME IInv, StewardStep PROVE IInv'
    BY <1>3, SweepStep, FailoverStep DEF StewardStep
  <1> QED
    BY <1>1, <1>2, <1>3, CreateStep, TickStep DEF Next

LEMMA SpecIInv == Spec => []IInv
  BY InitIInv, NextIInv, PTL DEF Spec

-----------------------------------------------------------------------------
(* Every row, every worker and every token always has its type.            *)
THEOREM TypeCorrect == Spec => []TypeOK
  <1>1. IInv => TypeOK
    BY DEF IInv
  <1> QED
    BY <1>1, SpecIInv, PTL

(* Claims are exclusive: no two workers ever hold the same one, and the    *)
(* one in a row is in the hands of no worker of another task or machine.   *)
THEOREM ClaimsExclusive == Spec => []OneHolder
  <1>1. IInv => OneHolder
    BY DEF IInv
  <1> QED
    BY <1>1, SpecIInv, PTL

(* No path back to the queue overdraws a task's attempts, and no task is   *)
(* given up early.                                                         *)
THEOREM BudgetRespected == Spec => []BudgetKept
  <1>1. IInv => BudgetKept
    BY DEF IInv
  <1> QED
    BY <1>1, SpecIInv, PTL

(* The result on record is never older than a claim still being worked on. *)
THEOREM LatestResultRecorded == Spec => []ResultIsLatest
  <1>1. IInv => ResultIsLatest
    BY DEF IInv, ClaimOrder, ResultIsLatest
  <1> QED
    BY <1>1, SpecIInv, PTL

(* A superseded worker changes nothing in the row it believes it owns.     *)
THEOREM StaleWorkersHarmless == Spec => StaleWorkerHarmless
  <1> DEFINE Harmless == \A w \in Workers, t \in Tasks :
               job[w] = t /\ ~Owns(w) /\ phase[w]' # phase[w] => RowOf(t)' = RowOf(t)
  <1>1. IInv /\ [Next]_vars => [Harmless]_vars
    <2> SUFFICES ASSUME IInv, Next, NEW w \in Workers, NEW t \in Tasks,
                        job[w] = t, ~Owns(w), phase[w]' # phase[w]
                 PROVE  RowOf(t)' = RowOf(t)
      OBVIOUS
    <2>1. t # NoTask
      BY QueueAssumption
    <2>2. CASE \E u \in Tasks, m \in Machines : Create(u, m)
      BY <2>2 DEF Create, loop
    <2>3. CASE StewardStep
      BY <2>3 DEF StewardStep, Sweep, Failover, loop
    <2>4. CASE Tick
      BY <2>4 DEF Tick, loop
    <2>5. ASSUME NEW v \in Workers, WorkerStep(v)
          PROVE  RowOf(t)' = RowOf(t)
      <3>1. v = w
        BY <2>5 DEF WorkerStep, Claim, Renew, RenewRefused, Finish, Raise, Complete,
           CompleteBroken, Fail, Crash, Restart, Goto, Forget, IInv, TypeOK, loop
      <3>2. phase[w] \notin {"idle", "down"}
        BY <2>1 DEF IInv, RowShape
      <3>3. ~LiveLease(w)
        BY DEF LiveLease
      <3> QED
        BY <2>5, <3>1, <3>2, <3>3
        DEF WorkerStep, Claim, Renew, RenewRefused, Finish, Raise, Complete,
            CompleteBroken, Fail, Crash, Restart, RowOf, row, loop
    <2> QED
      BY <2>2, <2>3, <2>4, <2>5 DEF Next
  <1> QED
    BY <1>1, SpecIInv, PTL DEF Spec, StaleWorkerHarmless

(* A lease with MaxOffset ticks left, or more, ends only by its owner's    *)
(* hand, however the clocks of the sweeping hosts are set.                 *)
THEOREM LeasesProtect == Spec => LeaseProtects
  <1> DEFINE Protected == \A t \in Tasks :
               /\ status[t] = "running" /\ lease[t] >= MaxOffset
               /\ <<status[t], token[t]>>' # <<status[t], token[t]>>
               => \E w \in Workers : Owns(w) /\ job[w] = t /\ phase[w]' # phase[w]
  <1>1. IInv /\ [Next]_vars => [Protected]_vars
    <2> SUFFICES ASSUME IInv, Next, NEW t \in Tasks,
                        status[t] = "running", lease[t] >= MaxOffset,
                        <<status[t], token[t]>>' # <<status[t], token[t]>>
                 PROVE  \E w \in Workers : Owns(w) /\ job[w] = t /\ phase[w]' # phase[w]
      OBVIOUS
    <2> USE DEF IInv
    <2>1. CASE \E u \in Tasks, m \in Machines : Create(u, m)
      BY <2>1 DEF Create, TypeOK
    <2>2. CASE StewardStep
      <3>1. ASSUME NEW o \in Offsets PROVE t \notin Expired(o)
        BY QueueAssumption, <3>1 DEF Expired, TypeOK
      <3> QED
        BY <2>2, <3>1 DEF StewardStep, Sweep, Failover, Recover, ClearClaim
    <2>3. CASE Tick
      BY <2>3 DEF Tick
    <2>4. ASSUME NEW w \in Workers, WorkerStep(w)
          PROVE  \E v \in Workers : Owns(v) /\ job[v] = t /\ phase[v]' # phase[v]
      <3>1. ASSUME NEW u \in Tasks PROVE ~Claim(w, u)
        BY <2>4, <3>1 DEF Claim, Claimable, TypeOK
      <3>2. ~Renew(w) /\ ~RenewRefused(w) /\ ~Finish(w) /\ ~Raise(w) /\ ~Crash(w) /\ ~Restart(w)
        BY <2>4 DEF Renew, RenewRefused, Finish, Raise, Crash, Restart, row
      <3>3. CASE Complete(w) \/ CompleteBroken(w)
        BY <3>3 DEF Complete, CompleteBroken, RecordResult, LiveLease, Owns, ClearClaim,
                    Forget, Goto, row, TypeOK
      <3>4. ASSUME NEW o \in Offsets, Fail(w, o)
            PROVE  \E v \in Workers : Owns(v) /\ job[v] = t /\ phase[v]' # phase[v]
        BY <3>4 DEF Fail, GiveUp, Owns, ClearClaim, Forget, Goto, row, TypeOK
      <3> QED
        BY <2>4, <3>1, <3>2, <3>3, <3>4 DEF WorkerStep
    <2> QED
      BY <2>1, <2>2, <2>3, <2>4 DEF Next
  <1> QED
    BY <1>1, SpecIInv, PTL DEF Spec, LeaseProtects

(* Nothing the program writes to tasks.status is refused by the database   *)
(* trigger: every claim carries its token, and every completion comes from *)
(* the session that owns the claim, while its lease runs.                  *)
THEOREM TriggerNeverFires == Spec => TriggerSilent
  <1> DEFINE Silent == \A t \in Tasks :
               status[t]' # status[t] =>
                 \/ \E w \in Workers : job[w] = t /\ TriggerAllows(t, claim[w], MachineOf[w])
                 \/ TriggerAllows(t, 0, holder[t])
  <1>1. IInv /\ [Next]_vars => [Silent]_vars
    <2> SUFFICES ASSUME IInv, Next, NEW t \in Tasks, status[t]' # status[t]
                 PROVE  \/ \E w \in Workers : job[w] = t /\ TriggerAllows(t, claim[w], MachineOf[w])
                        \/ TriggerAllows(t, 0, holder[t])
      OBVIOUS
    <2> USE DEF IInv, TriggerAllows
    <2>1. CASE \E u \in Tasks, m \in Machines : Create(u, m)
      BY <2>1 DEF Create, TypeOK
    <2>2. CASE StewardStep
      BY <2>2 DEF StewardStep, Sweep, Failover, Recover, TypeOK
    <2>3. CASE Tick
      BY <2>3 DEF Tick
    <2>4. ASSUME NEW w \in Workers, WorkerStep(w)
          PROVE  \/ \E v \in Workers : job[v] = t /\ TriggerAllows(t, claim[v], MachineOf[v])
                 \/ TriggerAllows(t, 0, holder[t])
      <3>1. ASSUME NEW u \in Tasks, Claim(w, u) PROVE TriggerAllows(t, 0, holder[t])
        BY <3>1 DEF Claim, Claimable, TypeOK
      <3>2. ~Renew(w) /\ ~RenewRefused(w) /\ ~Finish(w) /\ ~Raise(w) /\ ~Crash(w) /\ ~Restart(w)
        BY DEF Renew, RenewRefused, Finish, Raise, Crash, Restart, row
      <3>3. ASSUME Complete(w) \/ CompleteBroken(w)
            PROVE  job[w] = t /\ TriggerAllows(t, claim[w], MachineOf[w])
        BY <3>3 DEF Complete, CompleteBroken, RecordResult, LiveLease, Owns, ClearClaim,
                    Forget, Goto, row, TypeOK, RowShape
      <3>4. ASSUME NEW o \in Offsets, Fail(w, o)
            PROVE  TriggerAllows(t, 0, holder[t])
        BY <3>4 DEF Fail, GiveUp, Owns, ClearClaim, Forget, Goto, row, TypeOK
      <3> QED
        BY <2>4, <3>1, <3>2, <3>3, <3>4 DEF WorkerStep
    <2> QED
      BY <2>1, <2>2, <2>3, <2>4 DEF Next
  <1> QED
    BY <1>1, SpecIInv, PTL DEF Spec, TriggerSilent

-----------------------------------------------------------------------------
(* The queue implements the ledger: a task settles once, after at most     *)
(* MaxAttempts attempts, whatever the workers, the steward and the clocks  *)
(* do.  Task by task, each step of the queue is one of the ledger's.       *)
Moves(t) == Ledger!Submitted(t) \/ Ledger!Started(t) \/ Ledger!Returned(t)
              \/ Ledger!Done(t) \/ Ledger!GivenUp(t) \/ Ledger!Kept(t)

LEMMA InitLedger == Init => Ledger!Init
  BY DEF Init, Ledger!Init, StageOf

LEMMA ClaimMoves ==
  ASSUME IInv, NEW w \in Workers, NEW u \in Tasks, Claim(w, u)
  PROVE  /\ \A t \in Tasks : Moves(t)
         /\ \A t \in Tasks : Ledger!Started(t) => t = u
  <1> USE DEF IInv, TypeOK, Claim, Claimable, StageOf, Ledger!Started, Ledger!Kept
  <1>1. Ledger!Started(u)
    BY DEF BudgetKept
  <1>2. ASSUME NEW t \in Tasks, t # u PROVE Ledger!Kept(t) /\ ~Ledger!Started(t)
    BY <1>2
  <1> QED
    BY <1>1, <1>2 DEF Moves

(* The changes of one row that every step but a claim is limited to.       *)
Settles(t) ==
  /\ attempts'[t] = attempts[t]
  /\ \/ status'[t] = status[t]
     \/ status[t] = "absent" /\ status'[t] = "queued"
     \/ status[t] = "running" /\ status'[t] = "queued" /\ attempts[t] < MaxAttempts
     \/ status[t] = "running" /\ status'[t] = "failed" /\ attempts[t] >= MaxAttempts
     \/ status[t] = "running" /\ status'[t] = "completed"

LEMMA SettlesMoves ==
  ASSUME NEW t \in Tasks, TypeOK, Settles(t)
  PROVE  Moves(t) /\ ~Ledger!Started(t)
  <1> USE DEF Moves, Ledger!Started
  <1>0. attempts[t] \in Nat
    BY QueueAssumption DEF TypeOK
  <1>1. CASE status'[t] = status[t]
    <2>1. Ledger!Kept(t)
      BY <1>1 DEF Settles, Ledger!Kept
    <2> QED
      BY <1>0, <2>1 DEF Ledger!Kept
  <1>2. CASE status[t] = "absent" /\ status'[t] = "queued"
    BY <1>2 DEF Settles, StageOf, Ledger!Submitted
  <1>3. CASE status[t] = "running" /\ status'[t] = "queued" /\ attempts[t] < MaxAttempts
    BY <1>3 DEF Settles, StageOf, Ledger!Returned
  <1>4. CASE status[t] = "running" /\ status'[t] = "failed" /\ attempts[t] >= MaxAttempts
    BY <1>4 DEF Settles, StageOf, Ledger!GivenUp
  <1>5. CASE status[t] = "running" /\ status'[t] = "completed"
    BY <1>5 DEF Settles, StageOf, Ledger!Done
  <1> QED
    BY <1>1, <1>2, <1>3, <1>4, <1>5 DEF Settles

LEMMA OtherMoves ==
  ASSUME IInv, Next, ~ \E w \in Workers, u \in Tasks : Claim(w, u), NEW t \in Tasks
  PROVE  Moves(t) /\ ~Ledger!Started(t)
  <1> USE DEF IInv, TypeOK, Settles
  <1>1. CASE \E u \in Tasks, m \in Machines : Create(u, m)
    <2>1. Settles(t)
      BY <1>1 DEF Create
    <2> QED
      BY <2>1, SettlesMoves
  <1>2. ASSUME NEW o \in Offsets, NEW locked \in SUBSET Tasks, NEW r \in Routings,
               Sweep(o, locked, r)
        PROVE  Settles(t)
    BY <1>2, QueueAssumption DEF Sweep, Recover, Expired
  <1>3. ASSUME NEW r \in Routings, Failover(r) PROVE Settles(t)
    BY <1>3 DEF Failover
  <1>4. CASE Tick
    <2>1. Settles(t)
      BY <1>4 DEF Tick
    <2> QED
      BY <2>1, SettlesMoves
  <1>5. ASSUME NEW w \in Workers, WorkerStep(w)
        PROVE  Settles(t)
    <2>1. CASE Renew(w) \/ RenewRefused(w) \/ Finish(w) \/ Raise(w) \/ Crash(w) \/ Restart(w)
      BY <2>1 DEF Renew, RenewRefused, Finish, Raise, Crash, Restart, row
    <2>2. CASE Complete(w) \/ CompleteBroken(w)
      BY <2>2 DEF Complete, CompleteBroken, RecordResult, LiveLease, Owns, row
    <2>3. ASSUME NEW o \in Offsets, Fail(w, o)
          PROVE  Settles(t)
      <3>1. CASE ~Owns(w)
        BY <2>3, <3>1 DEF Fail, row
      <3>2. CASE Owns(w)
        BY <2>3, <3>2, QueueAssumption DEF Fail, GiveUp, Owns
      <3> QED
        BY <3>1, <3>2
    <2> QED
      BY <1>5, <2>1, <2>2, <2>3 DEF WorkerStep
  <1> QED
    BY <1>1, <1>2, <1>3, <1>4, <1>5, SettlesMoves DEF Next, StewardStep

LEMMA NextLedger == IInv /\ IInv' /\ [Next]_vars => [Ledger!Next]_(Ledger!ledger)
  <1> SUFFICES ASSUME IInv, IInv', [Next]_vars PROVE [Ledger!Next]_(Ledger!ledger)
    OBVIOUS
  <1>1. CASE UNCHANGED vars
    BY <1>1 DEF vars, row, Ledger!ledger
  <1>2. CASE Next
    <2>1. \A t \in Tasks : Moves(t)
      BY <1>2, ClaimMoves, OtherMoves
    <2>2. \A t, u \in Tasks : Ledger!Started(t) /\ Ledger!Started(u) => t = u
      BY <1>2, ClaimMoves, OtherMoves
    <2>3. DOMAIN attempts' = Tasks
      BY DEF IInv, TypeOK
    <2> QED
      BY <2>1, <2>2, <2>3 DEF Ledger!Next, Moves
  <1> QED
    BY <1>1, <1>2

THEOREM QueueKeepsLedger == Spec => KeepsLedger
  BY InitLedger, NextLedger, SpecIInv, PTL DEF Spec, KeepsLedger, Ledger!Spec
=============================================================================
