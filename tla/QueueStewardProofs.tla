------------------------- MODULE QueueStewardProofs -------------------------
(***************************************************************************)
(* Proofs about QueueSteward, for any tasks, fleet and capacities, any     *)
(* grace, lease and starvation time, and sweeps of any length.  The        *)
(* inductive invariant says what the transaction of the steward may rely   *)
(* on while others change the rows that it has not locked: what it locked  *)
(* is still as it read it, and the loads it goes by are those it counted,  *)
(* with the moves it has decided since.                                    *)
(***************************************************************************)
EXTENDS QueueSteward, FiniteSetTheorems, TLAPS

(* The tasks that the sweep under way brings to a machine from others it   *)
(* counted, and those it takes from it.                                    *)
Into(m) == {t \in DOMAIN sweep.to : sweep.to[t] = m /\ exec[t] \in DOMAIN sweep.counted}
Out(m) == {t \in DOMAIN sweep.to : exec[t] = m}

LocksHold ==
  /\ sweep.step # "routing" => sweep.taken = {} /\ sweep.todo = {} /\ DOMAIN sweep.to = {}
  /\ sweep.step = "off" => sweep.lapsed = {}
  /\ \A t \in sweep.taken : stage[t] = "queued"
  /\ \A t \in sweep.lapsed : stage[t] = "running"
  /\ sweep.todo \subseteq sweep.taken
  /\ DOMAIN sweep.to \subseteq sweep.taken \ sweep.todo
  /\ \A t \in DOMAIN sweep.to : sweep.to[t] # exec[t]

(* The source of a move counts one task less, or none when it counted none,*)
(* so a load may only be over-estimated: room that is seen is there.       *)
CountsHold ==
  /\ DOMAIN sweep.loads = DOMAIN sweep.counted
  /\ \A m \in DOMAIN sweep.counted :
       /\ Total(sweep.counted, m) + Cardinality(Into(m))
            <= Total(sweep.loads, m) + Cardinality(Out(m))
       /\ Into(m) # {} =>
            Total(sweep.counted, m) + Cardinality(Into(m)) <= Capacity[m] + Cardinality(Out(m))

IInv == TypeOK /\ LocksHold /\ CountsHold
-----------------------------------------------------------------------------
LEMMA CapType == MaxIdle \in Nat /\ MaxGen \in Nat /\ Stale + 1 \in Nat
  <1>1. Starvation \in Nat /\ Lease + 1 \in Nat
    BY StewardAssumption
  <1>2. \E n \in {Starvation, Lease + 1} : \A k \in {Starvation, Lease + 1} : k <= n
    BY <1>1
  <1> QED BY <1>1, <1>2, StewardAssumption DEF MaxIdle, CapOf, MaxGen

LEMMA UpToType ==
  ASSUME NEW n \in Nat, NEW cap \in Nat
  PROVE  UpTo(n, cap) \in 0 .. cap
  BY DEF UpTo

LEMMA LoadsType ==
  /\ \A D, loads, n : loads \in [D -> Load] /\ n \in D => Total(loads, n) \in Nat
  /\ \A n \in Machines : Capacity[n] \in Nat
  <1>1. ASSUME NEW D, NEW loads \in [D -> Load], NEW n \in D
        PROVE  Total(loads, n) \in Nat
    <2>1. loads[n] \in Load
      OBVIOUS
    <2> QED BY <2>1 DEF Total, Load
  <1>2. \A n \in Machines : Capacity[n] \in Nat
    BY StewardAssumption
  <1> QED BY <1>1, <1>2

(* Becomes keeps the types, and what it does not name.                     *)
LEMMA BecomesType ==
  ASSUME TypeOK, NEW S, NEW s \in {"queued", "running", "settled"}, Becomes(S, s)
  PROVE  /\ stage' \in [Tasks -> {"absent", "queued", "running", "settled"}]
         /\ idle' \in [Tasks -> 0 .. MaxIdle]
         /\ \A t \in Tasks : t \notin S => stage'[t] = stage[t]
  BY CapType DEF TypeOK, Becomes

(* The transaction of the steward holds what it has read, locked and       *)
(* decided while others change rows that it has not locked.                *)
LEMMA OthersPassOver ==
  ASSUME IInv, sweep' = sweep, \A t \in Locked : stage'[t] = stage[t] /\ exec'[t] = exec[t]
  PROVE  LocksHold' /\ CountsHold'
  <1>1. \A t \in DOMAIN sweep.to : t \in Locked
    BY DEF IInv, LocksHold, Locked
  <1>2. \A m : Into(m)' = Into(m) /\ Out(m)' = Out(m)
    BY <1>1 DEF Into, Out
  <1>3. LocksHold'
    BY <1>1 DEF IInv, LocksHold, Locked
  <1>4. CountsHold'
    BY <1>2 DEF IInv, CountsHold, Total
  <1> QED BY <1>3, <1>4
-----------------------------------------------------------------------------
LEMMA InitIInv == Init => IInv
  <1> SUFFICES ASSUME Init PROVE IInv
    OBVIOUS
  <1>1. /\ DOMAIN sweep = DOMAIN NoSweep /\ sweep.step = "off"
        /\ sweep.counted = <<>> /\ sweep.loads = <<>> /\ sweep.to = <<>>
        /\ sweep.lapsed = {} /\ sweep.taken = {} /\ sweep.todo = {}
    BY DEF Init, NoSweep
  <1>2. DOMAIN <<>> = {}
    OBVIOUS
  <1>3. TypeOK
    BY <1>1, <1>2, CapType DEF Init, TypeOK
  <1>4. LocksHold /\ CountsHold
    BY <1>1, <1>2 DEF LocksHold, CountsHold
  <1> QED BY <1>3, <1>4 DEF IInv

LEMMA CreateInv ==
  ASSUME IInv, NEW t \in Tasks, NEW m \in Machines, Create(t, m)
  PROVE  IInv'
  <1>1. TypeOK'
    BY BecomesType DEF IInv, TypeOK, Create, fleet
  <1>2. t \notin Locked
    BY DEF IInv, LocksHold, Locked, Create
  <1>3. \A u \in Locked : stage'[u] = stage[u] /\ exec'[u] = exec[u]
    BY <1>2, BecomesType DEF IInv, TypeOK, Create, Locked
  <1> QED BY <1>1, <1>3, OthersPassOver DEF IInv, Create

LEMMA WorkerInv ==
  ASSUME IInv, NEW t \in Tasks \ Locked, NEW s \in {"queued", "running", "settled"},
         Becomes({t}, s), UNCHANGED <<exec, gen, fleet, sweep>>
  PROVE  IInv'
  <1>1. TypeOK'
    BY BecomesType DEF IInv, TypeOK, fleet
  <1>2. \A u \in Locked : stage'[u] = stage[u] /\ exec'[u] = exec[u]
    BY BecomesType DEF IInv, TypeOK, Locked
  <1> QED BY <1>1, <1>2, OthersPassOver DEF IInv

LEMMA FleetInv ==
  ASSUME IInv, NEW m \in Machines, FallSilent(m) \/ ComeBack(m)
  PROVE  IInv'
  <1>1. UNCHANGED <<stage, exec, idle, gen, sweep>>
    BY DEF FallSilent, ComeBack, work
  <1>2. up' \in [Machines -> BOOLEAN]
    BY DEF IInv, TypeOK, FallSilent, ComeBack
  <1>3. seen' \in [Machines -> 0 .. Stale + 1]
    BY CapType DEF IInv, TypeOK, FallSilent, ComeBack
  <1>4. TypeOK'
    BY <1>1, <1>2, <1>3 DEF IInv, TypeOK
  <1> QED BY <1>1, <1>4, OthersPassOver DEF IInv

LEMMA TickInv ==
  ASSUME IInv, Tick
  PROVE  IInv'
  <1>1. idle' \in [Tasks -> 0 .. MaxIdle]
    BY CapType, UpToType DEF IInv, TypeOK, Tick
  <1>2. seen' \in [Machines -> 0 .. Stale + 1]
    <2>1. \A m \in Machines : UpTo(seen[m] + 1, Stale + 1) \in 0 .. Stale + 1
      <3>1. \A m \in Machines : seen[m] + 1 \in Nat
        BY CapType DEF IInv, TypeOK
      <3> QED BY <3>1, CapType, UpToType
    <2>2. 0 \in 0 .. Stale + 1
      BY CapType
    <2> QED BY <2>1, <2>2 DEF Tick
  <1>3. TypeOK'
    BY <1>1, <1>2 DEF IInv, TypeOK, Tick
  <1> QED BY <1>3, OthersPassOver DEF IInv, Tick

LEMMA FailoverInv ==
  ASSUME IInv, NEW m \in Machines, Failover(m)
  PROVE  IInv'
  <1>1. PICK locked \in SUBSET Tasks, to \in [Tasks -> Healthy \ {m}] :
          LET moved == {t \in Tasks \ (locked \cup Locked) : stage[t] = "queued" /\ exec[t] = m}
          IN  /\ Becomes(moved, "queued")
              /\ exec' = [t \in Tasks |-> IF t \in moved THEN to[t] ELSE exec[t]]
    BY DEF Failover
  <1> DEFINE moved == {t \in Tasks \ (locked \cup Locked) : stage[t] = "queued" /\ exec[t] = m}
  <1>2. TypeOK'
    BY <1>1, BecomesType DEF IInv, TypeOK, Failover, fleet, Healthy
  <1>3. \A u \in Locked : u \in Tasks /\ u \notin moved
    BY DEF IInv, TypeOK, Locked
  <1>4. \A u \in Locked : stage'[u] = stage[u] /\ exec'[u] = exec[u]
    BY <1>1, <1>3, BecomesType DEF IInv, TypeOK
  <1> QED BY <1>2, <1>4, OthersPassOver DEF IInv, Failover
-----------------------------------------------------------------------------
LEMMA TaskSets == \A S \in SUBSET Tasks : IsFiniteSet(S) /\ Cardinality(S) \in Nat
  BY FS_Subset, FS_CardinalityType, StewardAssumption

LEMMA SurveyInv ==
  ASSUME IInv, Survey
  PROVE  IInv'
  <1>1. PICK lapsed \in SUBSET LapsedClaims :
          sweep' = [NoSweep EXCEPT !.step = "counted", !.lapsed = lapsed,
                           !.counted = CountLoads(lapsed), !.loads = CountLoads(lapsed)]
    BY DEF Survey
  <1>2. /\ DOMAIN sweep' = DOMAIN NoSweep /\ sweep'.step = "counted"
        /\ sweep'.counted = CountLoads(lapsed) /\ sweep'.loads = CountLoads(lapsed)
        /\ sweep'.lapsed = lapsed /\ sweep'.taken = {} /\ sweep'.todo = {} /\ sweep'.to = <<>>
    BY <1>1 DEF NoSweep
  <1>3. DOMAIN <<>> = {}
    OBVIOUS
  <1>4. CountLoads(lapsed) \in [Healthy -> Load]
    <2>1. ASSUME NEW m \in Healthy
          PROVE  /\ Cardinality({t \in Tasks \ lapsed : stage[t] = "running" /\ exec[t] = m}) \in Nat
                 /\ Cardinality({t \in Tasks : exec[t] = m /\ (stage[t] = "queued" \/ t \in lapsed)}) \in Nat
      BY TaskSets
    <2> QED BY <2>1 DEF CountLoads, Load
  <1>5. DOMAIN CountLoads(lapsed) = Healthy /\ Healthy \subseteq Machines
    BY <1>4 DEF Healthy
  <1>6. TypeOK'
    <2>1. lapsed \subseteq Tasks
      BY DEF LapsedClaims
    <2>2. UNCHANGED <<stage, exec, idle, gen, up, seen>>
      BY DEF Survey, work, fleet
    <2> QED BY <1>2, <1>3, <1>4, <1>5, <2>1, <2>2 DEF IInv, TypeOK
  <1>7. LocksHold'
    <2>1. \A t \in lapsed : stage'[t] = "running"
      BY DEF LapsedClaims, Survey, work
    <2> QED BY <1>2, <1>3, <2>1 DEF LocksHold
  <1>8. CountsHold'
    <2>1. \A m : Into(m)' = {} /\ Out(m)' = {}
      BY <1>2, <1>3 DEF Into, Out
    <2>2. \A m \in Healthy : Total(CountLoads(lapsed), m) \in Nat
      BY <1>4, LoadsType
    <2>3. \A m \in Healthy : /\ Total(sweep.counted, m)' = Total(CountLoads(lapsed), m)
                             /\ Total(sweep.loads, m)' = Total(CountLoads(lapsed), m)
      BY <1>2 DEF Total
    <2>4. Cardinality({}) = 0
      BY FS_EmptySet
    <2>5. \A m \in Healthy : Total(CountLoads(lapsed), m) + 0 <= Total(CountLoads(lapsed), m) + 0
      BY <2>2
    <2> QED BY <1>2, <1>5, <2>1, <2>3, <2>4, <2>5 DEF CountsHold
  <1> QED BY <1>6, <1>7, <1>8 DEF IInv

LEMMA PickInv ==
  ASSUME IInv, NEW locked \in SUBSET Tasks, Pick(locked)
  PROVE  IInv'
  <1>1. /\ DOMAIN sweep' = DOMAIN NoSweep /\ sweep'.step = "routing"
        /\ sweep'.counted = sweep.counted /\ sweep'.loads = sweep.loads
        /\ sweep'.lapsed = sweep.lapsed /\ sweep'.to = sweep.to
        /\ sweep'.taken = Candidates(locked) /\ sweep'.todo = Candidates(locked)
    BY DEF Pick, IInv, TypeOK, NoSweep
  <1>2. UNCHANGED <<stage, exec, idle, gen, up, seen>>
    BY DEF Pick, work, fleet
  <1>3. \A t \in Candidates(locked) : t \in Tasks /\ stage[t] = "queued"
    BY DEF Candidates
  <1>4. TypeOK'
    BY <1>1, <1>2, <1>3 DEF IInv, TypeOK
  <1>5. LocksHold'
    BY <1>1, <1>2, <1>3 DEF IInv, LocksHold, Pick
  <1>6. \A m : Into(m)' = Into(m) /\ Out(m)' = Out(m)
    BY <1>1, <1>2 DEF Into, Out
  <1>7. CountsHold'
    BY <1>1, <1>6 DEF IInv, CountsHold, Total
  <1> QED BY <1>4, <1>5, <1>7 DEF IInv

LEMMA KeepInv ==
  ASSUME IInv, NEW t \in Tasks, Keep(t)
  PROVE  IInv'
  <1>1. /\ DOMAIN sweep' = DOMAIN NoSweep /\ sweep'.step = sweep.step
        /\ sweep'.counted = sweep.counted /\ sweep'.loads = sweep.loads
        /\ sweep'.lapsed = sweep.lapsed /\ sweep'.to = sweep.to
        /\ sweep'.taken = sweep.taken /\ sweep'.todo = sweep.todo \ {t}
    BY DEF Keep, IInv, TypeOK, NoSweep
  <1>2. UNCHANGED <<stage, exec, idle, gen, up, seen>>
    BY DEF Keep, work, fleet
  <1>3. TypeOK'
    BY <1>1, <1>2 DEF IInv, TypeOK
  <1>4. LocksHold'
    BY <1>1, <1>2 DEF IInv, LocksHold
  <1>5. \A m : Into(m)' = Into(m) /\ Out(m)' = Out(m)
    BY <1>1, <1>2 DEF Into, Out
  <1>6. CountsHold'
    BY <1>1, <1>5 DEF IInv, CountsHold, Total
  <1> QED BY <1>3, <1>4, <1>6 DEF IInv

(* One move, in the loads the loop goes on with: the target counts one     *)
(* more, the source one less, or none when it counted none.                *)
LEMMA ShiftLoads ==
  ASSUME NEW D, NEW loads \in [D -> Load], NEW s, NEW m \in D, m # s
  PROVE  /\ Shift(loads, s, m) \in [D -> Load]
         /\ Total(Shift(loads, s, m), m) = Total(loads, m) + 1
         /\ s \in D => Total(loads, s) <= Total(Shift(loads, s, m), s) + 1
         /\ \A n \in D \ {s, m} : Total(Shift(loads, s, m), n) = Total(loads, n)
  <1>1. \A n \in D : loads[n] \in Load
    OBVIOUS
  <1>2. \A n \in D : [loads[n] EXCEPT !.queued = @ + 1] \in Load
    BY <1>1 DEF Load
  <1>3. \A n \in D : [loads[n] EXCEPT !.queued = IF @ > 0 THEN @ - 1 ELSE 0] \in Load
    BY <1>1 DEF Load
  <1>4. Shift(loads, s, m) \in [D -> Load]
    BY <1>1, <1>2, <1>3 DEF Shift
  <1>5. Total(Shift(loads, s, m), m) = Total(loads, m) + 1
    BY <1>1 DEF Shift, Total, Load
  <1>6. s \in D => Total(loads, s) <= Total(Shift(loads, s, m), s) + 1
    BY <1>1 DEF Shift, Total, Load
  <1>7. \A n \in D \ {s, m} : Total(Shift(loads, s, m), n) = Total(loads, n)
    BY DEF Shift, Total
  <1> QED BY <1>4, <1>5, <1>6, <1>7

(* The heart of it: a move within the counted fleet goes where the loads,  *)
(* with the moves made so far, leave room.                                 *)
LEMMA SendInv ==
  ASSUME IInv, NEW t \in Tasks, NEW m \in Machines, Send(t, m)
  PROVE  IInv'
  <1> DEFINE D == DOMAIN sweep.counted
             s == exec[t]
  <1>1. /\ DOMAIN sweep' = DOMAIN NoSweep /\ sweep'.step = sweep.step
        /\ sweep'.counted = sweep.counted /\ sweep'.loads = Shift(sweep.loads, s, m)
        /\ sweep'.lapsed = sweep.lapsed /\ sweep'.taken = sweep.taken
        /\ sweep'.todo = sweep.todo \ {t}
        /\ sweep'.to = [u \in DOMAIN sweep.to \cup {t} |-> IF u = t THEN m ELSE sweep.to[u]]
    BY DEF Send, IInv, TypeOK, NoSweep
  <1>2. UNCHANGED <<stage, exec, idle, gen, up, seen>>
    BY DEF Send, work, fleet
  <1>3. /\ sweep.step = "routing" /\ t \in sweep.todo /\ t \notin DOMAIN sweep.to
        /\ m \in D /\ m # s /\ (s \in D => HasRoom(sweep.loads, m))
    BY DEF Send, NextInLine, Chosen, Targets, IInv, LocksHold, CountsHold
  <1>4. /\ sweep.loads \in [D -> Load] /\ sweep.counted \in [D -> Load]
        /\ D \subseteq Machines /\ DOMAIN sweep.to \subseteq Tasks
    BY DEF IInv, TypeOK, CountsHold
  <1>5. /\ sweep'.loads \in [D -> Load]
        /\ Total(sweep'.loads, m) = Total(sweep.loads, m) + 1
        /\ s \in D => Total(sweep.loads, s) <= Total(sweep'.loads, s) + 1
        /\ \A n \in D \ {s, m} : Total(sweep'.loads, n) = Total(sweep.loads, n)
    <2> HIDE DEF D, s
    <2> QED BY <1>1, <1>3, <1>4, ShiftLoads
  <1>6. TypeOK'
    <2>1. sweep'.to \in [DOMAIN sweep.to \cup {t} -> Machines]
      BY <1>1 DEF IInv, TypeOK
    <2> QED BY <1>1, <1>2, <1>4, <1>5, <2>1 DEF IInv, TypeOK
  <1>7. LocksHold'
    <2>1. DOMAIN sweep'.to = DOMAIN sweep.to \cup {t}
      BY <1>1
    <2>2. \A u \in DOMAIN sweep'.to : sweep'.to[u] # exec'[u]
      BY <1>1, <1>2, <1>3 DEF IInv, LocksHold
    <2>3. /\ sweep'.todo \subseteq sweep'.taken
          /\ DOMAIN sweep'.to \subseteq sweep'.taken \ sweep'.todo
      BY <1>1, <1>3, <2>1 DEF IInv, LocksHold
    <2>4. /\ \A u \in sweep'.taken : stage'[u] = "queued"
          /\ \A u \in sweep'.lapsed : stage'[u] = "running"
      BY <1>1, <1>2 DEF IInv, LocksHold
    <2>5. sweep'.step = "routing"
      BY <1>1, <1>3
    <2> QED BY <2>2, <2>3, <2>4, <2>5 DEF LocksHold
  <1>8. \A n \in D : /\ Into(n)' = IF n = m /\ s \in D THEN Into(n) \cup {t} ELSE Into(n)
                     /\ Out(n)' = IF n = s THEN Out(n) \cup {t} ELSE Out(n)
    BY <1>1, <1>2, <1>3 DEF Into, Out
  <1>9. \A n \in D : /\ IsFiniteSet(Into(n)) /\ Cardinality(Into(n)) \in Nat /\ t \notin Into(n)
                     /\ IsFiniteSet(Out(n)) /\ Cardinality(Out(n)) \in Nat /\ t \notin Out(n)
    BY <1>3, <1>4, TaskSets DEF Into, Out
  <1>10. \A n \in D :
           /\ Cardinality(Into(n)') = Cardinality(Into(n)) + (IF n = m /\ s \in D THEN 1 ELSE 0)
           /\ Cardinality(Out(n)') = Cardinality(Out(n)) + (IF n = s THEN 1 ELSE 0)
    BY <1>8, <1>9, FS_AddElement
  <1>11. \A n \in D : /\ Total(sweep.counted, n) \in Nat /\ Total(sweep.loads, n) \in Nat
                      /\ Total(sweep'.loads, n) \in Nat /\ Capacity[n] \in Nat
    BY <1>4, <1>5, LoadsType
  <1>12. ASSUME NEW n \in D
         PROVE  /\ Total(sweep.counted, n) + Cardinality(Into(n)')
                     <= Total(sweep'.loads, n) + Cardinality(Out(n)')
                /\ Into(n)' # {} =>
                     Total(sweep.counted, n) + Cardinality(Into(n)') <= Capacity[n] + Cardinality(Out(n)')
    <2>1. /\ Total(sweep.counted, n) + Cardinality(Into(n))
               <= Total(sweep.loads, n) + Cardinality(Out(n))
          /\ Into(n) # {} =>
               Total(sweep.counted, n) + Cardinality(Into(n)) <= Capacity[n] + Cardinality(Out(n))
      BY DEF IInv, CountsHold
    <2>2. CASE n = m /\ s \in D
      <3>1. /\ Cardinality(Into(n)') = Cardinality(Into(n)) + 1
            /\ Cardinality(Out(n)') = Cardinality(Out(n))
            /\ Total(sweep'.loads, n) = Total(sweep.loads, n) + 1
            /\ Total(sweep.loads, n) < Capacity[n]
        <4>1. n # s
          BY <1>3, <2>2
        <4> QED BY <4>1, <2>2, <1>3, <1>5, <1>9, <1>10 DEF HasRoom
      <3> HIDE DEF D, s
      <3> QED BY <2>1, <3>1, <1>9, <1>11
    <2>3. CASE n = m /\ s \notin D
      BY <2>1, <2>3, <1>3, <1>5, <1>8, <1>9, <1>10, <1>11
    <2>4. CASE n = s
      <3>1. n # m /\ s \in D
        BY <1>3, <2>4
      <3>2. /\ Cardinality(Into(n)') = Cardinality(Into(n)) /\ Into(n)' = Into(n)
            /\ Cardinality(Out(n)') = Cardinality(Out(n)) + 1
            /\ Total(sweep.loads, n) <= Total(sweep'.loads, n) + 1
        BY <2>4, <3>1, <1>5, <1>8, <1>9, <1>10
      <3> HIDE DEF D, s
      <3> QED BY <2>1, <3>2, <1>9, <1>11
    <2>5. CASE n \notin {s, m}
      BY <2>1, <2>5, <1>5, <1>8, <1>9, <1>10, <1>11
    <2> QED BY <2>2, <2>3, <2>4, <2>5
  <1>13. CountsHold'
    <2>1. DOMAIN sweep'.loads = D
      BY <1>5
    <2>2. \A n \in D : /\ Total(sweep.counted, n)' = Total(sweep.counted, n)
                        /\ Total(sweep.loads, n)' = Total(sweep'.loads, n)
      BY <1>1 DEF Total
    <2> QED BY <1>1, <1>12, <2>1, <2>2 DEF CountsHold
  <1> QED BY <1>6, <1>7, <1>13 DEF IInv

(* A transaction that ends leaves no lock behind, whatever it wrote.       *)
LEMMA EndInv ==
  ASSUME IInv, sweep' = NoSweep,
         stage' \in [Tasks -> {"absent", "queued", "running", "settled"}],
         exec' \in [Tasks -> Machines], idle' \in [Tasks -> 0 .. MaxIdle],
         gen' \in [Tasks -> 0 .. MaxGen], UNCHANGED fleet
  PROVE  IInv'
  <1>1. /\ sweep'.step = "off" /\ DOMAIN sweep' = DOMAIN NoSweep
        /\ sweep'.counted = <<>> /\ sweep'.loads = <<>> /\ sweep'.to = <<>>
        /\ sweep'.lapsed = {} /\ sweep'.taken = {} /\ sweep'.todo = {}
    BY DEF NoSweep
  <1>2. DOMAIN <<>> = {}
    OBVIOUS
  <1>3. TypeOK'
    BY <1>1, <1>2 DEF IInv, TypeOK, fleet
  <1>4. LocksHold' /\ CountsHold'
    BY <1>1, <1>2 DEF LocksHold, CountsHold
  <1> QED BY <1>3, <1>4 DEF IInv

LEMMA CommitInv ==
  ASSUME IInv, CommitSweep
  PROVE  IInv'
  <1>1. stage' \in [Tasks -> {"absent", "queued", "running", "settled"}]
    BY DEF IInv, TypeOK, CommitSweep
  <1>2. exec' \in [Tasks -> Machines]
    BY DEF IInv, TypeOK, CommitSweep
  <1>3. idle' \in [Tasks -> 0 .. MaxIdle]
    BY CapType DEF IInv, TypeOK, CommitSweep
  <1>4. gen' \in [Tasks -> 0 .. MaxGen]
    <2>1. \A t \in Tasks : gen[t] \in 0 .. MaxGen /\ UpTo(gen[t] + 1, MaxGen) \in 0 .. MaxGen
      BY DEF IInv, TypeOK, UpTo, MaxGen
    <2> QED BY <2>1 DEF CommitSweep
  <1> QED BY <1>1, <1>2, <1>3, <1>4, EndInv DEF CommitSweep

LEMMA NextIInv ==
  ASSUME IInv, [Next]_vars
  PROVE  IInv'
  <1>1. CASE WorkerStep
    <2>1. ASSUME NEW t \in Tasks, NEW m \in Machines, Create(t, m) PROVE IInv'
      BY <2>1, CreateInv
    <2>2. ASSUME NEW m \in Machines, Claim(m) PROVE IInv'
      <3>1. PICK t \in Claimable(m) \ Locked : Becomes({t}, "running")
        BY <2>2 DEF Claim
      <3>2. t \in Tasks \ Locked
        BY DEF Claimable
      <3> QED BY <2>2, <3>1, <3>2, WorkerInv DEF Claim
    <2>3. ASSUME NEW t \in Tasks, Renew(t) PROVE IInv'
      BY <2>3, WorkerInv DEF Renew
    <2>4. ASSUME NEW t \in Tasks, Settle(t) PROVE IInv'
      BY <2>4, WorkerInv DEF Settle
    <2> QED BY <1>1, <2>1, <2>2, <2>3, <2>4 DEF WorkerStep
  <1>2. CASE FleetStep
    BY <1>2, FleetInv DEF FleetStep
  <1>3. CASE Tick
    BY <1>3, TickInv
  <1>4. CASE StewardStep
    <2>1. CASE Rollback
      BY <2>1, EndInv DEF Rollback, IInv, TypeOK, work
    <2> QED BY <1>4, <2>1, SurveyInv, CommitInv, PickInv, KeepInv, SendInv DEF StewardStep
  <1>5. CASE \E m \in Machines : Failover(m)
    BY <1>5, FailoverInv
  <1>6. CASE UNCHANGED vars
    <2>1. UNCHANGED <<stage, exec, idle, gen, up, seen, sweep>>
      BY <1>6 DEF vars, work, fleet
    <2>2. TypeOK'
      BY <2>1 DEF IInv, TypeOK
    <2> QED BY <2>1, <2>2, OthersPassOver DEF IInv
  <1> QED BY <1>1, <1>2, <1>3, <1>4, <1>5, <1>6 DEF Next

THEOREM Invariant == Spec => []IInv
  BY InitIInv, NextIInv, PTL DEF Spec

-----------------------------------------------------------------------------
(* What a sweep that commits has moved is what it decided, and no more     *)
(* arrives at a machine than the loads left room for.                      *)
LEMMA RoomStep ==
  ASSUME IInv, CommitSweep, NEW m \in DOMAIN sweep.counted,
         {t \in {u \in Tasks : exec'[u] # exec[u]} :
            exec'[t] = m /\ exec[t] \in DOMAIN sweep.counted} # {}
  PROVE  LET moved == {t \in Tasks : exec'[t] # exec[t]}
             into == {t \in moved : exec'[t] = m /\ exec[t] \in DOMAIN sweep.counted}
             out == {t \in moved : exec[t] = m}
         IN  Total(sweep.counted, m) + Cardinality(into) - Cardinality(out) <= Capacity[m]
  <1> DEFINE moved == {t \in Tasks : exec'[t] # exec[t]}
             into == {t \in moved : exec'[t] = m /\ exec[t] \in DOMAIN sweep.counted}
             out == {t \in moved : exec[t] = m}
  <1>1. moved = DOMAIN sweep.to /\ \A t \in moved : exec'[t] = sweep.to[t]
    BY DEF IInv, TypeOK, LocksHold, CommitSweep
  <1>2. into = Into(m) /\ out = Out(m)
    BY <1>1 DEF Into, Out
  <1>3. Cardinality(into) \in Nat /\ Cardinality(out) \in Nat
    BY TaskSets
  <1>4. Total(sweep.counted, m) \in Nat /\ Capacity[m] \in Nat
    <2>1. sweep.counted \in [DOMAIN sweep.counted -> Load] /\ m \in Machines
      BY DEF IInv, TypeOK
    <2> QED BY <2>1, LoadsType
  <1>5. Total(sweep.counted, m) + Cardinality(into) <= Capacity[m] + Cardinality(out)
    BY <1>2 DEF IInv, CountsHold
  <1> HIDE DEF into, out
  <1>6. Total(sweep.counted, m) + Cardinality(into) - Cardinality(out) <= Capacity[m]
    BY <1>3, <1>4, <1>5
  <1> QED BY <1>6 DEF into, out

(* Only tasks that are absent or queued change their machine.              *)
LEMMA StayStep ==
  ASSUME IInv, [Next]_vars, NEW t \in Tasks, stage[t] = "running"
  PROVE  exec'[t] = exec[t]
  <1>1. CASE UNCHANGED exec
    BY <1>1
  <1>2. ASSUME NEW u \in Tasks, NEW m \in Machines, Create(u, m) PROVE exec'[t] = exec[t]
    BY <1>2 DEF IInv, TypeOK, Create
  <1>3. ASSUME CommitSweep PROVE exec'[t] = exec[t]
    BY <1>3 DEF IInv, LocksHold, CommitSweep
  <1>4. ASSUME NEW m \in Machines, Failover(m) PROVE exec'[t] = exec[t]
    BY <1>4 DEF IInv, TypeOK, Failover
  <1>5. CASE WorkerStep
    BY <1>1, <1>2, <1>5 DEF WorkerStep, Claim, Renew, Settle
  <1>6. CASE FleetStep \/ Tick
    BY <1>1, <1>6 DEF FleetStep, FallSilent, ComeBack, Tick, work
  <1>7. CASE StewardStep
    BY <1>1, <1>3, <1>7 DEF StewardStep, Survey, Rollback, Pick, Keep, Send, work
  <1>8. CASE UNCHANGED vars
    BY <1>1, <1>8 DEF vars, work
  <1> QED BY <1>4, <1>5, <1>6, <1>7, <1>8 DEF Next

-----------------------------------------------------------------------------
(* Every reachable state of queue, fleet and sweep is well typed.          *)
THEOREM TypeCorrect == Spec => []TypeOK
  BY Invariant, PTL DEF IInv

(* A sweep of the steward fills no machine of those it counted beyond its  *)
(* capacity, however the others change the queue while it runs.            *)
THEOREM SweepKeepsRoom == Spec => SweepFillsNoMachine
  <1>1. ASSUME IInv, [Next]_vars
        PROVE  [\A m \in DOMAIN sweep.counted :
                  LET moved == {t \in Tasks : exec'[t] # exec[t]}
                      into == {t \in moved : exec'[t] = m /\ exec[t] \in DOMAIN sweep.counted}
                      out == {t \in moved : exec[t] = m}
                  IN  CommitSweep /\ into # {} =>
                        Total(sweep.counted, m) + Cardinality(into) - Cardinality(out) <= Capacity[m]]_vars
    BY <1>1, RoomStep
  <1> QED BY <1>1, Invariant, PTL DEF Spec, SweepFillsNoMachine

(* Neither a sweep, nor a failover, nor anyone else moves a running task.  *)
THEOREM RunningWorkStays == Spec => RunningStaysPut
  <1>1. ASSUME IInv, [Next]_vars
        PROVE  [\A t \in Tasks : stage[t] = "running" => exec'[t] = exec[t]]_vars
    BY <1>1, StayStep
  <1> QED BY <1>1, Invariant, PTL DEF Spec, RunningStaysPut
=============================================================================
