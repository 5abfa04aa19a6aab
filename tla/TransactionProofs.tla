-------------------------- MODULE TransactionProofs --------------------------
(***************************************************************************)
(* Proofs about Transactions and OperationScripts, for every set of        *)
(* callers and every list of scripts that satisfies the assumptions named  *)
(* in those modules.  The first part: an exclusive lock has one holder; a  *)
(* transaction holds what its statements so far have locked; so at most    *)
(* one open transaction has a row of a kind that is written under a common *)
(* lock, or that a handler which never ran twice at once writes alone; and *)
(* since each looked before it wrote, such a row is never there twice,     *)
(* committed and pending ones together.                                    *)
(*                                                                         *)
(* The second part: a transaction holds nothing but what its statements so *)
(* far have locked, so who waits for whom is known from where they are in  *)
(* their scripts, and the order of the locks leaves no room for a circle.  *)
(*                                                                         *)
(* The third: what a handler has pending is known from where it is in its  *)
(* script, and what is stored exceeds what is announced by the callers that*)
(* are between the two, and those that failed there.                       *)
(***************************************************************************)
EXTENDS OperationScripts, FiniteSetTheorems, TLAPS

Ops == {"lock", "insert", "unless", "commit"}
Stmt == [op : Ops, row : Rows \cup {None}, needs : SUBSET Locks,
         else : Nat, tried : BOOLEAN]

-----------------------------------------------------------------------------
(* What a statement that is about to run looks like.                       *)
LEMMA NowType ==
  ASSUME TypeOK, NEW c \in Callers, Running(c)
  PROVE  /\ call[c].handler \in Handlers
         /\ call[c].at \in Nat
         /\ call[c].at \in 1 .. Len(Statements(c))
         /\ DOMAIN Statements(c) = 1 .. Len(Statements(c))
         /\ Len(Statements(c)) \in Nat
         /\ Now(c) \in Stmt
         /\ Now(c).op \in {"insert", "unless"} => Now(c).row \in Rows
  <1>1. call[c] \in [handler : Handlers \cup {None}, at : Nat]
    BY DEF TypeOK
  <1>2. call[c].handler \in Handlers /\ call[c].at \in Nat
    BY <1>1 DEF Running, Active
  <1>3. Statements(c) \in Seq(Stmt)
    BY <1>2, TransactionAssumption DEF Statements, Stmt, Ops
  <1>4. call[c].at \in DOMAIN Statements(c)
    BY DEF Running
  <1>5. Now(c) \in Stmt
    BY <1>3, <1>4 DEF Now
  <1>6. Now(c).op \in {"insert", "unless"} => Now(c).row \in Rows
    BY <1>2, <1>4, TransactionAssumption DEF Now, Statements
  <1> QED BY <1>2, <1>3, <1>4, <1>5, <1>6

LEMMA GotoType ==
  ASSUME TypeOK, NEW c \in Callers, NEW i \in Nat, Goto(c, i)
  PROVE  call' \in [Callers -> [handler : Handlers \cup {None}, at : Nat]]
  <1>1. call[c] \in [handler : Handlers \cup {None}, at : Nat]
    BY DEF TypeOK
  <1>2. [call[c] EXCEPT !.at = i] \in [handler : Handlers \cup {None}, at : Nat]
    BY <1>1
  <1> QED BY <1>2 DEF TypeOK, Goto

(* Where a caller goes on after its statement raised.                      *)
LEMMA RaiseType ==
  ASSUME TypeOK, NEW c \in Callers, Running(c), Raise(c)
  PROVE  call' \in [Callers -> [handler : Handlers \cup {None}, at : Nat]]
  <1> DEFINE K == [handler : Handlers \cup {None}, at : Nat]
  <1>2. Idle \in K
    BY DEF Idle
  <1>3. CASE Now(c).tried
    <2>1. AfterCommit(Statements(c), call[c].at) \in Nat
      BY <1>3, NowType, ScriptAssumption DEF Statements, Now, Running
    <2>2. Goto(c, AfterCommit(Statements(c), call[c].at))
      BY <1>3 DEF Raise
    <2> QED BY <2>1, <2>2, GotoType
  <1>4. CASE ~Now(c).tried
    <2>1. call' = [call EXCEPT ![c] = Idle]
      BY <1>4 DEF Raise
    <2> HIDE DEF K
    <2> QED BY <1>2, <2>1 DEF TypeOK, K
  <1> QED BY <1>3, <1>4

LEMMA DeadlockedRuns ==
  ASSUME NEW c \in Callers, Deadlocked(c)
  PROVE  Running(c)
  BY DEF Deadlocked, WaitsFor

(* Every variable keeps its type.                                          *)
LEMMA TypeInit == Init => TypeOK
  BY DEF Init, TypeOK, NoRows, Idle

LEMMA TypeStep == TypeOK /\ [Next]_vars => TypeOK'
  <1> SUFFICES ASSUME TypeOK, [Next]_vars PROVE TypeOK'
    OBVIOUS
  <1> DEFINE K == [handler : Handlers \cup {None}, at : Nat]
  <1>1. ASSUME NEW c \in Callers, NEW h \in Handlers, Begin(c, h) PROVE TypeOK'
    <2>1. [handler |-> h, at |-> 1] \in K
      OBVIOUS
    <2>2. call' \in [Callers -> K]
      BY <1>1, <2>1 DEF TypeOK, Begin
    <2>3. overlapped' \subseteq Handlers
      BY <1>1 DEF TypeOK, Begin
    <2> QED BY <1>1, <2>2, <2>3 DEF TypeOK, Begin
  <1>2. ASSUME NEW c \in Callers, Running(c), Take(c) PROVE locks' \in [Callers -> SUBSET Locks]
    <2>1. Now(c).needs \subseteq Locks
      BY <1>2, NowType DEF Stmt
    <2> QED BY <1>2, <2>1 DEF Take, TypeOK
  <1>3. ASSUME NEW c \in Callers, Running(c), Add(c), Now(c).row \in Rows PROVE TypeOK'
    <2>1. call' \in [Callers -> K]
      BY <1>3, NowType, GotoType DEF Add
    <2>2. pend' \in [Callers -> [Rows -> Nat]]
      BY <1>3 DEF Add, TypeOK
    <2> QED BY <1>2, <1>3, <2>1, <2>2 DEF Add, TypeOK
  <1>4. ASSUME NEW c \in Callers, Raise(c), Running(c), faults' \in Nat PROVE TypeOK'
    <2>1. call' \in [Callers -> K]
      BY <1>4, RaiseType
    <2>2. pend' \in [Callers -> [Rows -> Nat]] /\ locks' \in [Callers -> SUBSET Locks]
      BY <1>4 DEF Raise, RollBack, TypeOK, NoRows
    <2> QED BY <1>4, <2>1, <2>2 DEF Raise, RollBack, TypeOK
  <1>5. ASSUME NEW c \in Callers, Advance(c) PROVE TypeOK'
    <2>1. CASE Lock(c)
      <3>1. call' \in [Callers -> K]
        BY <2>1, NowType, GotoType DEF Lock, Does
      <3> QED BY <1>2, <2>1, <3>1 DEF Lock, Does, TypeOK
    <2>2. CASE Write(c)
      BY <1>3, <2>2, NowType DEF Write, Does
    <2>3. CASE WriteNew(c)
      BY <1>3, <2>3, NowType DEF WriteNew, Does
    <2>4. CASE Pass(c)
      <3>1. Now(c).else \in Nat /\ call[c].at \in Nat
        BY <2>4, NowType DEF Pass, Does, Stmt
      <3>2. call' \in [Callers -> K]
        BY <2>4, <3>1, GotoType DEF Pass
      <3> QED BY <1>2, <2>4, <3>2 DEF Pass, Does, TypeOK
    <2>5. CASE CommitWork(c)
      <3>1. call' \in [Callers -> K]
        BY <2>5, NowType, GotoType DEF CommitWork, Does
      <3>2. table' \in [Rows -> Nat]
        BY <2>5 DEF CommitWork, TypeOK
      <3> QED BY <2>5, <3>1, <3>2 DEF CommitWork, TypeOK, NoRows
    <2>6. CASE Return(c)
      <3>1. Idle \in K
        BY DEF Idle
      <3>2. call' \in [Callers -> K]
        BY <2>6, <3>1 DEF Return, TypeOK
      <3> QED BY <2>6, <3>2 DEF Return, TypeOK
    <2>7. CASE Victim(c)
      BY <1>4, <2>7, DeadlockedRuns DEF Victim, TypeOK
    <2> QED BY <1>5, <2>1, <2>2, <2>3, <2>4, <2>5, <2>6, <2>7 DEF Advance
  <1>6. ASSUME NEW c \in Callers, Fail(c) PROVE TypeOK'
    BY <1>4, <1>6 DEF Fail, TypeOK
  <1>7. ASSUME NEW c \in Callers, Die(c) PROVE TypeOK'
    <2>1. Idle \in K
      BY DEF Idle
    <2>2. call' \in [Callers -> K]
      BY <1>7, <2>1 DEF Die, TypeOK
    <2> QED BY <1>7, <2>2 DEF Die, RollBack, TypeOK, NoRows
  <1>8. CASE UNCHANGED vars
    BY <1>8 DEF vars, TypeOK
  <1> QED BY <1>1, <1>5, <1>6, <1>7, <1>8 DEF Next

(* The state always has the types that the comments on the variables give. *)
THEOREM TypeCorrect == Spec => []TypeOK
  BY TypeInit, TypeStep, PTL DEF Spec
-----------------------------------------------------------------------------
(* The inductive invariant.                                                *)
Exclusive ==
  \A c, d \in Callers : \A r : c # d =>
    ~(<<r, "exclusive">> \in locks[c] /\ <<r, "exclusive">> \in locks[d])

(* Between transactions a caller has no lock and nothing pending.          *)
Clean == \A c \in Callers : ~Running(c) => pend[c] = NoRows /\ locks[c] = {}

(* Until it commits, a transaction holds what its statements have locked.  *)
LocksHeld ==
  \A c \in Callers : Running(c) /\ Now(c).op # "commit" =>
    \A j \in DOMAIN Statements(c) :
      j < call[c].at /\ (\A l \in j .. call[c].at : Statements(c)[l].op # "commit")
        => Statements(c)[j].needs \subseteq locks[c]

(* A pending row is one that the caller's handler adds, under the lock.    *)
Owned ==
  \A c \in Callers : \A k \in Rows : pend[c][k] > 0 =>
    /\ Active(c) /\ Adds(Statements(c), k) # {}
    /\ \A r : SerializedBy(k, r) => <<r, "exclusive">> \in locks[c]

Recorded ==
  \A c, d \in Callers :
    c # d /\ Active(c) /\ call[c].handler = call[d].handler
      => call[c].handler \in overlapped

Alone(k) == \/ \E r : SerializedBy(k, r)
            \/ \E h \in Handlers : WrittenBy(k, h) /\ h \notin overlapped

Single ==
  \A k \in Rows : Alone(k) =>
    /\ table[k] <= 1
    /\ \A c \in Callers : table[k] + pend[c][k] <= 1
    /\ \A c, d \in Callers : c # d => pend[c][k] = 0 \/ pend[d][k] = 0

IInv == /\ TypeOK /\ Exclusive /\ Clean /\ LocksHeld
        /\ Owned /\ Recorded /\ Single

LEMMA InvInit == Init => IInv
  <1> SUFFICES ASSUME Init PROVE IInv
    OBVIOUS
  <1>1. \A c \in Callers : ~Active(c) /\ ~Running(c)
    BY DEF Init, Active, Running, Idle
  <1>2. \A k \in Rows : table[k] = 0 /\ \A c \in Callers : pend[c][k] = 0
    BY DEF Init, NoRows
  <1>3. Exclusive /\ Clean
    BY <1>1 DEF Init, Exclusive, Clean
  <1>4. LocksHeld /\ Recorded
    BY <1>1 DEF LocksHeld, Recorded
  <1>5. Owned /\ Single
    BY <1>2 DEF Owned, Single
  <1> QED BY <1>3, <1>4, <1>5, TypeInit DEF IInv

(* What the caller c does leaves the others where they are.                *)
LEMMA Others ==
  ASSUME TypeOK, NEW c \in Callers, NEW d \in Callers, c # d, call'[d] = call[d]
  PROVE  /\ Active(d)' = Active(d) /\ Running(d)' = Running(d)
         /\ Statements(d)' = Statements(d) /\ Now(d)' = Now(d)
  BY DEF Active, Running, Statements, Now

-----------------------------------------------------------------------------
(* The four kinds of steps.                                                *)
(* A statement of c is executed: it takes its locks and goes on to i.      *)
Step(c, i) ==
  /\ Running(c) /\ Granted(c) /\ Now(c).op # "commit"
  /\ i = call[c].at + 1 \/ IsCommit(Statements(c), i)
  /\ Take(c) /\ Goto(c, i)
  /\ UNCHANGED <<table, begun, faults, overlapped>>

(* A transaction of c ends, in a commit or a rollback.                     *)
End(c) ==
  /\ pend' = [pend EXCEPT ![c] = NoRows]
  /\ locks' = [locks EXCEPT ![c] = {}]
  /\ \/ call' = [call EXCEPT ![c] = Idle]
     \/ \E i \in Nat : IsCommit(Statements(c), i) /\ Goto(c, i + 1)

LEMMA AtAfterGoto ==
  ASSUME TypeOK, NEW c \in Callers, NEW i, Goto(c, i)
  PROVE  /\ call'[c].at = i /\ call'[c].handler = call[c].handler
         /\ Statements(c)' = Statements(c) /\ Active(c)' = Active(c)
         /\ \A d \in Callers : d # c => call'[d] = call[d]
  <1>1. call[c] \in [handler : Handlers \cup {None}, at : Nat]
    BY DEF TypeOK
  <1>2. call'[c] = [call[c] EXCEPT !.at = i]
    BY DEF Goto, TypeOK
  <1>3. call'[c].at = i /\ call'[c].handler = call[c].handler
    BY <1>1, <1>2
  <1> QED BY <1>3 DEF Goto, TypeOK, Statements, Active

LEMMA StepExclusive ==
  ASSUME IInv, NEW c \in Callers, NEW i \in Nat, Step(c, i)
  PROVE  Exclusive'
  <1> SUFFICES ASSUME NEW e \in Callers, NEW d \in Callers, NEW r, e # d,
                      <<r, "exclusive">> \in locks'[e], <<r, "exclusive">> \in locks'[d]
               PROVE  FALSE
    BY DEF Exclusive
  <1>1. \A f \in Callers : locks'[f] = IF f = c THEN locks[c] \cup Now(c).needs ELSE locks[f]
    BY DEF Step, Take, IInv, TypeOK
  <1>2. \A f \in Callers : f # c /\ <<r, "exclusive">> \in locks[f]
                           => <<r, "exclusive">> \notin Now(c).needs
    <2> SUFFICES ASSUME NEW f \in Callers, f # c, <<r, "exclusive">> \in locks[f],
                        <<r, "exclusive">> \in Now(c).needs
                 PROVE  FALSE
      OBVIOUS
    <2>1. Clash("exclusive", "exclusive")
      BY DEF Clash
    <2>2. WaitsFor(c, f)
      BY <2>1 DEF WaitsFor, Step
    <2> QED BY <2>2 DEF Step, Granted
  <1>3. CASE e = c
    BY <1>1, <1>2, <1>3 DEF IInv, Exclusive
  <1>4. CASE d = c
    BY <1>1, <1>2, <1>4 DEF IInv, Exclusive
  <1>5. CASE e # c /\ d # c
    BY <1>1, <1>5 DEF IInv, Exclusive
  <1> QED BY <1>3, <1>4, <1>5

LEMMA StepLocksHeld ==
  ASSUME IInv, NEW c \in Callers, NEW i \in Nat, Step(c, i)
  PROVE  LocksHeld'
  <1> SUFFICES ASSUME NEW d \in Callers, Running(d)', Now(d)'.op # "commit",
                      NEW j \in DOMAIN Statements(d)', j < call'[d].at,
                      \A l \in j .. call'[d].at : Statements(d)'[l].op # "commit"
               PROVE  Statements(d)'[j].needs \subseteq locks'[d]
    BY DEF LocksHeld
  <1>0. TypeOK
    BY DEF IInv
  <1>1. CASE d # c
    <2>1. call'[d] = call[d]
      BY <1>0, <1>1, AtAfterGoto DEF Step
    <2>2. Running(d) /\ Now(d).op # "commit" /\ Statements(d)' = Statements(d)
      BY <1>0, <1>1, <2>1, Others
    <2>3. Statements(d)[j].needs \subseteq locks[d]
      BY <2>1, <2>2 DEF IInv, LocksHeld
    <2>4. locks'[d] = locks[d]
      BY <1>0, <1>1 DEF Step, Take, TypeOK
    <2> QED BY <2>2, <2>3, <2>4
  <1>2. CASE d = c
    <2>1. call'[c].at = i /\ Statements(c)' = Statements(c)
      BY <1>0, AtAfterGoto DEF Step
    <2>2. call[c].at \in Nat /\ DOMAIN Statements(c) = 1 .. Len(Statements(c))
          /\ Len(Statements(c)) \in Nat
      BY <1>0, NowType DEF Step
    <2>3. i = call[c].at + 1
      <3>1. Now(c)' = Statements(c)[i]
        BY <2>1 DEF Now
      <3> QED BY <1>2, <3>1 DEF Step, IsCommit
    <2>4. j \in Nat /\ j <= call[c].at
      BY <1>2, <2>1, <2>2, <2>3
    <2>5. locks'[c] = locks[c] \cup Now(c).needs
      BY <1>0 DEF Step, Take, TypeOK
    <2>6. CASE j = call[c].at
      BY <1>2, <2>1, <2>5, <2>6 DEF Now
    <2>7. CASE j < call[c].at
      <3>1. \A l \in j .. call[c].at : Statements(c)[l].op # "commit"
        BY <1>2, <2>1, <2>2, <2>3, <2>4
      <3>2. Statements(c)[j].needs \subseteq locks[c]
        BY <1>2, <2>1, <2>7, <3>1 DEF IInv, LocksHeld, Step
      <3> QED BY <1>2, <2>1, <2>5, <3>2
    <2> QED BY <2>2, <2>4, <2>6, <2>7
  <1> QED BY <1>1, <1>2

LEMMA StepClean ==
  ASSUME IInv, NEW c \in Callers, NEW i \in Nat, Step(c, i),
         \A d \in Callers : d # c => pend'[d] = pend[d]
  PROVE  Clean'
  <1> SUFFICES ASSUME NEW d \in Callers, ~Running(d)'
               PROVE  pend'[d] = NoRows /\ locks'[d] = {}
    BY DEF Clean, NoRows
  <1>0. TypeOK
    BY DEF IInv
  <1>1. CASE d # c
    <2>1. call'[d] = call[d]
      BY <1>0, <1>1, AtAfterGoto DEF Step
    <2>2. ~Running(d)
      BY <1>0, <1>1, <2>1, Others
    <2>3. locks'[d] = locks[d]
      BY <1>0, <1>1 DEF Step, Take, TypeOK
    <2> QED BY <1>1, <2>2, <2>3 DEF IInv, Clean
  <1>2. CASE d = c
    <2>1. call'[c].at = i /\ Statements(c)' = Statements(c) /\ Active(c)' = Active(c)
      BY <1>0, AtAfterGoto DEF Step
    <2>2. /\ call[c].handler \in Handlers
          /\ call[c].at \in 1 .. Len(Statements(c))
          /\ DOMAIN Statements(c) = 1 .. Len(Statements(c))
          /\ Len(Statements(c)) \in Nat
      BY <1>0, NowType DEF Step
    <2>3. i \notin DOMAIN Statements(c)
      BY <1>2, <2>1 DEF Running, Step
    <2>4. i = call[c].at + 1
      BY <2>3 DEF Step, IsCommit
    <2>5. call[c].at = Len(Statements(c))
      BY <2>2, <2>3, <2>4
    <2>6. Now(c).op = "commit"
      BY <2>2, <2>5, ScriptAssumption DEF Now, IsCommit, Statements
    <2> QED BY <2>6 DEF Step
  <1> QED BY <1>1, <1>2

(* Whoever adds a row that is written under the lock r has r.              *)
LEMMA HoldsNow ==
  ASSUME IInv, NEW c \in Callers, NEW i \in Nat, Step(c, i), NEW r,
         Now(c).op \in {"insert", "unless"}, SerializedBy(Now(c).row, r)
  PROVE  <<r, "exclusive">> \in locks'[c] /\ Now(c).op = "unless"
  <1> DEFINE s == Statements(c)
             a == call[c].at
  <1>0. TypeOK
    BY DEF IInv
  <1>1. /\ call[c].handler \in Handlers
        /\ a \in 1 .. Len(s) /\ DOMAIN s = 1 .. Len(s) /\ Len(s) \in Nat
    BY <1>0, NowType DEF Step
  <1>2. a \in Adds(s, Now(c).row)
    BY <1>1 DEF Adds, Now
  <1>3. s[a].op = "unless" /\ Holds(s, a, r)
    BY <1>1, <1>2 DEF SerializedBy, Statements
  <1>4. PICK j \in DOMAIN s : /\ j <= a /\ <<r, "exclusive">> \in s[j].needs
                              /\ \A l \in j .. a : s[l].op # "commit"
    BY <1>3 DEF Holds
  <1>5. locks'[c] = locks[c] \cup Now(c).needs
    BY <1>0 DEF Step, Take, TypeOK
  <1>6. CASE j = a
    BY <1>3, <1>4, <1>5, <1>6 DEF Now
  <1>7. CASE j < a
    <2>1. s[j].needs \subseteq locks[c]
      BY <1>1, <1>4, <1>7 DEF IInv, LocksHeld, Step
    <2> QED BY <1>3, <1>4, <1>5, <2>1 DEF Now
  <1> QED BY <1>1, <1>4, <1>6, <1>7

LEMMA StepRecorded ==
  ASSUME IInv, NEW c \in Callers, NEW i \in Nat, Step(c, i)
  PROVE  Recorded'
  <1>0. TypeOK
    BY DEF IInv
  <1>1. \A d \in Callers : call'[d].handler = call[d].handler
    BY <1>0, AtAfterGoto DEF Step
  <1>2. \A d \in Callers : Active(d)' = Active(d)
    BY <1>1 DEF Active
  <1> QED BY <1>1, <1>2 DEF IInv, Recorded, Step

LEMMA AloneStays ==
  ASSUME NEW k \in Rows, overlapped \subseteq overlapped', Alone(k)'
  PROVE  Alone(k)
  BY DEF Alone

(* A statement that writes nothing.                                        *)
LEMMA QuietStep ==
  ASSUME IInv, NEW c \in Callers, NEW i \in Nat, Step(c, i), pend' = pend
  PROVE  Exclusive' /\ Clean' /\ LocksHeld' /\ Owned' /\ Recorded' /\ Single'
  <1>0. TypeOK
    BY DEF IInv
  <1>1. \A d \in Callers : locks[d] \subseteq locks'[d]
    BY <1>0 DEF Step, Take, TypeOK
  <1>2. \A d \in Callers : Active(d)' = Active(d) /\ Statements(d)' = Statements(d)
    BY <1>0, AtAfterGoto, Others DEF Step
  <1>3. Owned'
    BY <1>1, <1>2 DEF IInv, Owned
  <1>4. Single'
    BY AloneStays DEF IInv, Single, Step, Alone
  <1> QED BY <1>3, <1>4, StepExclusive, StepClean, StepLocksHeld, StepRecorded

(* A statement that adds a row.                                            *)
LEMMA AddStep ==
  ASSUME IInv, NEW c \in Callers, Step(c, call[c].at + 1), call[c].at \in Nat,
         Now(c).op \in {"insert", "unless"}, Now(c).row \in Rows,
         Now(c).op = "unless" => Seen(c, Now(c).row) = 0,
         pend' = [pend EXCEPT ![c][Now(c).row] = @ + 1]
  PROVE  Exclusive' /\ Clean' /\ LocksHeld' /\ Owned' /\ Recorded' /\ Single'
  <1> DEFINE k == Now(c).row
             i == call[c].at + 1
  <1>0. TypeOK
    BY DEF IInv
  <1>1. i \in Nat
    OBVIOUS
  <1>2. Exclusive' /\ LocksHeld' /\ Recorded'
    BY <1>1, StepExclusive, StepLocksHeld, StepRecorded
  <1>3. Clean'
    BY <1>0, <1>1, StepClean DEF TypeOK
  <1>4. \A d \in Callers : locks[d] \subseteq locks'[d]
    BY <1>0 DEF Step, Take, TypeOK
  <1>5. \A d \in Callers : Active(d)' = Active(d) /\ Statements(d)' = Statements(d)
    BY <1>0, <1>1, AtAfterGoto, Others DEF Step
  <1>6. \A d \in Callers, m \in Rows :
          pend'[d][m] = IF d = c /\ m = k THEN pend[c][k] + 1 ELSE pend[d][m]
    BY <1>0 DEF TypeOK
  <1>7. Active(c) /\ Adds(Statements(c), k) # {}
    BY DEF Step, Running, Adds, Now
  <1>8. \A r : SerializedBy(k, r) =>
                <<r, "exclusive">> \in locks'[c] /\ Now(c).op = "unless"
    BY <1>1, HoldsNow
  <1>9. Owned'
    <2> SUFFICES ASSUME NEW d \in Callers, NEW m \in Rows, pend'[d][m] > 0
                 PROVE  /\ Active(d) /\ Adds(Statements(d), m) # {}
                        /\ \A r : SerializedBy(m, r) => <<r, "exclusive">> \in locks'[d]
      BY <1>5 DEF Owned
    <2>1. CASE d = c /\ m = k
      BY <1>7, <1>8, <2>1
    <2>2. CASE ~(d = c /\ m = k)
      BY <1>4, <1>6, <2>2 DEF IInv, Owned
    <2> QED BY <2>1, <2>2
  <1>10. ASSUME NEW d \in Callers, d # c, pend[d][k] > 0, Alone(k) PROVE FALSE
    <2>1. CASE \E r : SerializedBy(k, r)
      <3>1. PICK r : SerializedBy(k, r)
        BY <2>1
      <3>2. <<r, "exclusive">> \in locks'[d]
        BY <1>4, <1>10, <3>1 DEF IInv, Owned
      <3> QED BY <1>2, <1>8, <1>10, <3>1, <3>2 DEF Exclusive
    <2>2. CASE \E h \in Handlers : WrittenBy(k, h) /\ h \notin overlapped
      <3>1. PICK h \in Handlers : WrittenBy(k, h) /\ h \notin overlapped
        BY <2>2
      <3>2. Active(d) /\ Adds(Statements(d), k) # {}
        BY <1>10 DEF IInv, Owned
      <3>3. call[c].handler \in Handlers /\ call[d].handler \in Handlers
        BY <1>0, <1>7, <3>2 DEF Active, TypeOK
      <3>4. call[c].handler = h /\ call[d].handler = h
        BY <1>7, <3>1, <3>2, <3>3 DEF WrittenBy, Statements
      <3> QED BY <1>7, <1>10, <3>1, <3>4 DEF IInv, Recorded
    <2> QED BY <1>10, <2>1, <2>2 DEF Alone
  <1>11. Alone(k) => Now(c).op = "unless"
    <2>1. \A r : SerializedBy(k, r) => Now(c).op = "unless"
      BY <1>8
    <2>2. ASSUME NEW h \in Handlers, WrittenBy(k, h) PROVE Now(c).op = "unless"
      <3>1. call[c].handler \in Handlers /\ call[c].at \in Adds(Statements(c), k)
        BY <1>0, NowType DEF Adds, Now, Step
      <3> QED BY <2>2, <3>1 DEF WrittenBy, Now, Statements
    <2> QED BY <2>1, <2>2 DEF Alone
  <1>12. Single'
    <2> SUFFICES ASSUME NEW m \in Rows, Alone(m)
                 PROVE  /\ table[m] <= 1
                        /\ \A d \in Callers : table[m] + pend'[d][m] <= 1
                        /\ \A e, d \in Callers : e # d => pend'[e][m] = 0 \/ pend'[d][m] = 0
      BY DEF Single, Step, Alone
    <2>1. CASE m # k
      BY <1>6, <2>1 DEF IInv, Single
    <2>2. CASE m = k
      <3>1. table[k] + pend[c][k] = 0
        BY <1>11, <2>2 DEF Seen
      <3>2. table[k] = 0 /\ pend[c][k] = 0
        BY <1>0, <3>1 DEF TypeOK
      <3>3. \A d \in Callers : d # c => pend[d][k] = 0
        BY <1>0, <1>10, <2>2 DEF TypeOK
      <3> QED BY <1>6, <2>2, <3>2, <3>3
    <2> QED BY <2>1, <2>2
  <1> QED BY <1>2, <1>3, <1>9, <1>12

-----------------------------------------------------------------------------
(* The end of a transaction, with table what it was or c's rows added.     *)
LEMMA EndStep ==
  ASSUME IInv, NEW c \in Callers, End(c), overlapped' = overlapped,
         \/ table' = table
         \/ table' = [k \in Rows |-> table[k] + pend[c][k]]
  PROVE  Exclusive' /\ Clean' /\ LocksHeld' /\ Owned' /\ Recorded' /\ Single'
  <1>0. TypeOK
    BY DEF IInv
  <1>1. pend'[c] = NoRows /\ locks'[c] = {}
    BY <1>0 DEF End, TypeOK
  <1>2. \A d \in Callers : d # c => pend'[d] = pend[d] /\ locks'[d] = locks[d]
                                    /\ call'[d] = call[d]
    BY <1>0, AtAfterGoto DEF End, TypeOK
  <1>3. \A d \in Callers : d # c =>
          /\ Active(d)' = Active(d) /\ Running(d)' = Running(d)
          /\ Statements(d)' = Statements(d) /\ Now(d)' = Now(d)
    BY <1>0, <1>2, Others
  <1>4. \A k \in Rows : pend'[c][k] = 0
    BY <1>1 DEF NoRows
  <1>5. Exclusive'
    BY <1>1, <1>2 DEF IInv, Exclusive
  <1>6. Clean'
    <2>1. NoRows' = NoRows
      BY DEF NoRows
    <2> QED BY <1>1, <1>2, <1>3, <2>1 DEF IInv, Clean
  <1>7. LocksHeld'
    <2> SUFFICES ASSUME NEW d \in Callers, Running(d)', Now(d)'.op # "commit",
                        NEW j \in DOMAIN Statements(d)', j < call'[d].at,
                        \A l \in j .. call'[d].at : Statements(d)'[l].op # "commit"
                 PROVE  Statements(d)'[j].needs \subseteq locks'[d]
      BY DEF LocksHeld
    <2>1. CASE d # c
      BY <1>2, <1>3, <2>1 DEF IInv, LocksHeld
    <2>2. CASE d = c
      <3>1. CASE call' = [call EXCEPT ![c] = Idle]
        BY <1>0, <2>2, <3>1 DEF Running, Active, Idle, TypeOK
      <3>2. CASE \E i \in Nat : IsCommit(Statements(c), i) /\ Goto(c, i + 1)
        <4>1. PICK i \in Nat : IsCommit(Statements(c), i) /\ Goto(c, i + 1)
          BY <3>2
        <4>2. call'[c].at = i + 1 /\ Statements(c)' = Statements(c)
          BY <1>0, <4>1, AtAfterGoto
        <4>3. call'[c].handler = call[c].handler
          BY <1>0, <4>1, AtAfterGoto
        <4>4. call[c].handler \in Handlers
          BY <1>0, <2>2, <4>3 DEF Running, Active, TypeOK
        <4>5. DOMAIN Statements(c) \subseteq Nat
          BY <4>4, TransactionAssumption DEF Statements
        <4>6. i \in j .. i + 1
          BY <2>2, <4>1, <4>2, <4>5
        <4> QED BY <2>2, <4>1, <4>2, <4>6 DEF IsCommit
      <3> QED BY <3>1, <3>2 DEF End
    <2> QED BY <2>1, <2>2
  <1>8. Owned'
    <2> SUFFICES ASSUME NEW d \in Callers, NEW k \in Rows, pend'[d][k] > 0
                 PROVE  /\ Active(d)' /\ Adds(Statements(d)', k) # {}
                        /\ \A r : SerializedBy(k, r) => <<r, "exclusive">> \in locks'[d]
      BY DEF Owned
    <2>1. d # c
      BY <1>4
    <2> QED BY <1>2, <1>3, <2>1 DEF IInv, Owned
  <1>9. Recorded'
    <2>1. call'[c].handler = None \/ call'[c].handler = call[c].handler
      BY <1>0, AtAfterGoto DEF End, Idle, TypeOK
    <2> QED BY <1>2, <2>1 DEF IInv, Recorded, Active
  <1>10. Single'
    <2> SUFFICES ASSUME NEW k \in Rows, Alone(k)
                 PROVE  /\ table'[k] <= 1
                        /\ \A d \in Callers : table'[k] + pend'[d][k] <= 1
                        /\ \A e, d \in Callers : e # d => pend'[e][k] = 0 \/ pend'[d][k] = 0
      BY DEF Single, Alone
    <2>1. /\ table[k] <= 1
          /\ \A d \in Callers : table[k] + pend[d][k] <= 1
          /\ \A e, d \in Callers : e # d => pend[e][k] = 0 \/ pend[d][k] = 0
      BY DEF IInv, Single
    <2>2. table[k] \in Nat /\ \A d \in Callers : pend[d][k] \in Nat
      BY <1>0 DEF TypeOK
    <2>3. \A d \in Callers : pend'[d][k] = IF d = c THEN 0 ELSE pend[d][k]
      BY <1>2, <1>4
    <2>4. CASE table' = table
      BY <2>1, <2>2, <2>3, <2>4
    <2>5. CASE table' = [m \in Rows |-> table[m] + pend[c][m]]
      <3>1. table'[k] = table[k] + pend[c][k]
        BY <2>5
      <3>2. table'[k] <= 1
        BY <2>1, <3>1
      <3>3. \A d \in Callers : d # c => table'[k] + pend[d][k] <= 1
        BY <2>1, <2>2, <3>1
      <3> QED BY <2>1, <2>2, <2>3, <3>2, <3>3
    <2> QED BY <2>4, <2>5
  <1> QED BY <1>5, <1>6, <1>7, <1>8, <1>9, <1>10

LEMMA BeginStep ==
  ASSUME IInv, NEW c \in Callers, NEW h \in Handlers, Begin(c, h)
  PROVE  Exclusive' /\ Clean' /\ LocksHeld' /\ Owned' /\ Recorded' /\ Single'
  <1>0. TypeOK
    BY DEF IInv
  <1>1. call'[c].handler = h /\ call'[c].at = 1
    BY <1>0 DEF Begin, TypeOK
  <1>2. \A d \in Callers : d # c => call'[d] = call[d]
    BY <1>0 DEF Begin, TypeOK
  <1>3. \A d \in Callers : d # c =>
          /\ Active(d)' = Active(d) /\ Running(d)' = Running(d)
          /\ Statements(d)' = Statements(d) /\ Now(d)' = Now(d)
    BY <1>0, <1>2, Others
  <1>4. pend[c] = NoRows /\ locks[c] = {} /\ NoRows' = NoRows
    BY DEF IInv, Clean, Begin, Running, NoRows
  <1>5. Exclusive'
    BY DEF IInv, Exclusive, Begin
  <1>6. Clean'
    BY <1>3, <1>4 DEF IInv, Clean, Begin
  <1>7. LocksHeld'
    <2>1. \A j \in DOMAIN Script[h] : ~(j < 1)
      BY TransactionAssumption
    <2>2. Statements(c)' = Script[h]
      BY <1>1 DEF Statements
    <2> QED BY <1>1, <1>2, <1>3, <2>1, <2>2 DEF IInv, LocksHeld, Begin
  <1>8. Owned'
    <2> SUFFICES ASSUME NEW d \in Callers, NEW k \in Rows, pend[d][k] > 0
                 PROVE  /\ Active(d)' /\ Adds(Statements(d)', k) # {}
                        /\ \A r : SerializedBy(k, r) => <<r, "exclusive">> \in locks[d]
      BY DEF Owned, Begin
    <2>1. d # c
      BY <1>4 DEF NoRows
    <2> QED BY <1>3, <2>1 DEF IInv, Owned
  <1>9. overlapped \subseteq overlapped'
    BY DEF Begin
  <1>10. Recorded'
    <2> SUFFICES ASSUME NEW d \in Callers, NEW e \in Callers, d # e, Active(d)',
                        call'[d].handler = call'[e].handler
                 PROVE  call'[d].handler \in overlapped'
      BY DEF Recorded
    <2>1. CASE d = c \/ e = c
      BY <1>1, <1>2, <2>1 DEF Begin
    <2>2. CASE d # c /\ e # c
      BY <1>2, <1>3, <1>9, <2>2 DEF IInv, Recorded
    <2> QED BY <2>1, <2>2
  <1>11. Single'
    BY <1>9, AloneStays DEF IInv, Single, Begin
  <1> QED BY <1>5, <1>6, <1>7, <1>8, <1>10, <1>11

-----------------------------------------------------------------------------
(* Each action is one of these kinds.                                      *)
LEMMA RaiseEnds ==
  ASSUME TypeOK, NEW c \in Callers, Running(c), Raise(c)
  PROVE  End(c) /\ overlapped' = overlapped /\ table' = table
  <1>1. CASE Now(c).tried
    <2> DEFINE i == AfterCommit(Statements(c), call[c].at)
    <2>1. i \in Nat /\ IsCommit(Statements(c), i - 1)
      BY <1>1, NowType, ScriptAssumption DEF Statements, Now, Running
    <2>2. i - 1 \in Nat
      BY <2>1, NowType DEF IsCommit
    <2>3. Goto(c, (i - 1) + 1)
      BY <1>1, <2>1 DEF Raise
    <2> QED BY <2>1, <2>2, <2>3 DEF End, Raise, RollBack
  <1>2. CASE ~Now(c).tried
    BY <1>2 DEF End, Raise, RollBack
  <1> QED BY <1>1, <1>2

LEMMA InvStep == IInv /\ [Next]_vars => IInv'
  <1> SUFFICES ASSUME IInv, [Next]_vars PROVE IInv'
    OBVIOUS
  <1> DEFINE J == Exclusive /\ Clean /\ LocksHeld /\ Owned /\ Recorded /\ Single
  <1>0. TypeOK /\ TypeOK'
    BY TypeStep DEF IInv
  <1>1. ASSUME NEW c \in Callers, NEW h \in Handlers, Begin(c, h) PROVE J'
    BY <1>1, BeginStep
  <1>2. ASSUME NEW c \in Callers, Lock(c) PROVE J'
    <2>1. call[c].at + 1 \in Nat /\ Step(c, call[c].at + 1)
      BY <1>0, <1>2, NowType DEF Lock, Does, Step
    <2> QED BY <1>2, <2>1, QuietStep DEF Lock
  <1>3. ASSUME NEW c \in Callers, Write(c) PROVE J'
    <2>1. call[c].at \in Nat /\ Now(c).row \in Rows /\ Step(c, call[c].at + 1)
      BY <1>0, <1>3, NowType DEF Write, Does, Step, Add
    <2> QED BY <1>3, <2>1, AddStep DEF Write, Does, Add
  <1>4. ASSUME NEW c \in Callers, WriteNew(c) PROVE J'
    <2>1. call[c].at \in Nat /\ Now(c).row \in Rows /\ Step(c, call[c].at + 1)
      BY <1>0, <1>4, NowType DEF WriteNew, Does, Step, Add
    <2> QED BY <1>4, <2>1, AddStep DEF WriteNew, Does, Add
  <1>5. ASSUME NEW c \in Callers, Pass(c) PROVE J'
    <2> DEFINE i == call[c].at + Now(c).else
    <2>1. call[c].at \in Nat /\ Now(c).else \in Nat
      BY <1>0, <1>5, NowType DEF Pass, Does, Stmt
    <2>2. Now(c).else = 1 \/ IsCommit(Statements(c), i)
      BY <1>0, <1>5, NowType, ScriptAssumption DEF Pass, Does, Running, Now, Statements
    <2>3. i \in Nat /\ Step(c, i)
      BY <1>5, <2>1, <2>2 DEF Pass, Does, Step
    <2> QED BY <1>5, <2>3, QuietStep DEF Pass
  <1>6. ASSUME NEW c \in Callers, CommitWork(c) PROVE J'
    <2>1. call[c].at \in Nat /\ IsCommit(Statements(c), call[c].at)
      BY <1>0, <1>6, NowType DEF CommitWork, Does, Running, IsCommit, Now
    <2>2. End(c)
      BY <1>6, <2>1 DEF CommitWork, End
    <2> QED BY <1>6, <2>2, EndStep DEF CommitWork
  <1>7. ASSUME NEW c \in Callers, Return(c) PROVE J'
    <2>1. pend[c] = NoRows /\ locks[c] = {}
      BY <1>7 DEF IInv, Clean, Return
    <2>2. End(c)
      BY <1>0, <1>7, <2>1 DEF Return, End, TypeOK
    <2> QED BY <1>7, <2>2, EndStep DEF Return
  <1>8. ASSUME NEW c \in Callers, Victim(c) PROVE J'
    BY <1>0, <1>8, DeadlockedRuns, RaiseEnds, EndStep DEF Victim
  <1>9. ASSUME NEW c \in Callers, Fail(c) PROVE J'
    BY <1>0, <1>9, RaiseEnds, EndStep DEF Fail
  <1>10. ASSUME NEW c \in Callers, Die(c) PROVE J'
    BY <1>10, EndStep DEF Die, RollBack, End
  <1>11. ASSUME UNCHANGED vars PROVE J'
    <2>1. Exclusive' /\ Recorded'
      BY <1>11 DEF vars, IInv, Exclusive, Recorded, Active
    <2>2. Clean'
      BY <1>11 DEF vars, IInv, Clean, Running, Active, Statements, NoRows
    <2>3. LocksHeld'
      BY <1>11 DEF vars, IInv, LocksHeld, Running, Active, Statements, Now
    <2>4. Owned'
      BY <1>11 DEF vars, IInv, Owned, Active, Statements
    <2>5. Single'
      BY <1>11 DEF vars, IInv, Single, Alone
    <2> QED BY <2>1, <2>2, <2>3, <2>4, <2>5
  <1>12. J'
    <2> HIDE DEF J
    <2> QED BY <1>1, <1>2, <1>3, <1>4, <1>5, <1>6, <1>7, <1>8, <1>9, <1>10, <1>11
            DEF Next, Advance
  <1> QED BY <1>0, <1>12 DEF IInv

THEOREM InvHolds == Spec => []IInv
  BY InvInit, InvStep, PTL DEF Spec

-----------------------------------------------------------------------------
(* Rows that every writer looks for under a common lock are there at most  *)
(* once, whatever overlaps and fails.                                      *)
THEOREM SerializedOnce == Spec => []OneOfEach
  <1>1. IInv => OneOfEach
    BY DEF IInv, Single, Alone, OneOfEach, SerializedRows
  <1> QED BY <1>1, InvHolds, PTL

(* A seed without such a lock doubles its rows only if two calls of it     *)
(* were under way at once.                                                 *)
THEOREM DuplicatesOverlap == Spec => []DuplicatesNeedOverlap
  <1>1. ASSUME IInv, NEW p \in SoleWriters, table[p[1]] > 1
        PROVE  p[2] \in overlapped
    <2>1. PICK k \in Rows, h \in Handlers : p = <<k, h>> /\ WrittenBy(k, h)
      BY <1>1 DEF SoleWriters
    <2>2. table[k] \in Nat /\ ~(table[k] <= 1)
      BY <1>1, <2>1 DEF IInv, TypeOK
    <2>3. ~Alone(k)
      BY <1>1, <2>2 DEF IInv, Single
    <2> QED BY <2>1, <2>3 DEF Alone
  <1>2. IInv => DuplicatesNeedOverlap
    BY <1>1 DEF DuplicatesNeedOverlap
  <1> QED BY <1>2, InvHolds, PTL
-----------------------------------------------------------------------------
(* Deadlocks.  What a transaction holds at a place of its script is what   *)
(* the statements before it need, neither less (LocksHeld) nor more, and   *)
(* the locks of two transactions never clash.                              *)
LocksTaken ==
  \A c \in Callers : Running(c) /\ Now(c).op # "commit" =>
    locks[c] \subseteq HeldBefore(Statements(c), call[c].at)

Compatible == \A c, d \in Callers : c # d => ~Clashing(locks[c], locks[d])

LEMMA HeldMember ==
  ASSUME NEW s, NEW i, NEW l
  PROVE  l \in HeldBefore(s, i) <=>
           \E j \in DOMAIN s : /\ j < i /\ l \in s[j].needs
                               /\ \A m \in j .. i - 1 : s[m].op # "commit"
  BY DEF HeldBefore

LEMMA ClashSymmetric == \A m, n : Clash(m, n) <=> Clash(n, m)
  BY DEF Clash

(* Whoever moves begins a call, executes a statement or ends a transaction.*)
LEMMA StepKinds ==
  ASSUME IInv, [Next]_vars
  PROVE  \/ \E c \in Callers, h \in Handlers : Begin(c, h)
         \/ \E c \in Callers : \E i \in Nat : Step(c, i)
         \/ \E c \in Callers : End(c)
         \/ UNCHANGED vars
  <1>0. TypeOK
    BY DEF IInv
  <1>1. ASSUME NEW c \in Callers, Lock(c) \/ Write(c) \/ WriteNew(c)
        PROVE  \E i \in Nat : Step(c, i)
    <2>1. call[c].at + 1 \in Nat /\ Step(c, call[c].at + 1)
      BY <1>0, <1>1, NowType DEF Lock, Write, WriteNew, Does, Step, Add
    <2> QED BY <2>1
  <1>2. ASSUME NEW c \in Callers, Pass(c)
        PROVE  \E i \in Nat : Step(c, i)
    <2> DEFINE i == call[c].at + Now(c).else
    <2>1. call[c].at \in Nat /\ Now(c).else \in Nat
      BY <1>0, <1>2, NowType DEF Pass, Does, Stmt
    <2>2. Now(c).else = 1 \/ IsCommit(Statements(c), i)
      BY <1>0, <1>2, NowType, ScriptAssumption DEF Pass, Does, Running, Now, Statements
    <2>3. i \in Nat /\ Step(c, i)
      BY <1>2, <2>1, <2>2 DEF Pass, Does, Step
    <2> QED BY <2>3
  <1>3. ASSUME NEW c \in Callers, CommitWork(c)
        PROVE  End(c)
    <2>1. call[c].at \in Nat /\ IsCommit(Statements(c), call[c].at)
      BY <1>0, <1>3, NowType DEF CommitWork, Does, Running, IsCommit, Now
    <2> QED BY <1>3, <2>1 DEF CommitWork, End
  <1>4. ASSUME NEW c \in Callers, Return(c)
        PROVE  End(c)
    <2>1. pend[c] = NoRows /\ locks[c] = {}
      BY <1>4 DEF IInv, Clean, Return
    <2> QED BY <1>0, <1>4, <2>1 DEF Return, End, TypeOK
  <1>5. ASSUME NEW c \in Callers, Victim(c) \/ Fail(c)
        PROVE  End(c)
    BY <1>0, <1>5, DeadlockedRuns, RaiseEnds DEF Victim, Fail
  <1>6. ASSUME NEW c \in Callers, Die(c)
        PROVE  End(c)
    BY <1>6 DEF Die, RollBack, End
  <1> QED BY <1>1, <1>2, <1>3, <1>4, <1>5, <1>6 DEF Next, Advance

LEMMA StepTaken ==
  ASSUME IInv, LocksTaken, Compatible, NEW c \in Callers, NEW i \in Nat, Step(c, i)
  PROVE  LocksTaken' /\ Compatible'
  <1>0. TypeOK
    BY DEF IInv
  <1>1. \A d \in Callers : d # c => locks'[d] = locks[d] /\ call'[d] = call[d]
    BY <1>0, AtAfterGoto DEF Step, Take, TypeOK
  <1>2. locks'[c] = locks[c] \cup Now(c).needs
    BY <1>0 DEF Step, Take, TypeOK
  <1>3. call'[c].at = i /\ Statements(c)' = Statements(c)
    BY <1>0, AtAfterGoto DEF Step
  <1>4. /\ call[c].at \in Nat /\ call[c].at \in DOMAIN Statements(c)
        /\ DOMAIN Statements(c) \subseteq Nat
    BY <1>0, NowType DEF Step
  <1>5. ASSUME Running(c)', Now(c)'.op # "commit", NEW l \in locks'[c]
        PROVE  l \in HeldBefore(Statements(c), i)
    <2>1. i = call[c].at + 1
      <3>1. Now(c)' = Statements(c)[i]
        BY <1>3 DEF Now
      <3> QED BY <1>5, <3>1 DEF Step, IsCommit
    <2>2. CASE l \in Now(c).needs
      <3>1. \A m \in call[c].at .. i - 1 : m = call[c].at
        BY <1>4, <2>1
      <3>2. Statements(c)[call[c].at].op # "commit" /\ l \in Statements(c)[call[c].at].needs
        BY <2>2 DEF Step, Now
      <3> QED BY <1>4, <2>1, <3>1, <3>2, HeldMember
    <2>3. CASE l \in locks[c]
      <3>1. l \in HeldBefore(Statements(c), call[c].at)
        BY <2>3 DEF LocksTaken, Step
      <3>2. PICK j \in DOMAIN Statements(c) :
              /\ j < call[c].at /\ l \in Statements(c)[j].needs
              /\ \A m \in j .. call[c].at - 1 : Statements(c)[m].op # "commit"
        BY <3>1, HeldMember
      <3>3. \A m \in j .. i - 1 : m = call[c].at \/ m \in j .. call[c].at - 1
        BY <1>4, <2>1
      <3>4. \A m \in j .. i - 1 : Statements(c)[m].op # "commit"
        BY <3>2, <3>3 DEF Step, Now
      <3>5. j < i
        BY <1>4, <2>1, <3>2
      <3> QED BY <3>2, <3>4, <3>5, HeldMember
    <2> QED BY <1>2, <1>5, <2>2, <2>3
  <1>6. LocksTaken'
    <2> SUFFICES ASSUME NEW d \in Callers, Running(d)', Now(d)'.op # "commit"
                 PROVE  locks'[d] \subseteq HeldBefore(Statements(d)', call'[d].at)
      BY DEF LocksTaken, HeldBefore
    <2>1. CASE d = c
      BY <1>3, <1>5, <2>1
    <2>2. CASE d # c
      <3>1. /\ Running(d)' = Running(d) /\ Now(d)' = Now(d) /\ Statements(d)' = Statements(d)
            /\ locks'[d] = locks[d] /\ call'[d] = call[d]
        BY <1>0, <1>1, <2>2, Others
      <3> QED BY <3>1 DEF LocksTaken
    <2> QED BY <2>1, <2>2
  <1>7. \A d \in Callers : d # c => ~Clashing(Now(c).needs, locks[d])
    BY DEF Step, Granted, WaitsFor, Clashing
  <1>8. \A d \in Callers : d # c => ~Clashing(locks'[c], locks'[d])
    BY <1>1, <1>2, <1>7 DEF Compatible, Clashing
  <1>9. Compatible'
    <2> SUFFICES ASSUME NEW d \in Callers, NEW e \in Callers, d # e
                 PROVE  ~Clashing(locks'[d], locks'[e])
      BY DEF Compatible, Clashing, Clash
    <2>1. CASE d = c
      BY <1>8, <2>1
    <2>2. CASE e = c
      BY <1>8, <2>2, ClashSymmetric DEF Clashing
    <2>3. CASE d # c /\ e # c
      BY <1>1, <2>3 DEF Compatible
    <2> QED BY <2>1, <2>2, <2>3
  <1> QED BY <1>6, <1>9

LEMMA TakenNext ==
  ASSUME IInv, IInv', LocksTaken, Compatible, [Next]_vars
  PROVE  LocksTaken' /\ Compatible'
  <1>0. TypeOK
    BY DEF IInv
  <1>1. ASSUME NEW c \in Callers, locks'[c] = {},
               \A d \in Callers : d # c => locks'[d] = locks[d] /\ call'[d] = call[d]
        PROVE  LocksTaken' /\ Compatible'
    <2>1. LocksTaken'
      <3> SUFFICES ASSUME NEW d \in Callers, Running(d)', Now(d)'.op # "commit"
                   PROVE  locks'[d] \subseteq HeldBefore(Statements(d)', call'[d].at)
        BY DEF LocksTaken, HeldBefore
      <3>1. CASE d = c
        BY <1>1, <3>1
      <3>2. CASE d # c
        <4>1. /\ Running(d)' = Running(d) /\ Now(d)' = Now(d) /\ Statements(d)' = Statements(d)
              /\ locks'[d] = locks[d] /\ call'[d] = call[d]
          BY <1>0, <1>1, <3>2, Others
        <4> QED BY <4>1 DEF LocksTaken
      <3> QED BY <3>1, <3>2
    <2>2. Compatible'
      <3> SUFFICES ASSUME NEW d \in Callers, NEW e \in Callers, d # e
                   PROVE  ~Clashing(locks'[d], locks'[e])
        BY DEF Compatible, Clashing, Clash
      <3>1. CASE d = c \/ e = c
        BY <1>1, <3>1 DEF Clashing
      <3>2. CASE d # c /\ e # c
        BY <1>1, <3>2 DEF Compatible
      <3> QED BY <3>1, <3>2
    <2> QED BY <2>1, <2>2
  <1>2. ASSUME NEW c \in Callers, NEW h \in Handlers, Begin(c, h)
        PROVE  LocksTaken' /\ Compatible'
    <2>1. locks[c] = {}
      BY <1>2 DEF IInv, Clean, Begin, Running
    <2> QED BY <1>0, <1>1, <1>2, <2>1 DEF Begin, TypeOK
  <1>3. ASSUME NEW c \in Callers, End(c)
        PROVE  LocksTaken' /\ Compatible'
    BY <1>0, <1>1, <1>3, AtAfterGoto DEF End, TypeOK
  <1>4. CASE UNCHANGED vars
    <2>1. UNCHANGED <<call, locks>>
      BY <1>4 DEF vars
    <2> QED BY <2>1 DEF LocksTaken, Compatible, Running, Active, Now, Statements, HeldBefore,
                        Clashing, Clash
  <1> QED BY <1>2, <1>3, <1>4, StepKinds, StepTaken

LEMMA TakenInit == Init => LocksTaken /\ Compatible
  BY DEF Init, LocksTaken, Compatible, Clashing, Running, Active, Idle

(* A transaction that waits and is waited for is at one of the places.     *)
Place(d) == <<call[d].handler, call[d].at>>

LEMMA AtPlace ==
  ASSUME IInv, LocksTaken, NEW d \in Callers, Running(d), Now(d).needs # {}, locks[d] # {},
         \A l \in locks[d] : l[2] # "share", call[d].handler # "import_ops_bundle"
  PROVE  /\ Place(d) \in Places /\ Needs(Place(d)) = Now(d).needs
         /\ HeldAt(Place(d)) = locks[d]
  <1>1. /\ call[d].handler \in Handlers /\ call[d].at \in Nat
        /\ call[d].at \in DOMAIN Statements(d) /\ DOMAIN Statements(d) \subseteq Nat
    BY NowType DEF IInv
  <1>2. Now(d).op # "commit"
    BY <1>1, LockOrderAssumption DEF Now, Statements
  <1>3. HeldBefore(Statements(d), call[d].at) \subseteq locks[d]
    <2> SUFFICES ASSUME NEW l \in HeldBefore(Statements(d), call[d].at)
                 PROVE  l \in locks[d]
      OBVIOUS
    <2>1. PICK j \in DOMAIN Statements(d) :
            /\ j < call[d].at /\ l \in Statements(d)[j].needs
            /\ \A m \in j .. call[d].at - 1 : Statements(d)[m].op # "commit"
      BY HeldMember
    <2>2. \A m \in j .. call[d].at : m = call[d].at \/ m \in j .. call[d].at - 1
      BY <1>1
    <2>3. \A m \in j .. call[d].at : Statements(d)[m].op # "commit"
      BY <1>2, <2>1, <2>2 DEF Now
    <2> QED BY <1>2, <2>1, <2>3 DEF IInv, LocksHeld
  <1>4. locks[d] = HeldBefore(Statements(d), call[d].at)
    BY <1>2, <1>3 DEF LocksTaken
  <1>5. Needs(Place(d)) = Now(d).needs /\ HeldAt(Place(d)) = locks[d]
    BY <1>4 DEF Needs, HeldAt, Place, Now, Statements
  <1>6. Place(d) \in UNION {{h} \X DOMAIN Script[h] : h \in Handlers \ {"import_ops_bundle"}}
    BY <1>1 DEF Place, Statements
  <1> QED BY <1>5, <1>6 DEF Places

LEMMA Explained ==
  ASSUME IInv, LocksTaken, Compatible
  PROVE  DeadlocksExplained
  <1> SUFFICES ASSUME NEW c \in Callers, Deadlocked(c),
                      \A d \in Callers : /\ \A l \in locks[d] : l[2] # "share"
                                         /\ call[d].handler # "import_ops_bundle"
               PROVE  FALSE
    BY DEF DeadlocksExplained
  <1>1. PICK S \in SUBSET Callers :
          /\ c \in S
          /\ \A d \in S : (\E e \in S : WaitsFor(d, e)) /\ (\E e \in S : WaitsFor(e, d))
    BY DEF Deadlocked
  <1>2. ASSUME NEW d \in S
        PROVE  /\ Place(d) \in Places /\ Needs(Place(d)) = Now(d).needs
               /\ HeldAt(Place(d)) = locks[d]
    <2>1. Running(d) /\ Now(d).needs # {} /\ locks[d] # {}
      BY <1>1 DEF WaitsFor
    <2> QED BY <2>1, AtPlace
  <1>3. ASSUME NEW d \in S, NEW e \in S, WaitsFor(d, e)
        PROVE  MayWait(Place(d), Place(e))
    <2>1. Clashing(Now(d).needs, locks[e]) /\ d # e
      BY <1>3 DEF WaitsFor, Clashing
    <2>2. ~Clashing(locks[d], locks[e])
      BY <2>1 DEF Compatible
    <2> QED BY <1>2, <2>1, <2>2 DEF MayWait
  <1>4. PICK d1 \in S, d2 \in S, d3 \in S : WaitsFor(c, d1) /\ WaitsFor(d1, d2) /\ WaitsFor(d2, d3)
    BY <1>1
  <1> QED BY <1>1, <1>2, <1>3, <1>4, LockOrderAssumption

(* Any number of callers wait in a circle only if one of them has indexed  *)
(* a table in its transaction, or imports a bundle of scope "ops".         *)
THEOREM DeadlocksAreExplained == Spec => []DeadlocksExplained
  <1>1. Spec => [](LocksTaken /\ Compatible)
    BY TakenInit, TakenNext, InvHolds, PTL DEF Spec
  <1> QED BY <1>1, Explained, InvHolds, PTL
-----------------------------------------------------------------------------
(* Announcements.  Where in its script a handler writes the first row of p,*)
(* commits it, writes the second and commits that.                         *)
Marks(h, p) ==
  CHOOSE w \in Nat \X Nat \X Nat \X Nat : InOrder(Script[h], p, w[1], w[2], w[3], w[4])

Wrote(c, p)     == Marks(call[c].handler, p)[1]
Stored(c, p)    == Marks(call[c].handler, p)[2]
Announces(c, p) == Marks(call[c].handler, p)[3]
Heard(c, p)     == Marks(call[c].handler, p)[4]

Concerns(c, p) == Active(c) /\ Adds(Statements(c), p[1]) # {}
Between(c, i, j) == i < call[c].at /\ call[c].at <= j

(* The callers that have stored the first row and not yet the second.      *)
Owes(c, p) == Concerns(c, p) /\ Between(c, Stored(c, p), Heard(c, p))
Owing(p) == {c \in Callers : Owes(c, p)}

PendingKnown ==
  \A p \in Announced, c \in Callers :
    /\ pend[c][p[1]] = IF Concerns(c, p) /\ Between(c, Wrote(c, p), Stored(c, p)) THEN 1 ELSE 0
    /\ pend[c][p[2]] = IF Concerns(c, p) /\ Between(c, Announces(c, p), Heard(c, p)) THEN 1 ELSE 0

Balance ==
  \A p \in Announced :
    /\ table[p[2]] + Cardinality(Owing(p)) <= table[p[1]]
    /\ table[p[1]] <= table[p[2]] + lost + Cardinality(Owing(p))

LEMMA MarksExist ==
  ASSUME NEW h \in Handlers, NEW p \in Announced, Adds(Script[h], p[1]) # {}
  PROVE  LET w == Marks(h, p)
         IN  /\ InOrder(Script[h], p, w[1], w[2], w[3], w[4])
             /\ {w[1], w[2], w[3], w[4]} \subseteq DOMAIN Script[h]
             /\ DOMAIN Script[h] = 1 .. Len(Script[h]) /\ Len(Script[h]) \in Nat
  <1> DEFINE w == Marks(h, p)
  <1>2. DOMAIN Script[h] = 1 .. Len(Script[h]) /\ Len(Script[h]) \in Nat
    BY TransactionAssumption
  <1>3. PICK i \in Adds(Script[h], p[1]), j \in Adds(Script[h], p[2]) :
          \E a \in i .. j, b \in j .. Len(Script[h]) : InOrder(Script[h], p, i, a, j, b)
    BY AnnouncementAssumption
  <1>4. PICK a \in i .. j, b \in j .. Len(Script[h]) : InOrder(Script[h], p, i, a, j, b)
    BY <1>3
  <1>5. i \in Nat /\ j \in Nat /\ a \in Nat /\ b \in Nat
    BY <1>2 DEF Adds
  <1>6. \E x \in Nat \X Nat \X Nat \X Nat : InOrder(Script[h], p, x[1], x[2], x[3], x[4])
    <2>1. <<i, a, j, b>> \in Nat \X Nat \X Nat \X Nat
      BY <1>5
    <2> QED BY <1>4, <2>1
  <1>7. w \in Nat \X Nat \X Nat \X Nat /\ InOrder(Script[h], p, w[1], w[2], w[3], w[4])
    BY <1>6 DEF Marks
  <1>8. {w[1], w[2], w[3], w[4]} \subseteq DOMAIN Script[h]
    BY <1>7 DEF InOrder, Adds, IsCommit
  <1> QED BY <1>2, <1>7, <1>8

LEMMA MarksInOrder ==
  ASSUME TypeOK, NEW c \in Callers, NEW p \in Announced, Concerns(c, p)
  PROVE  /\ InOrder(Statements(c), p, Wrote(c, p), Stored(c, p), Announces(c, p), Heard(c, p))
         /\ {Wrote(c, p), Stored(c, p), Announces(c, p), Heard(c, p)} \subseteq DOMAIN Statements(c)
         /\ DOMAIN Statements(c) = 1 .. Len(Statements(c)) /\ Len(Statements(c)) \in Nat
  <1>1. call[c].handler \in Handlers /\ Statements(c) = Script[call[c].handler]
    BY DEF TypeOK, Concerns, Active, Statements
  <1> QED BY <1>1, MarksExist DEF Concerns, Wrote, Stored, Announces, Heard

LEMMA NoConcern ==
  ASSUME TypeOK, NEW c \in Callers, NEW p \in Announced, Active(c), ~Concerns(c, p)
  PROVE  Adds(Statements(c), p[1]) = {} /\ Adds(Statements(c), p[2]) = {}
  <1>1. call[c].handler \in Handlers /\ Statements(c) = Script[call[c].handler]
    BY DEF TypeOK, Active, Statements
  <1>2. Adds(Statements(c), p[1]) = {}
    BY DEF Concerns
  <1> QED BY <1>1, <1>2, AnnouncementAssumption

(* How a position n of a script lies to the marks, when it moves on:       *)
(* by a statement that is no commit,                                       *)
LEMMA MoveOn ==
  ASSUME NEW s, NEW p, NEW i \in Nat, NEW a \in Nat, NEW j \in Nat, NEW b \in Nat,
         InOrder(s, p, i, a, j, b), NEW n \in Nat, s[n].op # "commit"
  PROVE  /\ (i < n + 1 /\ n + 1 <= a) <=> (n = i \/ (i < n /\ n <= a))
         /\ (j < n + 1 /\ n + 1 <= b) <=> (n = j \/ (j < n /\ n <= b))
         /\ (a < n + 1 /\ n + 1 <= b) <=> (a < n /\ n <= b)
  BY DEF InOrder, IsCommit

(* by a commit,                                                            *)
LEMMA MoveOver ==
  ASSUME NEW s, NEW p, NEW i \in Nat, NEW a \in Nat, NEW j \in Nat, NEW b \in Nat,
         InOrder(s, p, i, a, j, b), NEW n \in Nat, s[n].op = "commit"
  PROVE  n \notin i .. a - 1 /\ n \notin j .. b - 1
  BY DEF InOrder

(* or after a swallowed exception.                                         *)
LEMMA MoveAfter ==
  ASSUME NEW s, NEW p, NEW i \in Nat, NEW a \in Nat, NEW j \in Nat, NEW b \in Nat,
         InOrder(s, p, i, a, j, b), NEW n \in Nat \ {0}, s[n].tried,
         AfterCommit(s, n) \in Nat, AfterCommit(s, n) > n, IsCommit(s, AfterCommit(s, n) - 1)
  PROVE  LET m == AfterCommit(s, n)
         IN  /\ ~(i < m /\ m <= a) /\ ~(j < m /\ m <= b)
             /\ a < m /\ m <= b => a < n /\ n <= b
  <1> DEFINE m == AfterCommit(s, n)
  <1>1. ASSUME m - 1 \in i .. a - 1 \/ m - 1 \in j .. b - 1 PROVE FALSE
    BY <1>1 DEF InOrder, IsCommit
  <1>2. n <= a => m <= i
    <2>1. n <= a => n \in 1 .. a
      OBVIOUS
    <2> QED BY <2>1 DEF InOrder
  <1> HIDE DEF m
  <1>3. m \in Nat /\ m > n
    BY DEF m
  <1>4. ~(i < m /\ m <= a) /\ ~(j < m /\ m <= b)
    BY <1>1, <1>3
  <1>5. i < a
    BY DEF InOrder
  <1>6. a < m /\ m <= b => a < n /\ n <= b
    BY <1>2, <1>3, <1>5
  <1> QED BY <1>4, <1>6 DEF m

(* What c does leaves what the others owe.                                 *)
LEMMA OthersOwe ==
  ASSUME TypeOK, NEW c \in Callers, NEW p \in Announced,
         \A d \in Callers : d # c => call'[d] = call[d]
  PROVE  \A d \in Callers : d # c =>
           /\ Owes(d, p)' <=> Owes(d, p)
           /\ (Concerns(d, p) /\ Between(d, Wrote(d, p), Stored(d, p)))' <=>
                Concerns(d, p) /\ Between(d, Wrote(d, p), Stored(d, p))
           /\ (Concerns(d, p) /\ Between(d, Announces(d, p), Heard(d, p)))' <=>
                Concerns(d, p) /\ Between(d, Announces(d, p), Heard(d, p))
  <1> SUFFICES ASSUME NEW d \in Callers, d # c
               PROVE  /\ Owes(d, p)' <=> Owes(d, p)
                      /\ (Concerns(d, p) /\ Between(d, Wrote(d, p), Stored(d, p)))' <=>
                           Concerns(d, p) /\ Between(d, Wrote(d, p), Stored(d, p))
                      /\ (Concerns(d, p) /\ Between(d, Announces(d, p), Heard(d, p)))' <=>
                           Concerns(d, p) /\ Between(d, Announces(d, p), Heard(d, p))
    OBVIOUS
  <1>1. call'[d] = call[d]
    OBVIOUS
  <1>2. Concerns(d, p)' <=> Concerns(d, p)
    BY <1>1 DEF Concerns, Active, Statements, Adds
  <1>3. /\ Wrote(d, p)' = Wrote(d, p) /\ Stored(d, p)' = Stored(d, p)
        /\ Announces(d, p)' = Announces(d, p) /\ Heard(d, p)' = Heard(d, p)
    BY <1>1 DEF Wrote, Stored, Announces, Heard, Marks
  <1>4. \A i, j : (i < call'[d].at /\ call'[d].at <= j) <=> (i < call[d].at /\ call[d].at <= j)
    BY <1>1
  <1> QED BY <1>2, <1>3, <1>4 DEF Owes, Between

LEMMA OwingCount ==
  ASSUME NEW c \in Callers, NEW p, \A d \in Callers : d # c => (Owes(d, p)' <=> Owes(d, p))
  PROVE  /\ Cardinality(Owing(p)) \in Nat /\ Cardinality(Owing(p)') \in Nat
         /\ (Owes(c, p)' <=> Owes(c, p)) => Cardinality(Owing(p)') = Cardinality(Owing(p))
         /\ Owes(c, p)' /\ ~Owes(c, p) => Cardinality(Owing(p)') = Cardinality(Owing(p)) + 1
         /\ ~Owes(c, p)' /\ Owes(c, p) => Cardinality(Owing(p)') = Cardinality(Owing(p)) - 1
  <1>1. IsFiniteSet(Owing(p)) /\ Cardinality(Owing(p)) \in Nat
    BY FS_Subset, FS_CardinalityType, AnnouncementAssumption DEF Owing
  <1>2. IsFiniteSet(Owing(p)') /\ Cardinality(Owing(p)') \in Nat
    BY FS_Subset, FS_CardinalityType, AnnouncementAssumption DEF Owing
  <1>3. (Owes(c, p)' <=> Owes(c, p)) => Owing(p)' = Owing(p)
    BY DEF Owing
  <1>4. Owes(c, p)' /\ ~Owes(c, p) => Owing(p)' = Owing(p) \cup {c} /\ c \notin Owing(p)
    BY DEF Owing
  <1>5. ~Owes(c, p)' /\ Owes(c, p) => Owing(p)' = Owing(p) \ {c} /\ c \in Owing(p)
    BY DEF Owing
  <1>6. Owes(c, p)' /\ ~Owes(c, p) => Cardinality(Owing(p)') = Cardinality(Owing(p)) + 1
    BY <1>1, <1>4, FS_AddElement
  <1>7. ~Owes(c, p)' /\ Owes(c, p) => Cardinality(Owing(p)') = Cardinality(Owing(p)) - 1
    BY <1>1, <1>5, FS_RemoveElement
  <1> QED BY <1>1, <1>2, <1>3, <1>6, <1>7

-----------------------------------------------------------------------------
(* A step of c, of which is known what it means for each pair: what it has *)
(* pending afterwards, and how the tables and its debt have changed.       *)
Mid(c, p) == Concerns(c, p) /\ Between(c, Wrote(c, p), Stored(c, p))
Late(c, p) == Concerns(c, p) /\ Between(c, Announces(c, p), Heard(c, p))

LEMMA Balanced ==
  ASSUME IInv, IInv', PendingKnown, Balance, NEW c \in Callers,
         \A d \in Callers : d # c => call'[d] = call[d] /\ pend'[d] = pend[d],
         \A p \in Announced :
           /\ pend'[c][p[1]] = IF Mid(c, p)' THEN 1 ELSE 0
           /\ pend'[c][p[2]] = IF Late(c, p)' THEN 1 ELSE 0
           /\ \/ /\ table'[p[1]] = table[p[1]] /\ table'[p[2]] = table[p[2]]
                 /\ lost' = lost /\ (Owes(c, p)' <=> Owes(c, p))
              \/ /\ table'[p[1]] = table[p[1]] /\ table'[p[2]] = table[p[2]]
                 /\ lost' = lost + 1 /\ (Owes(c, p)' => Owes(c, p))
              \/ /\ table'[p[1]] = table[p[1]] + 1 /\ table'[p[2]] = table[p[2]]
                 /\ lost' = lost /\ Owes(c, p)' /\ ~Owes(c, p)
              \/ /\ table'[p[1]] = table[p[1]] /\ table'[p[2]] = table[p[2]] + 1
                 /\ lost' = lost /\ ~Owes(c, p)' /\ Owes(c, p)
  PROVE  PendingKnown' /\ Balance'
  <1>0. TypeOK /\ TypeOK'
    BY DEF IInv
  <1>1. PendingKnown'
    <2> SUFFICES ASSUME NEW p \in Announced, NEW d \in Callers
                 PROVE  /\ pend'[d][p[1]] = IF Mid(d, p)' THEN 1 ELSE 0
                        /\ pend'[d][p[2]] = IF Late(d, p)' THEN 1 ELSE 0
      BY DEF PendingKnown, Mid, Late
    <2>1. CASE d = c
      BY <2>1
    <2>2. CASE d # c
      <3>1. (Mid(d, p)' <=> Mid(d, p)) /\ (Late(d, p)' <=> Late(d, p))
        BY <1>0, <2>2, OthersOwe DEF Mid, Late
      <3>2. /\ pend[d][p[1]] = IF Mid(d, p) THEN 1 ELSE 0
            /\ pend[d][p[2]] = IF Late(d, p) THEN 1 ELSE 0
        BY DEF PendingKnown, Mid, Late
      <3> QED BY <2>2, <3>1, <3>2
    <2> QED BY <2>1, <2>2
  <1>2. Balance'
    <2> SUFFICES ASSUME NEW p \in Announced
                 PROVE  /\ table'[p[2]] + Cardinality(Owing(p)') <= table'[p[1]]
                        /\ table'[p[1]] <= table'[p[2]] + lost' + Cardinality(Owing(p)')
      BY DEF Balance
    <2>1. /\ table[p[2]] + Cardinality(Owing(p)) <= table[p[1]]
          /\ table[p[1]] <= table[p[2]] + lost + Cardinality(Owing(p))
      BY DEF Balance
    <2>2. \A d \in Callers : d # c => (Owes(d, p)' <=> Owes(d, p))
      BY <1>0, OthersOwe
    <2>3. /\ Cardinality(Owing(p)) \in Nat /\ Cardinality(Owing(p)') \in Nat
          /\ (Owes(c, p)' <=> Owes(c, p)) => Cardinality(Owing(p)') = Cardinality(Owing(p))
          /\ Owes(c, p)' /\ ~Owes(c, p) => Cardinality(Owing(p)') = Cardinality(Owing(p)) + 1
          /\ ~Owes(c, p)' /\ Owes(c, p) => Cardinality(Owing(p)') = Cardinality(Owing(p)) - 1
      BY <2>2, OwingCount
    <2>4. table[p[1]] \in Nat /\ table[p[2]] \in Nat /\ lost \in Nat
      BY <1>0, AnnouncementAssumption DEF TypeOK
    <2> QED BY <2>1, <2>3, <2>4
  <1> QED BY <1>1, <1>2
(* The handler of c goes on: what Mid, Late and Owes become.               *)
LEMMA Continues ==
  ASSUME TypeOK, NEW c \in Callers, NEW m \in Nat, Goto(c, m), NEW p \in Announced
  PROVE  LET s == Statements(c)
             n == call[c].at
             i == Wrote(c, p)
             a == Stored(c, p)
             j == Announces(c, p)
             b == Heard(c, p)
         IN  /\ Mid(c, p) <=> Concerns(c, p) /\ i < n /\ n <= a
             /\ Late(c, p) <=> Concerns(c, p) /\ j < n /\ n <= b
             /\ Owes(c, p) <=> Concerns(c, p) /\ a < n /\ n <= b
             /\ Mid(c, p)' <=> Concerns(c, p) /\ i < m /\ m <= a
             /\ Late(c, p)' <=> Concerns(c, p) /\ j < m /\ m <= b
             /\ Owes(c, p)' <=> Concerns(c, p) /\ a < m /\ m <= b
  <1>1. call'[c].handler = call[c].handler /\ call'[c].at = m
    BY DEF TypeOK, Goto
  <1>2. Concerns(c, p)' <=> Concerns(c, p)
    BY <1>1 DEF Concerns, Active, Statements, Adds
  <1>3. /\ Wrote(c, p)' = Wrote(c, p) /\ Stored(c, p)' = Stored(c, p)
        /\ Announces(c, p)' = Announces(c, p) /\ Heard(c, p)' = Heard(c, p)
    BY <1>1 DEF Wrote, Stored, Announces, Heard, Marks
  <1> QED BY <1>1, <1>2, <1>3 DEF Mid, Late, Owes, Between

LEMMA Apart ==
  ASSUME TypeOK, NEW c \in Callers, NEW i \in Nat, Goto(c, i)
  PROVE  \A d \in Callers : d # c => call'[d] = call[d]
  BY DEF TypeOK, Goto

(* A statement that adds a row,                                            *)
LEMMA AddBalance ==
  ASSUME IInv, IInv', PendingKnown, Balance, NEW c \in Callers, Running(c),
         Now(c).op \in {"insert", "unless"}, Add(c)
  PROVE  PendingKnown' /\ Balance'
  <1>0. TypeOK
    BY DEF IInv
  <1> DEFINE n == call[c].at
             k == Now(c).row
  <1>1. n \in Nat /\ n \in DOMAIN Statements(c) /\ k \in Rows /\ Goto(c, n + 1)
    BY <1>0, NowType DEF Add
  <1>2. \A d \in Callers : d # c => call'[d] = call[d] /\ pend'[d] = pend[d]
    BY <1>0, <1>1, Apart DEF Add, TypeOK
  <1>3. \A r \in Rows : pend'[c][r] = IF r = k THEN pend[c][r] + 1 ELSE pend[c][r]
    BY <1>0, <1>1 DEF Add, TypeOK
  <1>4. ASSUME NEW p \in Announced
        PROVE  /\ pend'[c][p[1]] = IF Mid(c, p)' THEN 1 ELSE 0
               /\ pend'[c][p[2]] = IF Late(c, p)' THEN 1 ELSE 0
               /\ Owes(c, p)' <=> Owes(c, p)
    <2>1. /\ pend[c][p[1]] = IF Mid(c, p) THEN 1 ELSE 0
          /\ pend[c][p[2]] = IF Late(c, p) THEN 1 ELSE 0
      BY DEF PendingKnown, Mid, Late
    <2>2. p[1] \in Rows /\ p[2] \in Rows
      BY AnnouncementAssumption
    <2>3. \A r : n \in Adds(Statements(c), r) <=> k = r
      BY <1>1 DEF Adds, Now
    <2>4. CASE ~Concerns(c, p)
      <3>1. k # p[1] /\ k # p[2]
        BY <1>0, <2>3, <2>4, NoConcern DEF Running
      <3>2. ~Mid(c, p) /\ ~Late(c, p) /\ ~Owes(c, p) /\ ~Mid(c, p)' /\ ~Late(c, p)' /\ ~Owes(c, p)'
        BY <1>0, <1>1, <2>4, Continues
      <3> QED BY <1>3, <2>1, <2>2, <3>1, <3>2
    <2>5. CASE Concerns(c, p)
      <3> DEFINE s == Statements(c)
                 i == Wrote(c, p)
                 a == Stored(c, p)
                 j == Announces(c, p)
                 b == Heard(c, p)
      <3>1. InOrder(s, p, i, a, j, b) /\ i \in Nat /\ a \in Nat /\ j \in Nat /\ b \in Nat
        BY <1>0, <2>5, MarksInOrder
      <3>2. (k = p[1] <=> n = i) /\ (k = p[2] <=> n = j)
        BY <2>3, <3>1 DEF InOrder
      <3>3. s[n].op # "commit"
        BY DEF Now
      <3>4. /\ Mid(c, p)' <=> (n = i \/ Mid(c, p))
            /\ Late(c, p)' <=> (n = j \/ Late(c, p))
            /\ Owes(c, p)' <=> Owes(c, p)
            /\ n = i => ~Mid(c, p)
            /\ n = j => ~Late(c, p)
        BY <1>0, <1>1, <2>5, <3>1, <3>3, Continues, MoveOn
      <3> QED BY <1>3, <2>1, <2>2, <3>2, <3>4
    <2> QED BY <2>4, <2>5
  <1>5. table' = table /\ lost' = lost
    BY DEF Add
  <1> QED BY <1>2, <1>4, <1>5, Balanced

(* one that adds none,                                                     *)
LEMMA QuietBalance ==
  ASSUME IInv, IInv', PendingKnown, Balance, NEW c \in Callers, Lock(c) \/ Pass(c)
  PROVE  PendingKnown' /\ Balance'
  <1>0. TypeOK /\ Running(c)
    BY DEF IInv, Lock, Pass, Does
  <1> DEFINE n == call[c].at
             m == IF Lock(c) THEN n + 1 ELSE n + Now(c).else
  <1>1. n \in Nat /\ n \in DOMAIN Statements(c) /\ Now(c).else \in Nat
    BY <1>0, NowType DEF Stmt
  <1>2. m \in Nat /\ Goto(c, m)
    BY <1>1 DEF Lock, Pass
  <1>3. pend' = pend /\ table' = table /\ lost' = lost
    BY DEF Lock, Pass
  <1>4. \A d \in Callers : d # c => call'[d] = call[d] /\ pend'[d] = pend[d]
    BY <1>0, <1>2, <1>3, Apart
  <1>5. ASSUME NEW p \in Announced
        PROVE  /\ Mid(c, p)' <=> Mid(c, p)
               /\ Late(c, p)' <=> Late(c, p)
               /\ Owes(c, p)' <=> Owes(c, p)
    <2>4. CASE ~Concerns(c, p)
      <3> HIDE DEF m
      <3> QED BY <1>0, <1>2, <2>4, Continues
    <2>5. CASE Concerns(c, p)
      <3> DEFINE s == Statements(c)
                 i == Wrote(c, p)
                 a == Stored(c, p)
                 j == Announces(c, p)
                 b == Heard(c, p)
      <3>1. InOrder(s, p, i, a, j, b) /\ i \in Nat /\ a \in Nat /\ j \in Nat /\ b \in Nat
        BY <1>0, <2>5, MarksInOrder
      <3>2. i < a /\ a < j /\ j < b
        BY <3>1 DEF InOrder
      <3>3. CASE Lock(c)
        <4>1. s[n].op = "lock" /\ m = n + 1
          BY <3>3 DEF Lock, Does, Now
        <4>2. n # i /\ n # j
          BY <3>1, <4>1 DEF InOrder, Adds
        <4>3. Goto(c, n + 1)
          BY <1>2, <4>1
        <4> QED BY <1>0, <1>1, <2>5, <3>1, <4>1, <4>2, <4>3, Continues, MoveOn
      <3>4. CASE ~Lock(c)
        <4>1. s[n].op = "unless" /\ m = n + s[n].else
          BY <3>4 DEF Pass, Does, Now
        <4>2. n # j
          BY <3>1, <4>1 DEF InOrder
        <4>3. CASE n = i
          <5>1. m > b
            BY <3>1, <4>1, <4>3 DEF InOrder
          <5> HIDE DEF m
          <5> QED BY <1>0, <1>1, <1>2, <3>1, <3>2, <4>3, <5>1, Continues
        <4>4. CASE n # i
          <5>1. m = n + 1
            BY <1>1, <3>1, <4>1, <4>4 DEF InOrder
          <5>2. Goto(c, n + 1)
            BY <1>2, <5>1
          <5> QED BY <1>0, <1>1, <2>5, <3>1, <4>1, <4>2, <4>4, <5>2, Continues, MoveOn
        <4> QED BY <4>3, <4>4
      <3> QED BY <3>3, <3>4
    <2> QED BY <2>4, <2>5
  <1>6. ASSUME NEW p \in Announced
        PROVE  /\ pend'[c][p[1]] = IF Mid(c, p)' THEN 1 ELSE 0
               /\ pend'[c][p[2]] = IF Late(c, p)' THEN 1 ELSE 0
    <2>1. /\ pend[c][p[1]] = IF Mid(c, p) THEN 1 ELSE 0
          /\ pend[c][p[2]] = IF Late(c, p) THEN 1 ELSE 0
      BY DEF PendingKnown, Mid, Late
    <2> QED BY <1>3, <1>5, <2>1
  <1> QED BY <1>3, <1>4, <1>5, <1>6, Balanced

(* a commit,                                                               *)
LEMMA CommitBalance ==
  ASSUME IInv, IInv', PendingKnown, Balance, NEW c \in Callers, CommitWork(c)
  PROVE  PendingKnown' /\ Balance'
  <1>0. TypeOK /\ Running(c)
    BY DEF IInv, CommitWork, Does
  <1> DEFINE n == call[c].at
  <1>1. n \in Nat /\ Goto(c, n + 1) /\ Statements(c)[n].op = "commit"
    BY <1>0, NowType DEF CommitWork, Does, Now
  <1>2. \A d \in Callers : d # c => call'[d] = call[d] /\ pend'[d] = pend[d]
    BY <1>0, <1>1, Apart DEF CommitWork, TypeOK
  <1>3. \A r \in Rows : pend'[c][r] = 0 /\ table'[r] = table[r] + pend[c][r]
    BY <1>0 DEF CommitWork, TypeOK, NoRows
  <1>4. lost' = lost
    BY DEF CommitWork
  <1>5. ASSUME NEW p \in Announced
        PROVE  /\ ~Mid(c, p)' /\ ~Late(c, p)'
               /\ pend'[c][p[1]] = 0 /\ pend'[c][p[2]] = 0
               /\ \/ /\ table'[p[1]] = table[p[1]] /\ table'[p[2]] = table[p[2]]
                     /\ Owes(c, p)' <=> Owes(c, p)
                  \/ /\ table'[p[1]] = table[p[1]] + 1 /\ table'[p[2]] = table[p[2]]
                     /\ Owes(c, p)' /\ ~Owes(c, p)
                  \/ /\ table'[p[1]] = table[p[1]] /\ table'[p[2]] = table[p[2]] + 1
                     /\ ~Owes(c, p)' /\ Owes(c, p)
    <2>1. /\ pend[c][p[1]] = IF Mid(c, p) THEN 1 ELSE 0
          /\ pend[c][p[2]] = IF Late(c, p) THEN 1 ELSE 0
      BY DEF PendingKnown, Mid, Late
    <2>2. p[1] \in Rows /\ p[2] \in Rows /\ table[p[1]] \in Nat /\ table[p[2]] \in Nat
      BY <1>0, AnnouncementAssumption DEF TypeOK
    <2>4. CASE ~Concerns(c, p)
      <3>2. ~Mid(c, p) /\ ~Late(c, p) /\ ~Owes(c, p) /\ ~Mid(c, p)' /\ ~Late(c, p)' /\ ~Owes(c, p)'
        BY <1>0, <1>1, <2>4, Continues
      <3> QED BY <1>3, <2>1, <2>2, <3>2
    <2>5. CASE Concerns(c, p)
      <3> DEFINE s == Statements(c)
                 i == Wrote(c, p)
                 a == Stored(c, p)
                 j == Announces(c, p)
                 b == Heard(c, p)
      <3>1. InOrder(s, p, i, a, j, b) /\ i \in Nat /\ a \in Nat /\ j \in Nat /\ b \in Nat
        BY <1>0, <2>5, MarksInOrder
      <3>2. i < a /\ a < j /\ j < b
        BY <3>1 DEF InOrder
      <3>3. /\ ~Mid(c, p)' /\ ~Late(c, p)'
            /\ Mid(c, p) <=> n = a
            /\ Late(c, p) <=> n = b
            /\ Owes(c, p)' <=> (n = a \/ (Owes(c, p) /\ n # b))
            /\ n = a => ~Owes(c, p)
            /\ n = b => Owes(c, p)
            /\ a # b
        <4>1. /\ Mid(c, p) <=> i < n /\ n <= a
              /\ Late(c, p) <=> j < n /\ n <= b
              /\ Owes(c, p) <=> a < n /\ n <= b
              /\ Mid(c, p)' <=> i < n + 1 /\ n + 1 <= a
              /\ Late(c, p)' <=> j < n + 1 /\ n + 1 <= b
              /\ Owes(c, p)' <=> a < n + 1 /\ n + 1 <= b
          BY <1>0, <1>1, <2>5, Continues
        <4>2. n \notin i .. a - 1 /\ n \notin j .. b - 1
          BY <1>1, <3>1, MoveOver
        <4> HIDE DEF n, s, i, a, j, b
        <4>3. (i < n /\ n <= a => n = a) /\ (j < n /\ n <= b => n = b)
          BY <1>1, <3>1, <4>2
        <4> QED BY <1>1, <3>1, <3>2, <4>1, <4>2, <4>3
      <3>4. /\ pend'[c][p[1]] = 0 /\ pend'[c][p[2]] = 0
            /\ table'[p[1]] = table[p[1]] + pend[c][p[1]]
            /\ table'[p[2]] = table[p[2]] + pend[c][p[2]]
        BY <1>3, <2>2
      <3> HIDE DEF n, a, b
      <3>5. CASE n = a
        BY <2>1, <2>2, <3>3, <3>4, <3>5
      <3>6. CASE n = b
        BY <2>1, <2>2, <3>3, <3>4, <3>6
      <3>7. CASE n # a /\ n # b
        BY <2>1, <2>2, <3>3, <3>4, <3>7
      <3> QED BY <3>5, <3>6, <3>7
    <2> QED BY <2>4, <2>5
  <1> QED BY <1>2, <1>4, <1>5, Balanced

(* a call that is cut short, at once or by a swallowed exception,          *)
LEMMA CutBalance ==
  ASSUME IInv, IInv', PendingKnown, Balance, NEW c \in Callers, Active(c), RollBack(c),
         \/ call' = [call EXCEPT ![c] = Idle]
         \/ /\ Running(c) /\ Now(c).tried
            /\ Goto(c, AfterCommit(Statements(c), call[c].at))
  PROVE  PendingKnown' /\ Balance'
  <1>0. TypeOK
    BY DEF IInv
  <1>1. \A d \in Callers : d # c => call'[d] = call[d] /\ pend'[d] = pend[d]
    BY <1>0 DEF RollBack, TypeOK, Goto
  <1>2. table' = table /\ lost' = lost + 1 /\ \A r \in Rows : pend'[c][r] = 0
    BY <1>0 DEF RollBack, TypeOK, NoRows
  <1>3. ASSUME NEW p \in Announced
        PROVE  ~Mid(c, p)' /\ ~Late(c, p)' /\ (Owes(c, p)' => Owes(c, p))
    <2>1. CASE call' = [call EXCEPT ![c] = Idle]
      <3>1. ~Active(c)'
        BY <1>0, <2>1 DEF TypeOK, Active, Idle
      <3> QED BY <3>1 DEF Mid, Late, Owes, Concerns
    <2>2. CASE Running(c) /\ Now(c).tried /\ Goto(c, AfterCommit(Statements(c), call[c].at))
      <3> DEFINE s == Statements(c)
                 n == call[c].at
                 m == AfterCommit(s, n)
                 i == Wrote(c, p)
                 a == Stored(c, p)
                 j == Announces(c, p)
                 b == Heard(c, p)
      <3>1. n \in Nat \ {0} /\ n \in DOMAIN s /\ s[n].tried
        BY <1>0, <2>2, NowType DEF Now
      <3>2. m \in Nat /\ m > n /\ IsCommit(s, m - 1)
        BY <1>0, <2>2, <3>1, NowType, ScriptAssumption DEF Statements
      <3>3. CASE ~Concerns(c, p)
        <4> HIDE DEF m
        <4>1. Goto(c, m)
          BY <2>2 DEF m
        <4> QED BY <1>0, <3>2, <3>3, <4>1, Continues
      <3>4. CASE Concerns(c, p)
        <4>1. InOrder(s, p, i, a, j, b) /\ i \in Nat /\ a \in Nat /\ j \in Nat /\ b \in Nat
          BY <1>0, <3>4, MarksInOrder
        <4>2. /\ ~(i < m /\ m <= a) /\ ~(j < m /\ m <= b)
              /\ a < m /\ m <= b => a < n /\ n <= b
          BY <3>1, <3>2, <4>1, MoveAfter
        <4>3. Goto(c, m)
          BY <2>2
        <4> HIDE DEF m
        <4> QED BY <1>0, <3>2, <4>2, <4>3, Continues
      <3> QED BY <3>3, <3>4
    <2> QED BY <2>1, <2>2
  <1>4. \A p \in Announced : p[1] \in Rows /\ p[2] \in Rows
    BY AnnouncementAssumption
  <1> QED BY <1>1, <1>2, <1>3, <1>4, Balanced

(* its end,                                                                *)
LEMMA ReturnBalance ==
  ASSUME IInv, IInv', PendingKnown, Balance, NEW c \in Callers, Return(c)
  PROVE  PendingKnown' /\ Balance'
  <1>0. TypeOK
    BY DEF IInv
  <1>1. \A d \in Callers : d # c => call'[d] = call[d] /\ pend'[d] = pend[d]
    BY <1>0 DEF Return, TypeOK
  <1>2. table' = table /\ lost' = lost /\ \A r \in Rows : pend'[c][r] = 0
    BY DEF IInv, Clean, NoRows, Return
  <1>3. ~Active(c)'
    BY <1>0 DEF Return, TypeOK, Active, Idle
  <1>4. ASSUME NEW p \in Announced
        PROVE  ~Mid(c, p)' /\ ~Late(c, p)' /\ ~Owes(c, p)' /\ ~Owes(c, p)
    <2>1. ~Mid(c, p)' /\ ~Late(c, p)' /\ ~Owes(c, p)'
      BY <1>3 DEF Mid, Late, Owes, Concerns
    <2>2. ASSUME Owes(c, p) PROVE FALSE
      <3>1. Concerns(c, p) /\ Between(c, Stored(c, p), Heard(c, p))
        BY <2>2 DEF Owes
      <3>2. /\ Stored(c, p) \in 1 .. Len(Statements(c)) /\ Heard(c, p) \in 1 .. Len(Statements(c))
            /\ DOMAIN Statements(c) = 1 .. Len(Statements(c)) /\ Len(Statements(c)) \in Nat
        BY <1>0, <3>1, MarksInOrder
      <3>3. call[c].at \in Nat
        BY <1>0 DEF TypeOK
      <3>4. call[c].at \in DOMAIN Statements(c)
        BY <3>1, <3>2, <3>3 DEF Between
      <3> QED BY <3>4 DEF Return, Running
    <2> QED BY <2>1, <2>2
  <1>5. \A p \in Announced : p[1] \in Rows /\ p[2] \in Rows
    BY AnnouncementAssumption
  <1> QED BY <1>1, <1>2, <1>4, <1>5, Balanced

(* and the beginning of the next.                                          *)
LEMMA BeginBalance ==
  ASSUME IInv, IInv', PendingKnown, Balance, NEW c \in Callers, NEW h \in Handlers, Begin(c, h)
  PROVE  PendingKnown' /\ Balance'
  <1>0. TypeOK
    BY DEF IInv
  <1>1. \A d \in Callers : d # c => call'[d] = call[d] /\ pend'[d] = pend[d]
    BY <1>0 DEF Begin, TypeOK
  <1>2. table' = table /\ lost' = lost /\ \A r \in Rows : pend'[c][r] = 0
    BY DEF IInv, Clean, NoRows, Begin, Running
  <1>3. call'[c].handler = h /\ call'[c].at = 1
    BY <1>0 DEF Begin, TypeOK
  <1>4. ASSUME NEW p \in Announced
        PROVE  ~Mid(c, p)' /\ ~Late(c, p)' /\ ~Owes(c, p)' /\ ~Owes(c, p)
    <2>1. ~Owes(c, p)
      BY DEF Begin, Owes, Concerns
    <2> DEFINE w == Marks(h, p)
    <2>2. ASSUME Concerns(c, p)' PROVE ~(w[1] < 1) /\ ~(w[2] < 1) /\ ~(w[3] < 1)
      <3>1. Adds(Script[h], p[1]) # {}
        BY <1>3, <2>2 DEF Concerns, Statements, Adds
      <3>2. {w[1], w[2], w[3], w[4]} \subseteq 1 .. Len(Script[h]) /\ Len(Script[h]) \in Nat
        BY <3>1, MarksExist
      <3> QED BY <3>2
    <2>3. Wrote(c, p)' = w[1] /\ Stored(c, p)' = w[2] /\ Announces(c, p)' = w[3]
      BY <1>3 DEF Wrote, Stored, Announces, Marks
    <2> QED BY <1>3, <2>1, <2>2, <2>3 DEF Mid, Late, Owes, Between
  <1>5. \A p \in Announced : p[1] \in Rows /\ p[2] \in Rows
    BY AnnouncementAssumption
  <1> QED BY <1>1, <1>2, <1>4, <1>5, Balanced

LEMMA BalanceStep ==
  ASSUME IInv, IInv', PendingKnown, Balance, [Next]_vars
  PROVE  PendingKnown' /\ Balance'
  <1>1. ASSUME NEW c \in Callers, Raise(c), Running(c)
        PROVE  PendingKnown' /\ Balance'
    BY <1>1, CutBalance DEF Raise, Running
  <1>2. ASSUME NEW c \in Callers, Advance(c)
        PROVE  PendingKnown' /\ Balance'
    <2>1. CASE Lock(c) \/ Pass(c)
      BY <2>1, QuietBalance
    <2>2. CASE Write(c) \/ WriteNew(c)
      BY <2>2, AddBalance DEF Write, WriteNew, Does
    <2>3. CASE CommitWork(c)
      BY <2>3, CommitBalance
    <2>4. CASE Return(c)
      BY <2>4, ReturnBalance
    <2>5. CASE Victim(c)
      BY <1>1, <2>5, DeadlockedRuns DEF Victim
    <2> QED BY <1>2, <2>1, <2>2, <2>3, <2>4, <2>5 DEF Advance
  <1>3. ASSUME NEW c \in Callers, Fail(c) \/ Die(c)
        PROVE  PendingKnown' /\ Balance'
    BY <1>1, <1>3, CutBalance DEF Fail, Die
  <1>4. CASE UNCHANGED vars
    BY <1>4 DEF vars, PendingKnown, Balance, Owing, Owes, Concerns, Active, Statements, Between,
                Wrote, Stored, Announces, Heard
  <1>5. CASE \E c \in Callers, h \in Handlers : Begin(c, h)
    BY <1>5, BeginBalance
  <1> QED BY <1>2, <1>3, <1>4, <1>5 DEF Next

LEMMA BalanceInit == Init => PendingKnown /\ Balance
  <1> SUFFICES ASSUME Init PROVE PendingKnown /\ Balance
    OBVIOUS
  <1>1. \A c \in Callers : ~Active(c)
    BY DEF Init, Active, Idle
  <1>2. \A p : Owing(p) = {}
    BY <1>1 DEF Owing, Owes, Concerns
  <1>3. Cardinality({}) = 0
    BY FS_EmptySet
  <1>4. PendingKnown
    BY <1>1, AnnouncementAssumption DEF Init, NoRows, PendingKnown, Concerns
  <1>5. Balance
    <2> SUFFICES ASSUME NEW p \in Announced
                 PROVE  /\ table[p[2]] + Cardinality(Owing(p)) <= table[p[1]]
                        /\ table[p[1]] <= table[p[2]] + lost + Cardinality(Owing(p))
      BY DEF Balance
    <2>1. table[p[1]] = 0 /\ table[p[2]] = 0 /\ lost = 0
      BY AnnouncementAssumption DEF Init, NoRows
    <2>2. Cardinality(Owing(p)) = 0
      BY <1>2, <1>3
    <2> QED BY <2>1, <2>2
  <1> QED BY <1>4, <1>5

(* Never a message about a request that is not there, and every request    *)
(* but those of calls under way or cut short has one, in whatever order    *)
(* the calls run and wherever they fail.                                   *)
THEOREM AnnouncementsAreFollowed == Spec => []AnnouncementsFollow
  <1>1. PendingKnown /\ Balance /\ IInv /\ IInv' /\ [Next]_vars => (PendingKnown /\ Balance)'
    BY BalanceStep
  <1>2. TypeOK /\ Balance => AnnouncementsFollow
    <2> SUFFICES ASSUME TypeOK, Balance, NEW p \in Announced
                 PROVE  /\ table[p[2]] <= table[p[1]]
                        /\ table[p[1]] <=
                             table[p[2]] + lost + Cardinality({c \in Callers : Active(c)})
      BY DEF AnnouncementsFollow
    <2> DEFINE A == {c \in Callers : Active(c)}
    <2>1. IsFiniteSet(A) /\ Owing(p) \subseteq A
      BY FS_Subset, AnnouncementAssumption DEF Owing, Owes, Concerns
    <2>2. /\ Cardinality(A) \in Nat /\ Cardinality(Owing(p)) \in Nat
          /\ Cardinality(Owing(p)) <= Cardinality(A)
      BY <2>1, FS_Subset, FS_CardinalityType
    <2>3. /\ table[p[2]] + Cardinality(Owing(p)) <= table[p[1]]
          /\ table[p[1]] <= table[p[2]] + lost + Cardinality(Owing(p))
      BY DEF Balance
    <2>4. table[p[1]] \in Nat /\ table[p[2]] \in Nat /\ lost \in Nat
      BY AnnouncementAssumption DEF TypeOK
    <2> HIDE DEF A
    <2>5. /\ table[p[2]] <= table[p[1]]
          /\ table[p[1]] <= table[p[2]] + lost + Cardinality(A)
      BY <2>2, <2>3, <2>4
    <2> QED BY <2>5 DEF A
  <1>3. IInv => TypeOK
    BY DEF IInv
  <1> QED BY <1>1, <1>2, <1>3, BalanceInit, InvHolds, PTL DEF Spec
=============================================================================
