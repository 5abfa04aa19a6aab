----------------------------- MODULE Transactions -----------------------------
(***************************************************************************)
(* How the handlers that write to PostgreSQL run: each is a sequence of    *)
(* statements, cut into transactions by its commits, and calls of several  *)
(* handlers overlap in the threads of the Brain API and in the CLI.        *)
(* Isolation is READ COMMITTED, the server's default (db.py sets no        *)
(* other): a statement sees what is committed when it runs and what its    *)
(* own transaction wrote.                                                  *)
(*                                                                         *)
(* A lock is held on a relation, <<table>>, or on a row, <<table, name>>,  *)
(* until the transaction ends.  The scripts that are run are in            *)
(* OperationScripts.                                                       *)
(***************************************************************************)
EXTENDS Naturals, Sequences, FiniteSets

CONSTANTS
  Callers,    \* threads and processes that run handlers
  Handlers,   \* names of handlers
  Script,     \* what each of them does, a sequence of statements
  Rows,       \* the kinds of rows that are told apart
  Calls,      \* bound: how many calls are made
  Faults,     \* bound: how many statements or processes fail
  None        \* no handler

-----------------------------------------------------------------------------
(* Statements.  "else" is how far a statement goes on when its row exists; *)
(* "tried" says that an exception in it is swallowed.                      *)
Statement(op, row, needs) ==
  [op |-> op, row |-> row, needs |-> needs, else |-> 1, tried |-> FALSE]

Table(k) == <<k[1]>>
Alter(t)  == Statement("lock", None, {<<<<t>>, "exclusive">>})
Index(t)  == Statement("lock", None, {<<<<t>>, "share">>})
Refer(t)  == Statement("lock", None, {<<<<t>>, "refer">>})
Insert(k) == Statement("insert", k, {<<Table(k), "write">>})
Unless(k) == Statement("unless", k, {<<Table(k), "write">>})
Upsert(k) == Statement("unless", k, {<<Table(k), "write">>, <<k, "exclusive">>})
Commit    == Statement("commit", None, {})

Clash(m, n) == \/ "exclusive" \in {m, n}
               \/ {m, n} = {"share", "write"}
-----------------------------------------------------------------------------
VARIABLES
  table,       \* how many committed rows of each kind there are
  call,        \* the handler each caller runs, and its next statement
  pend,        \* the rows that its open transaction has written
  locks,       \* the locks that its open transaction holds
  begun,       \* how many calls were made
  faults,      \* how many failed
  overlapped,  \* history: handlers that ran in two callers at once
  lost         \* history: how many calls did not do all they had to

vars == <<table, call, pend, locks, begun, faults, overlapped, lost>>

Idle == [handler |-> None, at |-> 1]
NoRows == [k \in Rows |-> 0]

Locks == UNION {UNION {Script[h][i].needs : i \in DOMAIN Script[h]} : h \in Handlers}

ASSUME TransactionAssumption ==
  /\ None \notin Handlers
  /\ Calls \in Nat /\ Faults \in Nat
  /\ \A h \in Handlers :
       /\ Script[h] \in Seq([op : {"lock", "insert", "unless", "commit"},
                             row : Rows \cup {None}, needs : SUBSET Locks,
                             else : Nat, tried : BOOLEAN])
       /\ \A i \in DOMAIN Script[h] :
            Script[h][i].op \in {"insert", "unless"} => Script[h][i].row \in Rows

AfterCommit(s, i) ==
  LET later == {j \in DOMAIN s : j >= i /\ s[j].op = "commit"}
  IN  1 + CHOOSE j \in later : \A k \in later : j <= k

IsCommit(s, i) == i \in DOMAIN s /\ s[i].op = "commit"

(* A script ends with a commit, and so does what it tries; it skips        *)
(* statements only up to a commit.                                         *)
ASSUME ScriptAssumption ==
  \A h \in Handlers :
    /\ IsCommit(Script[h], Len(Script[h]))
    /\ \A i \in DOMAIN Script[h] :
         /\ Script[h][i].else # 1 => IsCommit(Script[h], i + Script[h][i].else)
         /\ Script[h][i].tried => IsCommit(Script[h], AfterCommit(Script[h], i) - 1)
                                  /\ AfterCommit(Script[h], i) \in Nat
                                  /\ AfterCommit(Script[h], i) > i

TypeOK ==
  /\ table \in [Rows -> Nat]
  /\ call \in [Callers -> [handler : Handlers \cup {None}, at : Nat]]
  /\ pend \in [Callers -> [Rows -> Nat]]
  /\ locks \in [Callers -> SUBSET Locks]
  /\ begun \in Nat /\ faults \in Nat /\ lost \in Nat
  /\ overlapped \subseteq Handlers

Init ==
  /\ table = NoRows
  /\ call = [c \in Callers |-> Idle]
  /\ pend = [c \in Callers |-> NoRows]
  /\ locks = [c \in Callers |-> {}]
  /\ begun = 0 /\ faults = 0 /\ overlapped = {} /\ lost = 0
-----------------------------------------------------------------------------
Active(c) == call[c].handler # None
Statements(c) == Script[call[c].handler]
Running(c) == Active(c) /\ call[c].at \in DOMAIN Statements(c)
Now(c) == Statements(c)[call[c].at]
Does(c, op) == Running(c) /\ Now(c).op = op

WaitsForOwn(c, d) ==
  Running(c) /\ \E l \in Now(c).needs, h \in locks[d] : l[1] = h[1] /\ Clash(l[2], h[2])
(* The server makes c wait while another transaction holds what clashes.   *)
WaitsFor(c, d) ==
  /\ c # d /\ Running(c)
  /\ \E l \in Now(c).needs, h \in locks[d] : l[1] = h[1] /\ Clash(l[2], h[2])
Granted(c) == \A d \in Callers : ~WaitsFor(c, d)
TakeBriefly(c) == UNCHANGED locks
Take(c) == locks' = [locks EXCEPT ![c] = @ \cup Now(c).needs]

Goto(c, i) == call' = [call EXCEPT ![c].at = i]
Seen(c, k) == table[k] + pend[c][k]

Begin(c, h) ==
  /\ ~Active(c) /\ begun < Calls
  /\ begun' = begun + 1
  /\ call' = [call EXCEPT ![c] = [handler |-> h, at |-> 1]]
  /\ overlapped' = IF \E d \in Callers : call[d].handler = h
                   THEN overlapped \cup {h} ELSE overlapped
  /\ UNCHANGED <<table, pend, locks, faults, lost>>

Lock(c) ==
  /\ Does(c, "lock") /\ Granted(c)
  /\ Take(c) /\ Goto(c, call[c].at + 1)
  /\ UNCHANGED <<table, pend, begun, faults, overlapped, lost>>

Add(c) ==
  /\ pend' = [pend EXCEPT ![c][Now(c).row] = @ + 1]
  /\ Take(c) /\ Goto(c, call[c].at + 1)
  /\ UNCHANGED <<table, begun, faults, overlapped, lost>>

Write(c) ==
  /\ Does(c, "insert") /\ Granted(c)
  /\ Add(c)

WriteBlindly(c) ==
  /\ Does(c, "unless") /\ Granted(c)
  /\ Add(c)

(* insert ... where not exists, insert ... on conflict, or a look-up with  *)
(* an insert after it.                                                     *)
WriteNew(c) ==
  /\ Does(c, "unless") /\ Granted(c) /\ Seen(c, Now(c).row) = 0
  /\ Add(c)

PassOn(c) ==
  /\ Does(c, "unless") /\ Granted(c) /\ Seen(c, Now(c).row) > 0
  /\ Take(c) /\ Goto(c, call[c].at + 1)
  /\ UNCHANGED <<table, pend, begun, faults, overlapped, lost>>

Pass(c) ==
  /\ Does(c, "unless") /\ Granted(c) /\ Seen(c, Now(c).row) > 0
  /\ Take(c) /\ Goto(c, call[c].at + Now(c).else)
  /\ UNCHANGED <<table, pend, begun, faults, overlapped, lost>>

CommitWork(c) ==
  /\ Does(c, "commit")
  /\ table' = [k \in Rows |-> table[k] + pend[c][k]]
  /\ pend' = [pend EXCEPT ![c] = NoRows]
  /\ locks' = [locks EXCEPT ![c] = {}]
  /\ Goto(c, call[c].at + 1)
  /\ UNCHANGED <<begun, faults, overlapped, lost>>

Return(c) ==
  /\ Active(c) /\ ~Running(c)
  /\ call' = [call EXCEPT ![c] = Idle]
  /\ UNCHANGED <<table, pend, locks, begun, faults, overlapped, lost>>
-----------------------------------------------------------------------------
RollBack(c) ==
  /\ pend' = [pend EXCEPT ![c] = NoRows]
  /\ locks' = [locks EXCEPT ![c] = {}]
  /\ lost' = lost + 1
  /\ UNCHANGED <<table, begun, overlapped>>

(* A statement raises: the transaction is rolled back, and the handler     *)
(* ends, or goes on after a swallowed exception.                           *)
Raise(c) ==
  /\ RollBack(c)
  /\ \/ Now(c).tried /\ Goto(c, AfterCommit(Statements(c), call[c].at))
     \/ ~Now(c).tried /\ call' = [call EXCEPT ![c] = Idle]

Fail(c) ==
  /\ Running(c) /\ faults < Faults
  /\ Raise(c)
  /\ faults' = faults + 1

Die(c) ==
  /\ Active(c) /\ faults < Faults
  /\ RollBack(c)
  /\ call' = [call EXCEPT ![c] = Idle]
  /\ faults' = faults + 1

(* A circle of waiting transactions: the server raises in one of them.     *)
Deadlocked(c) ==
  \E S \in SUBSET Callers :
    /\ c \in S
    /\ \A d \in S : (\E e \in S : WaitsFor(d, e)) /\ (\E e \in S : WaitsFor(e, d))

Victim(c) ==
  /\ Deadlocked(c)
  /\ Raise(c)
  /\ UNCHANGED faults

Advance(c) ==
  \/ Lock(c) \/ Write(c) \/ WriteNew(c) \/ Pass(c)
  \/ CommitWork(c) \/ Return(c) \/ Victim(c)

Next ==
  \E c \in Callers :
    \/ \E h \in Handlers : Begin(c, h)
    \/ Advance(c) \/ Fail(c) \/ Die(c)

Spec == Init /\ [][Next]_vars
-----------------------------------------------------------------------------
(* The statements of a script that add to the rows k.                      *)
Adds(s, k) == {i \in DOMAIN s : s[i].op \in {"insert", "unless"} /\ s[i].row = k}

(* The transaction of statement i has locked r when the statement is over. *)
Holds(s, i, r) ==
  \E j \in DOMAIN s : /\ j <= i /\ <<r, "exclusive">> \in s[j].needs
                      /\ \A l \in j .. i : s[l].op # "commit"

(* Whoever adds to the rows k looks for one first, under a lock on r that  *)
(* all of them take: the unique key of an upsert, or a table that the      *)
(* seeds alter at the start of their transaction.                          *)
SerializedBy(k, r) ==
  \A h \in Handlers : \A i \in Adds(Script[h], k) :
    /\ Script[h][i].op = "unless"
    /\ Holds(Script[h], i, r)

(* Handler h alone adds to the rows k, and looks for one first.            *)
WrittenBy(k, h) ==
  \A g \in Handlers : \A i \in Adds(Script[g], k) :
    g = h /\ Script[g][i].op = "unless"

Exclusives == {l[1] : l \in {m \in Locks : m[2] = "exclusive"}}

SerializedRows == {k \in Rows : \E r \in Exclusives : SerializedBy(k, r)}
SoleWriters ==
  UNION {{<<k, h>> : h \in {g \in Handlers :
            Adds(Script[g], k) # {} /\ WrittenBy(k, g)}} : k \in Rows}

(* "create ... if missing" under a common lock creates once, whichever     *)
(* handlers overlap and whatever fails: the business seeds owe it to the   *)
(* "alter table projects add column if not exists" they begin with, an     *)
(* access exclusive lock (business_os.py, ops2.py).                        *)
OneOfEach == \A k \in SerializedRows : table[k] <= 1

(* A seed that only looks before it inserts (the backlogs, the laptops'    *)
(* work, an event with a dedupe key in brain_bus.py) may insert twice, but *)
(* only if two calls of that same seed overlap: running it again, or       *)
(* again after a failure, adds nothing.                                    *)
DuplicatesNeedOverlap ==
  \A p \in SoleWriters : table[p[1]] > 1 => p[2] \in overlapped
=============================================================================
