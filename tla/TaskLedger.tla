---------------------------- MODULE TaskLedger ----------------------------
(***************************************************************************)
(* What the task queue promises to whoever creates a task, with no         *)
(* workers, tokens, leases or machines: a task waits, is worked on, and    *)
(* settles once and for all, after at most MaxAttempts attempts; it is     *)
(* given up only when the attempts are used up.  TaskQueue implements it.  *)
(***************************************************************************)
EXTENDS Naturals

CONSTANTS Tasks,        \* the rows of table tasks
          MaxAttempts   \* tasks.max_attempts

VARIABLES stage,        \* where each task stands
          tries         \* attempts each task has consumed

ledger == <<stage, tries>>

Init ==
  /\ stage = [t \in Tasks |-> "absent"]
  /\ tries = [t \in Tasks |-> 0]

(* One task may move by one of these steps; a step of the queue may move   *)
(* several tasks at once (a sweep of the steward does).                    *)
Submitted(t) == /\ stage[t] = "absent" /\ stage'[t] = "waiting"
                /\ tries'[t] = tries[t]

Started(t)   == /\ stage[t] = "waiting" /\ stage'[t] = "working"
                /\ tries[t] < MaxAttempts /\ tries'[t] = tries[t] + 1

Returned(t)  == /\ stage[t] = "working" /\ stage'[t] = "waiting"
                /\ tries[t] < MaxAttempts /\ tries'[t] = tries[t]

Done(t)      == /\ stage[t] = "working" /\ stage'[t] = "done"
                /\ tries'[t] = tries[t]

GivenUp(t)   == /\ stage[t] = "working" /\ stage'[t] = "dead"
                /\ tries[t] >= MaxAttempts /\ tries'[t] = tries[t]

Kept(t)      == stage'[t] = stage[t] /\ tries'[t] = tries[t]

(* At most one task starts in a step: a claim takes one row.               *)
Next ==
  /\ \A t \in Tasks : \/ Submitted(t) \/ Started(t) \/ Returned(t)
                      \/ Done(t) \/ GivenUp(t) \/ Kept(t)
  /\ \A t, u \in Tasks : Started(t) /\ Started(u) => t = u
  /\ DOMAIN stage' = Tasks
  /\ DOMAIN tries' = Tasks

Spec == Init /\ [][Next]_ledger
=============================================================================
