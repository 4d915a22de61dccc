----------------------------- MODULE TaskOrder -----------------------------
(***************************************************************************)
(* The order in which the server's priority queue ranks tasks.             *)
(*                                                                         *)
(* A task is a record whose fields `priority' and `enqueue_time' are those *)
(* of struct Task; the remaining fields of the struct play no part in the  *)
(* order and are summed up by the task's identity.  The pair               *)
(* (tv_sec, tv_nsec), compared lexicographically, is one natural number.   *)
(***************************************************************************)
EXTENDS Integers

CONSTANT Tasks  \* the Task objects the program may allocate

PRIORITY_LOW == 0
PRIORITY_NORMAL == 1
PRIORITY_HIGH == 2
TaskPriority == {PRIORITY_LOW, PRIORITY_NORMAL, PRIORITY_HIGH}

ASSUME TasksAssumption ==
    \A t \in Tasks : t.priority \in TaskPriority /\ t.enqueue_time \in Nat

Sign(n) == IF n < 0 THEN -1 ELSE IF n > 0 THEN 1 ELSE 0

(***************************************************************************)
(* task_compare_priority returns -1 when its first argument has the        *)
(* larger priority field, or, at equal priorities, was enqueued earlier.   *)
(***************************************************************************)
task_compare_priority(a, b) ==
    IF a.priority # b.priority
      THEN Sign(b.priority - a.priority)
      ELSE Sign(a.enqueue_time - b.enqueue_time)

(* t may stand at the root of a heap that holds the tasks S *)
IsTop(t, S) == \A u \in S : task_compare_priority(t, u) >= 0
=============================================================================
