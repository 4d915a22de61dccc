---------------------------- MODULE MCTaskQueue ----------------------------
(* An instance of TaskQueue for TLC. *)
EXTENDS TaskQueue

(* One task of each priority, and a fourth that ties with one of them. *)
MCTasks ==
    {[id |-> 1, priority |-> PRIORITY_LOW, enqueue_time |-> 0],
     [id |-> 2, priority |-> PRIORITY_NORMAL, enqueue_time |-> 1],
     [id |-> 3, priority |-> PRIORITY_HIGH, enqueue_time |-> 2],
     [id |-> 4, priority |-> PRIORITY_HIGH, enqueue_time |-> 2]}
=============================================================================
