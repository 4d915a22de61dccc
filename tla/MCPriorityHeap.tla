--------------------------- MODULE MCPriorityHeap ---------------------------
(* Instances of PriorityHeap for TLC. *)
EXTENDS PriorityHeap

(* Tasks of every priority, two of which tie in priority and time. *)
MCTasks ==
    {[id |-> 1, priority |-> PRIORITY_LOW, enqueue_time |-> 0],
     [id |-> 2, priority |-> PRIORITY_LOW, enqueue_time |-> 3],
     [id |-> 3, priority |-> PRIORITY_NORMAL, enqueue_time |-> 1],
     [id |-> 4, priority |-> PRIORITY_NORMAL, enqueue_time |-> 1],
     [id |-> 5, priority |-> PRIORITY_HIGH, enqueue_time |-> 2]}
=============================================================================
