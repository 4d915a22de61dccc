--------------------------- MODULE PriorityQueue ---------------------------
(***************************************************************************)
(* What a queue of queue.c promises its callers: a set of tasks from which *)
(* queue_pop removes one that no other task outranks, and which takes no   *)
(* further task once it is closed.                                         *)
(***************************************************************************)
EXTENDS TaskOrder

VARIABLES items,   \* the tasks in the queue
          closed   \* Queue.closed

vars == <<items, closed>>

Init == items = {} /\ closed = FALSE

Push(t) ==
    /\ ~closed
    /\ t \notin items
    /\ items' = items \cup {t}
    /\ UNCHANGED closed

Pop(t) ==
    /\ t \in items
    /\ IsTop(t, items)
    /\ items' = items \ {t}
    /\ UNCHANGED closed

Close == closed' = TRUE /\ UNCHANGED items

Next == (\E t \in Tasks : Push(t) \/ Pop(t)) \/ Close

Spec == Init /\ [][Next]_vars
=============================================================================
