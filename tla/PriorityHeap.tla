---------------------------- MODULE PriorityHeap ----------------------------
(***************************************************************************)
(* The array heap of queue.c.  Every operation runs under Queue.mutex, so  *)
(* one operation is in progress at a time; a step of this module is one    *)
(* critical section's straight-line part or one iteration of the loop of   *)
(* heapify_up or heapify_down.                                             *)
(*                                                                         *)
(* The array is a function on 0 .. MaxSize-1; slots from `size' on hold    *)
(* stale data, as in the code.                                             *)
(*                                                                         *)
(* A definition D_X, here and in the other modules, is D with a slip X in  *)
(* it: Next does not use it, and the properties are seen to notice it.     *)
(***************************************************************************)
EXTENDS TaskOrder

CONSTANTS NoTask,           \* no task: a NULL pointer, an array slot not yet written
          MaxSize,          \* bound on the number of queued tasks
          InitialCapacity   \* first capacity of the array (16 in queue_push)

ASSUME SizesAssumption ==
    /\ NoTask \notin Tasks
    /\ MaxSize \in Nat \ {0}
    /\ InitialCapacity \in Nat \ {0}

VARIABLES items,      \* Queue.items
          size,       \* Queue.size
          capacity,   \* Queue.capacity
          closed,     \* Queue.closed
          pc,         \* "idle", "up" (heapify_up) or "down" (heapify_down)
          index,      \* the local `index' of the loop in progress
          data        \* what the last queue_pop returned

vars == <<items, size, capacity, closed, pc, index, data>>

Parent(i) == (i - 1) \div 2
Left(i) == 2 * i + 1
Right(i) == 2 * i + 2

Contents == {items[i] : i \in 0 .. size - 1}

Swapped_NoTemp(i, j) == [items EXCEPT ![i] = items[j]]

Swapped(i, j) == [items EXCEPT ![i] = items[j], ![j] = items[i]]
-----------------------------------------------------------------------------
(* queue_init *)
Init ==
    /\ items = [i \in 0 .. MaxSize - 1 |-> NoTask]
    /\ size = 0
    /\ capacity = 0
    /\ closed = FALSE
    /\ pc = "idle"
    /\ index = 0
    /\ data = NoTask

NewCapacity_Same == IF capacity = 0 THEN InitialCapacity ELSE capacity

NewCapacity == IF capacity = 0 THEN InitialCapacity ELSE capacity * 2

(* queue_push up to the call of heapify_up.  On a closed queue, or when    *)
(* realloc fails, it returns false and changes nothing.                    *)
queue_push(t) ==
    /\ pc = "idle"
    /\ ~closed
    /\ size < MaxSize
    /\ t \notin Contents
    /\ capacity' = IF size >= capacity THEN NewCapacity ELSE capacity
    /\ items' = [items EXCEPT ![size] = t]
    /\ size' = size + 1
    /\ index' = size
    /\ pc' = "up"
    /\ UNCHANGED <<closed, data>>

(* one iteration of heapify_up: either it swaps, or it leaves the loop *)
heapify_up ==
    /\ pc = "up"
    /\ IF index > 0 /\ task_compare_priority(items[Parent(index)], items[index]) < 0
         THEN /\ items' = Swapped(Parent(index), index)
              /\ index' = Parent(index)
              /\ UNCHANGED pc
         ELSE /\ pc' = "idle"
              /\ UNCHANGED <<items, index>>
    /\ UNCHANGED <<size, capacity, closed, data>>

queue_pop_NoHeapify ==
    /\ pc = "idle"
    /\ size > 0
    /\ data' = items[0]
    /\ items' = [items EXCEPT ![0] = items[size - 1]]
    /\ size' = size - 1
    /\ UNCHANGED <<capacity, closed, pc, index>>

(* queue_pop past its wait loop, up to the call of heapify_down *)
queue_pop ==
    /\ pc = "idle"
    /\ size > 0
    /\ data' = items[0]
    /\ items' = [items EXCEPT ![0] = items[size - 1]]
    /\ size' = size - 1
    /\ index' = 0
    /\ pc' = IF size - 1 > 0 THEN "down" ELSE "idle"
    /\ UNCHANGED <<capacity, closed>>

Largest_LeftOnly ==
    IF Left(index) < size /\ task_compare_priority(items[Left(index)], items[index]) > 0
      THEN Left(index) ELSE index

(* the child, or `index' itself, that heapify_down moves up *)
Largest ==
    LET l == IF /\ Left(index) < size
                /\ task_compare_priority(items[Left(index)], items[index]) > 0
               THEN Left(index) ELSE index
    IN  IF /\ Right(index) < size
           /\ task_compare_priority(items[Right(index)], items[l]) > 0
          THEN Right(index) ELSE l

heapify_down ==
    /\ pc = "down"
    /\ IF Largest # index
         THEN /\ items' = Swapped(index, Largest)
              /\ index' = Largest
              /\ UNCHANGED pc
         ELSE /\ pc' = "idle"
              /\ UNCHANGED <<items, index>>
    /\ UNCHANGED <<size, capacity, closed, data>>

queue_close ==
    /\ pc = "idle"
    /\ closed' = TRUE
    /\ UNCHANGED <<items, size, capacity, pc, index, data>>

Next ==
    \/ \E t \in Tasks : queue_push(t)
    \/ heapify_up
    \/ queue_pop
    \/ heapify_down
    \/ queue_close

Spec == Init /\ [][Next]_vars
-----------------------------------------------------------------------------
(* The types of the queue's fields; the array has room for what it holds,  *)
(* since queue_push grows it before it writes items[size].                 *)
TypeOK ==
    /\ items \in [0 .. MaxSize - 1 -> Tasks \cup {NoTask}]
    /\ size \in 0 .. MaxSize
    /\ capacity \in Nat /\ size <= capacity
    /\ closed \in BOOLEAN
    /\ pc \in {"idle", "up", "down"}
    /\ index \in 0 .. MaxSize - 1
    /\ data \in Tasks \cup {NoTask}

(* Whenever the mutex is free the array is a heap under                    *)
(* task_compare_priority: both loops stop only when the order is restored. *)
HeapOrder ==
    pc = "idle" =>
      \A i \in 1 .. size - 1 :
        task_compare_priority(items[Parent(i)], items[i]) >= 0

(* queue_pop returns a task that no queued task outranks, and removes that *)
(* task and no other.                                                      *)
PopReturnsTop ==
    [][size' < size => /\ IsTop(data', Contents)
                       /\ Contents' = Contents \ {data'}]_vars

(* The heap implements the abstract queue: the loops neither lose nor      *)
(* duplicate a task, and every pop is a pop of a top task.                 *)
PQ == INSTANCE PriorityQueue WITH items <- Contents, closed <- closed

(* queue.c implements PriorityQueue. *)
ImplementsPriorityQueue == PQ!Spec

(* queue.h says of queue_pop "Pop the highest priority item from the       *)
(* queue": the task it returns has the largest priority field.             *)
HighestPriorityFirst ==
    [][size' < size => \A t \in Contents : t.priority <= data'.priority]_vars
=============================================================================
