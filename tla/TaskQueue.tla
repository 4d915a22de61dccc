----------------------------- MODULE TaskQueue -----------------------------
(***************************************************************************)
(* A queue of queue.c as the threads that share it see it: a monitor with  *)
(* one mutex and the condition variable `not_empty'.  Producers call       *)
(* queue_push, consumers loop over queue_pop until it returns NULL (the    *)
(* loops of client_thread_main and worker_thread_main), and one thread     *)
(* calls queue_close.                                                      *)
(*                                                                         *)
(* A step is one critical section.  pthread_cond_wait splits queue_pop in  *)
(* two: a consumer releases the mutex when it starts to wait, and takes it *)
(* again some time after it is signalled; other threads may run first.     *)
(* The order of the heap is that of PriorityHeap, and abstracted to the    *)
(* choice of a top task.                                                   *)
(***************************************************************************)
EXTENDS TaskOrder, FiniteSets

CONSTANT Consumers  \* the threads that call queue_pop

ASSUME ConsumersAssumption == IsFiniteSet(Consumers) /\ IsFiniteSet(Tasks)

VARIABLES items,     \* the tasks in the queue
          closed,    \* Queue.closed
          pc,        \* where each consumer is
          pushed,    \* the tasks that queue_push accepted and no consumer has freed
          refused,   \* the tasks queue_push has refused: the queue was closed
          taken      \* the task that each consumer has received

vars == <<items, closed, pc, pushed, refused, taken>>

InPc(l) == {c \in Consumers : pc[c] = l}
Waiting == InPc("waiting")   \* inside pthread_cond_wait
Woken == InPc("woken")       \* signalled, about to take the mutex again
-----------------------------------------------------------------------------
Init ==
    /\ items = {}
    /\ closed = FALSE
    /\ pc = [c \in Consumers |-> "calling"]
    /\ pushed = {}
    /\ refused = {}
    /\ taken = [c \in Consumers |-> {}]

Signal_Never == UNCHANGED pc

Signal_OnlyIfEmpty ==
    IF Waiting = {} \/ items # {}
      THEN UNCHANGED pc
      ELSE \E c \in Waiting : pc' = [pc EXCEPT ![c] = "woken"]

(* pthread_cond_signal wakes one waiting thread, if there is one *)
Signal ==
    IF Waiting = {}
      THEN UNCHANGED pc
      ELSE \E c \in Waiting : pc' = [pc EXCEPT ![c] = "woken"]

Broadcast_One ==
    IF Waiting = {}
      THEN UNCHANGED pc
      ELSE \E c \in Waiting : pc' = [pc EXCEPT ![c] = "woken"]

(* pthread_cond_broadcast wakes all of them *)
Broadcast == pc' = [c \in Consumers |-> IF pc[c] = "waiting" THEN "woken" ELSE pc[c]]

(* Each task is pushed once: task_create and queue_push come in pairs.  One *)
(* that a consumer has freed may be made and pushed anew, so that pushes   *)
(* can go on for ever.                                                     *)
queue_push(t) ==
    /\ t \notin pushed \cup refused
    /\ IF closed
         THEN /\ refused' = refused \cup {t}
              /\ UNCHANGED <<items, pushed, pc>>
         ELSE /\ items' = items \cup {t}
              /\ pushed' = pushed \cup {t}
              /\ Signal
              /\ UNCHANGED refused
    /\ UNCHANGED <<closed, taken>>

(* The loop condition of queue_pop holds: wait. *)
Wait(c) ==
    /\ items = {} /\ ~closed
    /\ pc' = [pc EXCEPT ![c] = "waiting"]
    /\ UNCHANGED <<items, taken>>

(* The queue is closed and empty: return NULL, and the caller's loop ends. *)
ReturnNull(c) ==
    /\ items = {} /\ closed
    /\ pc' = [pc EXCEPT ![c] = "done"]
    /\ UNCHANGED <<items, taken>>

ReturnTask_NotRemoved(c) ==
    /\ \E t \in items :
         IsTop(t, items) /\ taken' = [taken EXCEPT ![c] = @ \cup {t}]
    /\ pc' = [pc EXCEPT ![c] = "busy"]
    /\ UNCHANGED items

(* Return a top task. *)
ReturnTask(c) ==
    /\ \E t \in items :
         /\ IsTop(t, items)
         /\ items' = items \ {t}
         /\ taken' = [taken EXCEPT ![c] = @ \cup {t}]
    /\ pc' = [pc EXCEPT ![c] = "busy"]

(* queue_pop, from its first lock or from its return from the wait: the    *)
(* loop condition is evaluated again in both cases.                        *)
queue_pop(c) ==
    /\ pc[c] \in {"calling", "woken"}
    /\ Wait(c) \/ ReturnNull(c) \/ ReturnTask(c)
    /\ UNCHANGED <<closed, pushed, refused>>

(* The consumer has finished with its task, frees it and calls queue_pop   *)
(* again.                                                                  *)
Work(c) ==
    /\ pc[c] = "busy"
    /\ pc' = [pc EXCEPT ![c] = "calling"]
    /\ pushed' = pushed \ taken[c]
    /\ taken' = [taken EXCEPT ![c] = {}]
    /\ UNCHANGED <<items, closed, refused>>

(* pthread_cond_wait may return without a signal. *)
SpuriousWakeup(c) ==
    /\ pc[c] = "waiting"
    /\ pc' = [pc EXCEPT ![c] = "woken"]
    /\ UNCHANGED <<items, closed, pushed, refused, taken>>

queue_close ==
    /\ ~closed
    /\ closed' = TRUE
    /\ Broadcast
    /\ UNCHANGED <<items, pushed, refused, taken>>

Next ==
    \/ \E t \in Tasks : queue_push(t)
    \/ \E c \in Consumers : queue_pop(c) \/ Work(c) \/ SpuriousWakeup(c)
    \/ queue_close

(* A consumer that can take the mutex eventually does, and every call that *)
(* serves a task ends.                                                     *)
Fairness == \A c \in Consumers : WF_vars(queue_pop(c)) /\ WF_vars(Work(c))

Spec == Init /\ [][Next]_vars /\ Fairness
-----------------------------------------------------------------------------
(* The types; only tasks that queue_push accepted are in the queue. *)
TypeOK ==
    /\ items \subseteq pushed
    /\ closed \in BOOLEAN
    /\ pc \in [Consumers -> {"calling", "waiting", "woken", "busy", "done"}]
    /\ pushed \subseteq Tasks
    /\ refused \subseteq Tasks
    /\ taken \in [Consumers -> SUBSET Tasks]

(* While a consumer waits in queue_pop, every task in the queue has a      *)
(* consumer of its own that was woken for it; and nobody waits on a closed *)
(* queue.  The single pthread_cond_signal of queue_push is enough.         *)
NoLostWakeup ==
    /\ Waiting # {} => Cardinality(items) <= Cardinality(Woken)
    /\ closed => Waiting = {}

(* Every accepted task is in the queue or, until it is freed, with exactly *)
(* one consumer.                                                           *)
EachTaskOnce ==
    /\ pushed = items \cup UNION {taken[c] : c \in Consumers}
    /\ \A c \in Consumers : taken[c] \cap items = {}
    /\ \A c, d \in Consumers : c # d => taken[c] \cap taken[d] = {}

(* A consumer's loop ends only after the queue was closed and drained: no  *)
(* accepted task is left behind at shutdown.                               *)
DrainedAtEnd == InPc("done") # {} => closed /\ items = {}

(* Every task that queue_push accepted is received, unless pushes go on    *)
(* for ever.  (Under a load that never ends it may not be: the heap pops   *)
(* the lowest priority first and, among equals, the newest.)               *)
EveryTaskReceived ==
    \A t \in Tasks :
      (t \in items ~> t \notin items) \/ []<><<\E u \in Tasks : queue_push(u)>>_vars

(* After queue_close every consumer's loop ends: no one is left waiting. *)
ConsumersEnd == closed ~> InPc("done") = Consumers
=============================================================================
