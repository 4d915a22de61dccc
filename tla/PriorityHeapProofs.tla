------------------------- MODULE PriorityHeapProofs -------------------------
(***************************************************************************)
(* Proofs about the array heap of queue.c, for every set of tasks, every   *)
(* bound on the queue's size and every initial capacity.                   *)
(***************************************************************************)
EXTENDS PriorityHeap, TLAPS, WellFoundedInduction, NaturalsInduction

(* a may stand above b *)
Ge(a, b) == task_compare_priority(a, b) >= 0

(* task_compare_priority is a total preorder: Ge is reflexive, total and   *)
(* transitive, and the strict results are each other's mirror image.       *)
LEMMA GeReflexive == \A a \in Tasks : Ge(a, a)
BY TasksAssumption DEF Ge, task_compare_priority, Sign, TaskPriority,
     PRIORITY_LOW, PRIORITY_NORMAL, PRIORITY_HIGH

LEMMA CompareStrict ==
  \A a, b \in Tasks : /\ task_compare_priority(a, b) < 0 <=> ~Ge(a, b)
                      /\ task_compare_priority(a, b) < 0 => Ge(b, a)
                      /\ task_compare_priority(a, b) > 0 <=> ~Ge(b, a)
                      /\ task_compare_priority(a, b) > 0 => Ge(a, b)
BY TasksAssumption DEF Ge, task_compare_priority, Sign, TaskPriority,
     PRIORITY_LOW, PRIORITY_NORMAL, PRIORITY_HIGH

LEMMA GeTransitive == \A a, b, c \in Tasks : Ge(a, b) /\ Ge(b, c) => Ge(a, c)
BY TasksAssumption DEF Ge, task_compare_priority, Sign, TaskPriority,
     PRIORITY_LOW, PRIORITY_NORMAL, PRIORITY_HIGH

(* The index arithmetic of the heap: Left and Right invert Parent. *)
LEMMA ParentFacts ==
  \A i \in Nat : i > 0 => /\ Parent(i) \in Nat
                          /\ Parent(i) < i
                          /\ i = Left(Parent(i)) \/ i = Right(Parent(i))
BY DEF Parent, Left, Right

LEMMA ChildFacts ==
  \A i \in Nat : /\ Left(i) \in Nat /\ Right(i) \in Nat
                 /\ Left(i) > i /\ Right(i) > i
                 /\ Left(i) # Right(i)
                 /\ Parent(Left(i)) = i /\ Parent(Right(i)) = i
BY DEF Parent, Left, Right
-----------------------------------------------------------------------------
(* The edge from i's parent to i is in order. *)
Edge(i) == Ge(items[Parent(i)], items[i])

(* i's grandparent may stand above i. *)
GrandEdge(i) == Ge(items[Parent(Parent(i))], items[i])

(***************************************************************************)
(* The heap order while a loop is in progress.  heapify_up repairs the one *)
(* edge that ends in `index', heapify_down the edges that start there; and *)
(* what stands above `index' may stand above its children, which is what   *)
(* keeps a swap from breaking another edge.                                *)
(***************************************************************************)
Order ==
    /\ pc = "idle" => \A i \in 1 .. size - 1 : Edge(i)
    /\ pc = "up" => \A i \in 1 .. size - 1 : i # index => Edge(i)
    /\ pc = "down" => \A i \in 1 .. size - 1 : Parent(i) # index => Edge(i)
    /\ pc # "idle" =>
         \A i \in 1 .. size - 1 : Parent(i) = index /\ index > 0 => GrandEdge(i)

HeapInv ==
    /\ TypeOK
    /\ \A i \in 0 .. size - 1 : items[i] \in Tasks
    /\ \A i, j \in 0 .. size - 1 : items[i] = items[j] => i = j
    /\ pc # "idle" => index < size
    /\ Order

LEMMA InitInv == Init => HeapInv
<1> SUFFICES ASSUME Init PROVE HeapInv
  OBVIOUS
<1>1. TypeOK
  <2>1. closed \in BOOLEAN
    BY Zenon DEF Init
  <2>2. /\ size \in 0 .. MaxSize /\ capacity \in Nat /\ index \in 0 .. MaxSize - 1
        /\ size <= capacity
    BY SizesAssumption DEF Init
  <2>3. /\ items \in [0 .. MaxSize - 1 -> Tasks \cup {NoTask}]
        /\ pc \in {"idle", "up", "down"} /\ data \in Tasks \cup {NoTask}
    BY DEF Init
  <2> QED BY <2>1, <2>2, <2>3, Zenon DEF TypeOK
<1>2. 0 .. size - 1 = {} /\ 1 .. size - 1 = {}
  BY DEF Init
<1>3. Order
  BY <1>2 DEF Init, Order
<1> QED BY <1>1, <1>2, <1>3 DEF Init, HeapInv

LEMMA PushInv ==
  ASSUME HeapInv, NEW t \in Tasks, queue_push(t)
  PROVE  HeapInv'
<1> USE DEF HeapInv
<1>1. TypeOK'
  BY SizesAssumption DEF queue_push, TypeOK, NewCapacity
<1>a. /\ size' - 1 = size /\ size \in Nat
      /\ items'[size] = t
      /\ \A i \in 0 .. size - 1 : items'[i] = items[i] /\ items[i] # t
  <2>1. \A i \in 0 .. size - 1 : items[i] \in Contents
    BY Zenon DEF Contents
  <2>2. \A i \in 0 .. size - 1 : items[i] # t
    BY <2>1 DEF queue_push
  <2>3. /\ size \in 0 .. MaxSize - 1 /\ size' = size + 1
        /\ items' = [items EXCEPT ![size] = t] /\ DOMAIN items = 0 .. MaxSize - 1
    BY SizesAssumption DEF queue_push, TypeOK
  <2>4. items'[size] = t /\ \A i \in 0 .. size - 1 : items'[i] = items[i]
    BY <2>3, SizesAssumption
  <2> QED BY <2>2, <2>3, <2>4, SizesAssumption
<1>2. ASSUME NEW i \in 0 .. size' - 1 PROVE items'[i] \in Tasks
  BY <1>a
<1>3. ASSUME NEW i \in 0 .. size' - 1, NEW j \in 0 .. size' - 1, items'[i] = items'[j]
      PROVE  i = j
  BY <1>a, <1>3
<1>4. pc' # "idle" => index' < size'
  BY DEF queue_push, TypeOK
<1>5. ASSUME NEW i \in 1 .. size' - 1 PROVE Parent(i) \in 0 .. size - 1 /\ i \in Nat
  BY ParentFacts DEF queue_push, TypeOK
<1>6. Order'
  BY <1>5 DEF queue_push, TypeOK, Order, Edge, GrandEdge
<1> QED BY <1>1, <1>2, <1>3, <1>4, <1>6

LEMMA UpInv ==
  ASSUME HeapInv, heapify_up
  PROVE  HeapInv'
<1> USE DEF HeapInv
<1>1. CASE ~(index > 0 /\ task_compare_priority(items[Parent(index)], items[index]) < 0)
  <2>1. pc' = "idle" /\ UNCHANGED <<items, size, index, capacity, closed, data>>
    BY <1>1 DEF heapify_up
  <2>2. index > 0 => Edge(index)
    <3>1. index > 0 => items[Parent(index)] \in Tasks /\ items[index] \in Tasks
      BY ParentFacts DEF heapify_up, TypeOK
    <3> QED BY <3>1, <1>1, CompareStrict DEF Edge
  <2>3. \A i \in 1 .. size - 1 : Edge(i)
    BY <2>2 DEF Order, heapify_up, TypeOK
  <2>4. TypeOK'
    BY <2>1 DEF TypeOK
  <2>5. Order'
    BY <2>1, <2>3 DEF Order, Edge
  <2> QED BY <2>1, <2>4, <2>5
<1>2. CASE index > 0 /\ task_compare_priority(items[Parent(index)], items[index]) < 0
  <2> DEFINE p == Parent(index)
  <2>1. p \in Nat /\ p < index /\ index < size /\ index \in Nat /\ size \in Nat /\ size <= MaxSize
    BY <1>2, ParentFacts DEF heapify_up, TypeOK
  <2>2. /\ pc = "up" /\ pc' = "up" /\ index' = p
        /\ items' = [items EXCEPT ![p] = items[index], ![index] = items[p]]
        /\ UNCHANGED <<size, capacity, closed, data>>
    BY <1>2 DEF heapify_up, Swapped
  <2> HIDE DEF p
  <2>3. /\ items'[p] = items[index] /\ items'[index] = items[p]
        /\ \A i \in 0 .. size - 1 : i # p /\ i # index => items'[i] = items[i]
    BY <2>1, <2>2, SizesAssumption DEF TypeOK
  <2>4. TypeOK'
    BY <2>1, <2>2, SizesAssumption DEF TypeOK
  <2>a. size' = size
    BY <2>2
  <2>5. ASSUME NEW i \in 0 .. size' - 1 PROVE items'[i] \in Tasks
    BY <2>1, <2>a, <2>3
  <2>6. ASSUME NEW i \in 0 .. size' - 1, NEW j \in 0 .. size' - 1, items'[i] = items'[j]
        PROVE  i = j
    BY <2>1, <2>a, <2>3, <2>6
  <2>7. Ge(items[index], items[p])
    BY <1>2, <2>1, CompareStrict DEF p
  <2>8. ASSUME NEW i \in 1 .. size - 1, i # p PROVE Edge(i)'
    <3>1. Parent(i) \in 0 .. size - 1 /\ Parent(i) < i /\ i \in 0 .. size - 1
      BY <2>1, ParentFacts
    <3>2. CASE i = index
      BY <2>7, <2>3, <3>2, <2>1 DEF Edge, p
    <3>3. CASE i # index /\ Parent(i) = index
      <4>1. GrandEdge(i)
        BY <3>3, <2>2, <1>2 DEF Order
      <4>2. Ge(items[p], items[i])
        BY <4>1, <3>3 DEF GrandEdge, p
      <4> QED BY <4>2, <3>3, <2>3, <3>1, <2>8 DEF Edge
    <3>4. CASE i # index /\ Parent(i) = p
      <4>1. Ge(items[p], items[i])
        BY <3>4, <2>2 DEF Order, Edge
      <4>2. Ge(items[index], items[i])
        BY <4>1, <2>7, <2>1, <3>1, GeTransitive
      <4> QED BY <4>2, <3>4, <2>3, <2>8, <3>1 DEF Edge
    <3>5. CASE i # index /\ Parent(i) # index /\ Parent(i) # p
      <4>1. Edge(i)
        BY <3>5, <2>2 DEF Order
      <4> QED BY <4>1, <3>5, <2>3, <2>8, <3>1 DEF Edge
    <3> QED BY <3>2, <3>3, <3>4, <3>5
  <2>9. ASSUME NEW i \in 1 .. size - 1, Parent(i) = p, p > 0 PROVE GrandEdge(i)'
    <3>1. Parent(p) \in 0 .. size - 1 /\ Parent(p) < p /\ p \in 1 .. size - 1 /\ p < i
      BY <2>1, <2>9, ParentFacts
    <3>2. Ge(items[Parent(p)], items[p])
      BY <3>1, <2>1, <2>2 DEF Order, Edge
    <3>3. items'[Parent(p)] = items[Parent(p)]
      BY <2>3, <3>1, <2>1
    <3>4. CASE i = index
      BY <3>2, <3>3, <3>4, <2>3, <2>9 DEF GrandEdge
    <3>5. CASE i # index
      <4>1. Ge(items[p], items[i])
        BY <3>5, <2>2, <2>9 DEF Order, Edge
      <4>2. Ge(items[Parent(p)], items[i])
        BY <4>1, <3>2, <3>1, <2>1, GeTransitive
      <4> QED BY <4>2, <3>3, <3>5, <2>3, <2>9, <3>1 DEF GrandEdge
    <3> QED BY <3>4, <3>5
  <2>10. Order'
    BY <2>2, <2>8, <2>9 DEF Order
  <2>11. index' < size'
    BY <2>1, <2>2
  <2> QED BY <2>4, <2>5, <2>6, <2>10, <2>11, Zenon
<1> QED BY <1>1, <1>2

LEMMA PopInv ==
  ASSUME HeapInv, queue_pop
  PROVE  HeapInv'
<1> USE DEF HeapInv
<1>1. /\ size \in 1 .. MaxSize /\ size' = size - 1 /\ index' = 0
      /\ pc' = IF size - 1 > 0 THEN "down" ELSE "idle"
      /\ items' = [items EXCEPT ![0] = items[size - 1]] /\ DOMAIN items = 0 .. MaxSize - 1
      /\ UNCHANGED <<capacity, closed>> /\ data' = items[0]
  BY SizesAssumption DEF queue_pop, TypeOK
<1>2. /\ items'[0] = items[size - 1]
      /\ \A i \in 1 .. size' - 1 : items'[i] = items[i]
  BY <1>1, SizesAssumption
<1>3. TypeOK'
  <2>1. items' \in [0 .. MaxSize - 1 -> Tasks \cup {NoTask}]
    BY <1>1, SizesAssumption DEF TypeOK
  <2>2. data' \in Tasks
    BY <1>1
  <2>3. closed' \in BOOLEAN
    BY <1>1 DEF TypeOK
  <2>4. /\ size' \in 0 .. MaxSize /\ capacity' \in Nat /\ index' \in 0 .. MaxSize - 1
        /\ size' <= capacity' /\ pc' \in {"idle", "up", "down"}
    BY <1>1, SizesAssumption DEF TypeOK
  <2> QED BY <2>1, <2>2, <2>3, <2>4 DEF TypeOK
<1>4. ASSUME NEW i \in 0 .. size' - 1 PROVE items'[i] \in Tasks
  BY <1>1, <1>2
<1>5. ASSUME NEW i \in 0 .. size' - 1, NEW j \in 0 .. size' - 1, items'[i] = items'[j]
      PROVE  i = j
  BY <1>1, <1>2, <1>5
<1>6. pc' # "idle" => index' < size'
  BY <1>1
<1>7. Order'
  <2>1. ASSUME NEW i \in 1 .. size' - 1, Parent(i) # 0 PROVE Edge(i)'
    <3>1. Parent(i) \in 1 .. size' - 1 /\ i \in 1 .. size - 1
      BY <1>1, <2>1, ParentFacts
    <3>2. Edge(i)
      BY <3>1 DEF Order, queue_pop
    <3> QED BY <3>1, <3>2, <1>2, <2>1 DEF Edge
  <2>2. pc' = "idle" => 1 .. size' - 1 = {}
    BY <1>1
  <2> QED BY <1>1, <2>1, <2>2 DEF Order
<1> QED BY <1>3, <1>4, <1>5, <1>6, <1>7, Zenon

LEMMA DownInv ==
  ASSUME HeapInv, heapify_down
  PROVE  HeapInv'
<1> USE DEF HeapInv
<1> DEFINE q == Largest
           l == Left(index)
           r == Right(index)
<1>1. /\ pc = "down" /\ index \in Nat /\ index < size /\ size \in Nat /\ size <= MaxSize
      /\ l \in Nat /\ r \in Nat /\ l > index /\ r > index
      /\ Parent(l) = index /\ Parent(r) = index
  <2>1. pc = "down"
    BY DEF heapify_down
  <2>2. index \in Nat /\ index < size /\ size \in Nat /\ size <= MaxSize
    BY <2>1, SizesAssumption DEF TypeOK
  <2> QED BY <2>1, <2>2, ChildFacts
<1>2. \A i \in 1 .. size - 1 : Parent(i) = index => i = l \/ i = r
  BY ParentFacts, <1>1
<1>3. /\ q \in {index, l, r} /\ q < size
      /\ \A i \in {index, l, r} : i < size => Ge(items[q], items[i])
  <2> DEFINE m == IF l < size /\ task_compare_priority(items[l], items[index]) > 0
                    THEN l ELSE index
  <2>1. q = IF r < size /\ task_compare_priority(items[r], items[m]) > 0 THEN r ELSE m
    BY Zenon DEF Largest
  <2>2. /\ m \in {index, l} /\ m < size
        /\ Ge(items[m], items[index]) /\ (l < size => Ge(items[m], items[l]))
    BY <1>1, CompareStrict, GeReflexive
  <2> HIDE DEF m, q, l, r
  <2>3. CASE r < size /\ task_compare_priority(items[r], items[m]) > 0
    <3>1. q = r /\ items[r] \in Tasks /\ items[m] \in Tasks /\ items[index] \in Tasks
      BY <2>1, <2>2, <2>3, <1>1
    <3>2. Ge(items[r], items[m]) /\ Ge(items[r], items[r])
      BY <2>3, <3>1, CompareStrict, GeReflexive
    <3>3. Ge(items[r], items[index])
      BY <3>1, <3>2, <2>2, GeTransitive
    <3>4. l < size => Ge(items[r], items[l])
      BY <3>1, <3>2, <2>2, GeTransitive, <1>1
    <3> QED BY <3>1, <3>2, <3>3, <3>4, <2>3
  <2>4. CASE ~(r < size /\ task_compare_priority(items[r], items[m]) > 0)
    <3>1. q = m
      BY <2>1, <2>4
    <3>2. r < size => Ge(items[m], items[r])
      BY <2>2, <2>4, <1>1, CompareStrict
    <3> QED BY <3>1, <3>2, <2>2
  <2> QED BY <2>3, <2>4
<1>4. IF q # index
        THEN items' = [items EXCEPT ![index] = items[q], ![q] = items[index]]
             /\ index' = q /\ pc' = pc
        ELSE pc' = "idle" /\ UNCHANGED <<items, index>>
  BY DEF heapify_down, Swapped
<1>5. UNCHANGED <<size, capacity, closed, data>>
  BY DEF heapify_down
<1> HIDE DEF q, l, r
<1>6. CASE q = index
  <2>1. \A i \in 1 .. size - 1 : Edge(i)
    <3> SUFFICES ASSUME NEW i \in 1 .. size - 1 PROVE Edge(i)
      OBVIOUS
    <3>1. CASE Parent(i) # index
      BY <3>1, <1>1 DEF Order
    <3>2. CASE Parent(i) = index
      <4>1. i \in {index, l, r} /\ i < size
        BY <3>2, <1>1, <1>2
      <4> QED BY <4>1, <3>2, <1>3, <1>6 DEF Edge
    <3> QED BY <3>1, <3>2
  <2>2. TypeOK'
    BY <1>4, <1>5, <1>6 DEF TypeOK
  <2>3. Order'
    BY <2>1, <1>4, <1>5, <1>6 DEF Order, Edge
  <2> QED BY <1>4, <1>5, <1>6, <2>2, <2>3
<1>7. CASE q # index
  <2>1. q \in Nat /\ q > index /\ q < size /\ Parent(q) = index
    BY <1>1, <1>3, <1>7
  <2>2. /\ items'[index] = items[q] /\ items'[q] = items[index]
        /\ \A i \in 0 .. size - 1 : i # index /\ i # q => items'[i] = items[i]
    BY <1>1, <1>4, <1>7, <2>1, SizesAssumption DEF TypeOK
  <2>a. size' = size
    BY <1>5
  <2>3. TypeOK'
    BY <1>1, <1>4, <1>5, <1>7, <2>1, SizesAssumption DEF TypeOK
  <2>4. ASSUME NEW i \in 0 .. size' - 1 PROVE items'[i] \in Tasks
    BY <1>1, <2>1, <2>2, <2>a
  <2>5. ASSUME NEW i \in 0 .. size' - 1, NEW j \in 0 .. size' - 1, items'[i] = items'[j]
        PROVE  i = j
    BY <1>1, <2>1, <2>2, <2>a, <2>5
  <2>6. index' < size'
    BY <1>4, <1>7, <2>1, <2>a
  <2>7. ASSUME NEW i \in 1 .. size - 1, Parent(i) # q PROVE Edge(i)'
    <3>1. Parent(i) \in 0 .. size - 1 /\ Parent(i) < i
      BY <1>1, ParentFacts
    <3>2. CASE Parent(i) = index
      <4>1. Ge(items[q], items[i]) /\ Ge(items[q], items[index])
        BY <3>2, <1>1, <1>2, <1>3
      <4> QED BY <4>1, <3>1, <3>2, <2>2 DEF Edge
    <3>3. CASE Parent(i) # index /\ i = index
      <4>1. GrandEdge(q)
        BY <2>1, <1>1, <2>7, <3>3 DEF Order
      <4> QED BY <4>1, <3>1, <3>3, <2>1, <2>2, <2>7 DEF GrandEdge, Edge
    <3>4. CASE Parent(i) # index /\ i # index
      <4>1. Edge(i) /\ i # q
        BY <3>4, <1>1, <2>1 DEF Order
      <4> QED BY <4>1, <3>1, <3>4, <2>2, <2>7 DEF Edge
    <3> QED BY <3>2, <3>3, <3>4
  <2>8. ASSUME NEW i \in 1 .. size - 1, Parent(i) = q PROVE GrandEdge(i)'
    <3>1. q < i /\ Edge(i)
      BY <1>1, <2>1, <2>8, ParentFacts DEF Order
    <3> QED BY <3>1, <2>1, <2>2, <2>8 DEF Edge, GrandEdge
  <2>9. Order'
    BY <1>1, <1>4, <1>7, <2>a, <2>7, <2>8 DEF Order
  <2> QED BY <2>3, <2>4, <2>5, <2>6, <2>9, Zenon
<1> QED BY <1>6, <1>7

LEMMA CloseInv ==
  ASSUME HeapInv, queue_close \/ UNCHANGED vars
  PROVE  HeapInv'
<1> USE DEF HeapInv
<1>1. UNCHANGED <<items, size, capacity, pc, index, data>> /\ closed' \in BOOLEAN
  <2>1. CASE queue_close
    BY <2>1, Zenon DEF queue_close
  <2>2. CASE UNCHANGED vars
    BY <2>2, Zenon DEF vars, TypeOK
  <2> QED BY <2>1, <2>2
<1>2. TypeOK'
  BY <1>1, Zenon DEF TypeOK
<1>3. Order'
  BY <1>1 DEF Order, Edge, GrandEdge
<1> QED BY <1>1, <1>2, <1>3

LEMMA NextInv == HeapInv /\ [Next]_vars => HeapInv'
BY PushInv, UpInv, PopInv, DownInv, CloseInv, Zenon DEF Next

(* The heap invariant: what heapify_up and heapify_down have still to       *)
(* repair is confined to the edges at `index', at every moment of every    *)
(* operation.                                                              *)
THEOREM HeapInvariant == Spec => []HeapInv
BY InitInv, NextInv, PTL DEF Spec

(* Type correctness of the array heap of queue.c: in particular, queue_push *)
(* never writes beyond the array it has allocated.                         *)
THEOREM TypeCorrect == Spec => []TypeOK
<1>1. HeapInv => TypeOK
  BY DEF HeapInv
<1> QED BY <1>1, HeapInvariant, PTL

(* Both loops stop only when the heap order is restored. *)
THEOREM HeapOrderAlways == Spec => []HeapOrder
<1>1. HeapInv => HeapOrder
  BY DEF HeapInv, Order, Edge, Ge, HeapOrder
<1> QED BY <1>1, HeapInvariant, PTL
-----------------------------------------------------------------------------
(* In a heap the root stands above every element: otherwise the smallest    *)
(* index that holds an element above the root would have a parent, with a  *)
(* smaller index, that is not below it.                                    *)
LEMMA RootIsTop ==
  ASSUME HeapInv, pc = "idle", size > 0
  PROVE  IsTop(items[0], Contents)
<1> USE DEF HeapInv
<1> DEFINE T == {j \in Nat : j < size /\ ~Ge(items[0], items[j])}
<1>1. size \in Nat
  BY SizesAssumption DEF TypeOK
<1>2. T = {}
  <2> SUFFICES ASSUME T # {} PROVE FALSE
    OBVIOUS
  <2>1. PICK j \in T : \A k \in T : ~(k < j)
    <3>1. IsWellFoundedOn(OpToRel(<, Nat), Nat)
      BY NatLessThanWellFounded
    <3>2. T \subseteq Nat
      OBVIOUS
    <3> HIDE DEF T
    <3>3. \E j \in T : \A k \in T : ~(<<k, j>> \in OpToRel(<, Nat))
      BY <3>1, <3>2, WFMin
    <3> QED BY <3>2, <3>3 DEF OpToRel
  <2>2. j > 0 /\ j \in 1 .. size - 1
    BY <1>1, GeReflexive
  <2>3. Parent(j) \in 0 .. size - 1 /\ Parent(j) < j
    BY <1>1, <2>2, ParentFacts
  <2>4. Ge(items[0], items[Parent(j)])
    <3>1. Parent(j) \in Nat /\ Parent(j) < size
      BY <1>1, <2>3
    <3>2. Parent(j) \notin T
      BY <2>1, <2>3, Zenon
    <3> QED BY <3>1, <3>2
  <2>5. Ge(items[Parent(j)], items[j])
    BY <2>2 DEF Order, Edge
  <2>6. Ge(items[0], items[j])
    BY <1>1, <2>2, <2>3, <2>4, <2>5, GeTransitive
  <2> QED BY <2>6
<1>3. ASSUME NEW u \in Contents PROVE Ge(items[0], u)
  <2>1. PICK j \in 0 .. size - 1 : u = items[j]
    BY DEF Contents
  <2> QED BY <1>1, <1>2, <2>1
<1> QED BY <1>3 DEF IsTop, Ge

(* What queue_pop returns is the root, and what it removes is the root. *)
LEMMA PopContents ==
  ASSUME HeapInv, queue_pop
  PROVE  /\ data' = items[0] /\ items[0] \in Contents
         /\ Contents' = Contents \ {items[0]}
<1> USE DEF HeapInv
<1>1. /\ size \in 1 .. MaxSize /\ size' = size - 1 /\ data' = items[0]
      /\ items'[0] = items[size - 1]
      /\ \A i \in 1 .. size' - 1 : items'[i] = items[i]
  BY SizesAssumption DEF queue_pop, TypeOK
<1>2. items[0] \in Contents
  BY <1>1 DEF Contents
<1>3. ASSUME NEW x \in Contents' PROVE x \in Contents \ {items[0]}
  <2>1. PICK i \in 0 .. size' - 1 : x = items'[i]
    BY DEF Contents
  <2>2. PICK j \in 1 .. size - 1 : x = items[j]
    BY <1>1, <2>1
  <2>3. x # items[0]
    BY <1>1, <2>2
  <2> QED BY <1>1, <2>2, <2>3 DEF Contents
<1>4. ASSUME NEW x \in Contents \ {items[0]} PROVE x \in Contents'
  <2>1. PICK j \in 0 .. size - 1 : x = items[j]
    BY DEF Contents
  <2>2. j # 0
    BY <1>4, <2>1
  <2>3. \E i \in 0 .. size' - 1 : x = items'[i]
    <3>1. CASE j = size - 1
      BY <1>1, <2>1, <2>2, <3>1
    <3>2. CASE j # size - 1
      BY <1>1, <2>1, <2>2, <3>2
    <3> QED BY <3>1, <3>2
  <2> QED BY <2>3 DEF Contents
<1> QED BY <1>1, <1>2, <1>3, <1>4

LEMMA PushContents ==
  ASSUME HeapInv, NEW t \in Tasks, queue_push(t)
  PROVE  Contents' = Contents \cup {t}
<1> USE DEF HeapInv
<1>1. /\ size \in Nat /\ size' = size + 1 /\ items'[size] = t
      /\ \A i \in 0 .. size - 1 : items'[i] = items[i]
  BY SizesAssumption DEF queue_push, TypeOK
<1>2. ASSUME NEW x \in Contents' PROVE x \in Contents \cup {t}
  <2>1. PICK i \in 0 .. size' - 1 : x = items'[i]
    BY DEF Contents
  <2>2. i = size \/ i \in 0 .. size - 1
    BY <1>1
  <2> QED BY <1>1, <2>1, <2>2 DEF Contents
<1>3. ASSUME NEW x \in Contents \cup {t} PROVE x \in Contents'
  <2>1. CASE x = t
    <3>1. size \in 0 .. size' - 1
      BY <1>1
    <3> QED BY <1>1, <2>1, <3>1, Zenon DEF Contents
  <2>2. CASE x \in Contents
    <3>1. PICK j \in 0 .. size - 1 : x = items[j]
      BY <2>2 DEF Contents
    <3>2. j \in 0 .. size' - 1 /\ x = items'[j]
      BY <1>1, <3>1
    <3> QED BY <3>2, Zenon DEF Contents
  <2> QED BY <2>1, <2>2
<1> QED BY <1>2, <1>3

(* Exchanging two elements neither loses nor duplicates one. *)
LEMMA SwapContents ==
  ASSUME HeapInv, NEW i \in 0 .. size - 1, NEW j \in 0 .. size - 1,
         items' = Swapped(i, j), size' = size
  PROVE  Contents' = Contents
<1> USE DEF HeapInv
<1>1. /\ items'[i] = items[j] /\ items'[j] = items[i]
      /\ \A k \in 0 .. size - 1 : k # i /\ k # j => items'[k] = items[k]
  BY SizesAssumption DEF Swapped, TypeOK
<1>2. ASSUME NEW x \in Contents' PROVE x \in Contents
  <2>1. PICK k \in 0 .. size - 1 : x = items'[k]
    BY DEF Contents
  <2> QED BY <1>1, <2>1 DEF Contents
<1>3. ASSUME NEW x \in Contents PROVE x \in Contents'
  <2>1. PICK k \in 0 .. size - 1 : x = items[k]
    BY DEF Contents
  <2>2. \E m \in 0 .. size - 1 : x = items'[m]
    BY <1>1, <2>1
  <2> QED BY <2>2 DEF Contents
<1> QED BY <1>2, <1>3

(* The iterations of both loops leave the queue's contents alone. *)
LEMMA HeapifyContents ==
  ASSUME HeapInv, heapify_up \/ heapify_down
  PROVE  Contents' = Contents /\ closed' = closed /\ size' = size
<1> USE DEF HeapInv
<1>1. size' = size /\ closed' = closed
  BY DEF heapify_up, heapify_down
<1>2. CASE items' = items
  BY <1>1, <1>2 DEF Contents
<1>3. CASE heapify_up /\ items' # items
  <2>1. index > 0 /\ items' = Swapped(Parent(index), index)
    BY <1>3 DEF heapify_up
  <2>2. index \in 0 .. size - 1 /\ Parent(index) \in 0 .. size - 1
    BY <1>3, <2>1, ParentFacts, SizesAssumption DEF heapify_up, TypeOK
  <2> QED BY <1>1, <2>1, <2>2, SwapContents
<1>4. CASE heapify_down /\ items' # items
  <2>1. pc = "down" /\ items' = Swapped(index, Largest)
    BY <1>4 DEF heapify_down
  <2>2. index \in 0 .. size - 1 /\ size \in Nat
    BY <2>1, SizesAssumption DEF TypeOK
  <2>3. Left(index) \in Nat /\ Right(index) \in Nat
    BY <2>2, ChildFacts
  <2>4. Largest \in 0 .. size - 1
    BY <2>2, <2>3 DEF Largest
  <2> QED BY <1>1, <2>1, <2>2, <2>4, SwapContents
<1> QED BY <1>2, <1>3, <1>4

(* queue_pop returns a task that no queued task outranks, and removes it    *)
(* and nothing else, whatever was pushed and popped before.                *)
THEOREM PopIsTop == Spec => PopReturnsTop
<1>1. ASSUME HeapInv, [Next]_vars, size' < size
      PROVE  IsTop(data', Contents) /\ Contents' = Contents \ {data'}
  <2>1. size \in Nat
    BY <1>1, SizesAssumption DEF HeapInv, TypeOK
  <2>2. queue_pop
    <3>1. ASSUME NEW t \in Tasks, queue_push(t) PROVE FALSE
      BY <1>1, <2>1, <3>1 DEF queue_push
    <3>2. CASE heapify_up \/ heapify_down \/ queue_close \/ UNCHANGED vars
      <4>1. size' = size
        BY <3>2 DEF heapify_up, heapify_down, queue_close, vars
      <4> QED BY <1>1, <2>1, <4>1
    <3> QED BY <1>1, <3>1, <3>2 DEF Next
  <2>3. IsTop(items[0], Contents)
    BY <1>1, <2>2, RootIsTop DEF queue_pop
  <2> QED BY <1>1, <2>2, <2>3, PopContents
<1>2. HeapInv /\ [Next]_vars =>
        [size' < size => IsTop(data', Contents) /\ Contents' = Contents \ {data'}]_vars
  BY <1>1
<1> QED BY <1>2, HeapInvariant, PTL DEF Spec, PopReturnsTop

(* Every step of the heap is a step of the abstract queue or leaves it      *)
(* unchanged: queue_push adds the task it was given, queue_pop removes a   *)
(* top task, and the loops in between change nothing a caller can see.     *)
THEOREM Refinement == Spec => ImplementsPriorityQueue
<1>1. Init => PQ!Init
  BY DEF Init, PQ!Init, Contents
<1>2. ASSUME HeapInv, [Next]_vars PROVE [PQ!Next]_(PQ!vars)
  <2>1. ASSUME NEW t \in Tasks, queue_push(t) PROVE PQ!Next
    <3>1. PQ!Push(t)
      BY <1>2, <2>1, PushContents DEF PQ!Push, queue_push
    <3> QED BY <3>1 DEF PQ!Next
  <2>2. CASE heapify_up \/ heapify_down
    BY <1>2, <2>2, HeapifyContents DEF PQ!vars
  <2>3. CASE queue_pop
    <3>1. IsTop(items[0], Contents) /\ items[0] \in Tasks
      BY <1>2, <2>3, RootIsTop, SizesAssumption DEF queue_pop, HeapInv, TypeOK
    <3>2. PQ!Pop(items[0])
      <4>1. UNCHANGED closed
        BY <2>3 DEF queue_pop
      <4> QED BY <1>2, <2>3, <3>1, <4>1, PopContents DEF PQ!Pop, PQ!IsTop, IsTop,
                PQ!task_compare_priority, task_compare_priority, PQ!Sign, Sign
    <3> QED BY <3>1, <3>2 DEF PQ!Next
  <2>4. CASE queue_close
    BY <2>4 DEF queue_close, PQ!Next, PQ!Close, Contents
  <2>5. CASE UNCHANGED vars
    BY <2>5 DEF vars, PQ!vars, Contents
  <2> QED BY <1>2, <2>1, <2>2, <2>3, <2>4, <2>5 DEF Next
<1> QED BY <1>1, <1>2, HeapInvariant, PTL DEF Spec, ImplementsPriorityQueue, PQ!Spec
=============================================================================
