-------------------------- MODULE TaskQueueProofs --------------------------
(***************************************************************************)
(* Proofs about the monitor of queue.c, for any finite sets of consumers   *)
(* and tasks.                                                              *)
(***************************************************************************)
EXTENDS TaskQueue, FiniteSetTheorems, TLAPS

(* The conjunction is inductive as it stands. *)
Inv == TypeOK /\ NoLostWakeup /\ EachTaskOnce /\ DrainedAtEnd

LEMMA InPcFinite == \A l : IsFiniteSet(InPc(l)) /\ InPc(l) \subseteq Consumers
<1> SUFFICES ASSUME NEW l PROVE IsFiniteSet(InPc(l)) /\ InPc(l) \subseteq Consumers
  OBVIOUS
<1>1. InPc(l) \subseteq Consumers
  BY DEF InPc
<1> QED BY <1>1, ConsumersAssumption, FS_Subset

LEMMA InitInv == Init => Inv
<1> SUFFICES ASSUME Init PROVE Inv
  OBVIOUS
<1>1. TypeOK
  BY DEF Init, TypeOK
<1>2. NoLostWakeup
  BY DEF Init, NoLostWakeup, Waiting, InPc
<1>3. EachTaskOnce
  <2>1. UNION {taken[c] : c \in Consumers} = {}
    BY DEF Init
  <2> QED BY <2>1 DEF Init, EachTaskOnce
<1>4. DrainedAtEnd
  BY DEF Init, DrainedAtEnd, InPc
<1> QED BY <1>1, <1>2, <1>3, <1>4 DEF Inv

(* Signal wakes one waiting consumer, if there is one. *)
LEMMA SignalFacts ==
  ASSUME TypeOK, Signal
  PROVE  /\ pc' \in [Consumers -> {"calling", "waiting", "woken", "busy", "done"}]
         /\ InPc("done")' = InPc("done")
         /\ Waiting = {} => Waiting' = {}
         /\ Waiting # {} => \E c \in Consumers : c \notin Woken /\ Woken' = Woken \cup {c}
<1>1. CASE Waiting = {}
  BY <1>1 DEF Signal, TypeOK, Waiting, InPc
<1>2. CASE Waiting # {}
  <2>1. PICK c \in Waiting : pc' = [pc EXCEPT ![c] = "woken"]
    BY <1>2 DEF Signal
  <2>2. c \in Consumers /\ pc[c] = "waiting"
    BY DEF Waiting, InPc
  <2>3. pc' \in [Consumers -> {"calling", "waiting", "woken", "busy", "done"}]
    BY <2>1, <2>2 DEF TypeOK
  <2>4. \A d \in Consumers : pc'[d] = IF d = c THEN "woken" ELSE pc[d]
    BY <2>1, <2>2 DEF TypeOK
  <2>5. InPc("done")' = InPc("done")
    BY <2>2, <2>4 DEF InPc
  <2>6. c \notin Woken /\ Woken' = Woken \cup {c}
    BY <2>2, <2>4 DEF Woken, InPc
  <2> QED BY <1>2, <2>2, <2>3, <2>5, <2>6
<1> QED BY <1>1, <1>2

LEMMA PushInv ==
  ASSUME Inv, NEW t \in Tasks, queue_push(t)
  PROVE  Inv'
<1> USE DEF Inv
<1>1. CASE closed
  <2>1. /\ UNCHANGED <<items, closed, pc, pushed, taken>>
        /\ refused' = refused \cup {t}
    BY <1>1 DEF queue_push
  <2>2. TypeOK'
    BY <2>1 DEF TypeOK
  <2> QED BY <2>1, <2>2 DEF NoLostWakeup, EachTaskOnce, DrainedAtEnd, Waiting, Woken, InPc
<1>2. CASE ~closed
  <2>1. /\ items' = items \cup {t} /\ pushed' = pushed \cup {t} /\ Signal
        /\ UNCHANGED <<refused, closed, taken>> /\ t \notin pushed
    BY <1>2 DEF queue_push
  <2>2. TypeOK'
    BY <2>1, SignalFacts DEF TypeOK
  <2>3. EachTaskOnce'
    BY <2>1 DEF EachTaskOnce
  <2>4. DrainedAtEnd'
    BY <1>2, <2>1, SignalFacts DEF DrainedAtEnd
  <2>5. NoLostWakeup'
    <3>1. CASE Waiting = {}
      BY <1>2, <2>1, <3>1, SignalFacts DEF NoLostWakeup
    <3>2. CASE Waiting # {}
      <4>1. PICK c \in Consumers : c \notin Woken /\ Woken' = Woken \cup {c}
        BY <2>1, <3>2, SignalFacts
      <4>2. IsFiniteSet(Woken) /\ IsFiniteSet(items)
        BY InPcFinite, ConsumersAssumption, FS_Subset DEF Woken, TypeOK
      <4>3. Cardinality(Woken') = Cardinality(Woken) + 1 /\ Cardinality(Woken) \in Nat
        BY <4>1, <4>2, FS_AddElement, FS_CardinalityType
      <4>4. t \notin items
        BY <2>1 DEF EachTaskOnce
      <4>5. Cardinality(items') = Cardinality(items) + 1 /\ Cardinality(items) \in Nat
        BY <2>1, <4>2, <4>4, FS_AddElement, FS_CardinalityType
      <4> QED BY <1>2, <2>1, <3>2, <4>3, <4>5 DEF NoLostWakeup
    <3> QED BY <3>1, <3>2
  <2> QED BY <2>2, <2>3, <2>4, <2>5
<1> QED BY <1>1, <1>2

(* A consumer's step from "calling", "woken" or "busy" wakes nobody. *)
LEMMA StepFacts ==
  ASSUME TypeOK, NEW c \in Consumers, NEW l \in {"calling", "waiting", "busy", "done"},
         pc[c] \in {"calling", "woken", "busy"}, pc' = [pc EXCEPT ![c] = l]
  PROVE  /\ pc' \in [Consumers -> {"calling", "waiting", "woken", "busy", "done"}]
         /\ Woken' = Woken \ {c}
         /\ Waiting' = IF l = "waiting" THEN Waiting \cup {c} ELSE Waiting
         /\ InPc("done")' = IF l = "done" THEN InPc("done") \cup {c} ELSE InPc("done")
<1>1. pc' \in [Consumers -> {"calling", "waiting", "woken", "busy", "done"}]
  BY DEF TypeOK
<1>2. \A d \in Consumers : pc'[d] = IF d = c THEN l ELSE pc[d]
  BY DEF TypeOK
<1>3. Woken' = Woken \ {c}
  BY <1>2 DEF Woken, InPc
<1>4. Waiting' = IF l = "waiting" THEN Waiting \cup {c} ELSE Waiting
  BY <1>2 DEF Waiting, InPc
<1>5. InPc("done")' = IF l = "done" THEN InPc("done") \cup {c} ELSE InPc("done")
  BY <1>2 DEF InPc
<1> QED BY <1>1, <1>3, <1>4, <1>5

LEMMA PopInv ==
  ASSUME Inv, NEW c \in Consumers, queue_pop(c)
  PROVE  Inv'
<1> USE DEF Inv
<1>0. pc[c] \in {"calling", "woken", "busy"} /\ UNCHANGED <<closed, pushed, refused>>
  BY DEF queue_pop
<1>1. CASE Wait(c)
  <2>1. /\ items = {} /\ ~closed /\ pc' = [pc EXCEPT ![c] = "waiting"]
        /\ UNCHANGED <<items, taken>>
    BY <1>1 DEF Wait
  <2>2. TypeOK'
    BY <1>0, <2>1, StepFacts DEF TypeOK
  <2>3. Cardinality(items') = 0 /\ Cardinality(Woken') \in Nat
    <3>1. Woken' = Woken \ {c}
      BY <1>0, <2>1, StepFacts
    <3>2. IsFiniteSet(Woken)
      BY InPcFinite DEF Woken
    <3>3. IsFiniteSet(Woken')
      BY <3>1, <3>2, FS_Subset
    <3> QED BY <2>1, <3>3, FS_EmptySet, FS_CardinalityType
  <2>4. NoLostWakeup'
    BY <1>0, <2>1, <2>3 DEF NoLostWakeup
  <2>5. EachTaskOnce'
    BY <1>0, <2>1 DEF EachTaskOnce
  <2>6. DrainedAtEnd'
    BY <2>1, <1>0, StepFacts DEF DrainedAtEnd
  <2> QED BY <2>2, <2>4, <2>5, <2>6
<1>2. CASE ReturnNull(c)
  <2>1. /\ items = {} /\ closed /\ pc' = [pc EXCEPT ![c] = "done"]
        /\ UNCHANGED <<items, taken>>
    BY <1>2 DEF ReturnNull
  <2>2. TypeOK'
    BY <1>0, <2>1, StepFacts DEF TypeOK
  <2>3. NoLostWakeup'
    BY <1>0, <2>1, StepFacts DEF NoLostWakeup
  <2>4. EachTaskOnce' /\ DrainedAtEnd'
    BY <1>0, <2>1 DEF EachTaskOnce, DrainedAtEnd
  <2> QED BY <2>2, <2>3, <2>4
<1>3. CASE ReturnTask(c)
  <2>1. PICK t \in items : /\ items' = items \ {t}
                           /\ taken' = [taken EXCEPT ![c] = @ \cup {t}]
    BY <1>3 DEF ReturnTask
  <2>2. pc' = [pc EXCEPT ![c] = "busy"]
    BY <1>3 DEF ReturnTask
  <2>3. TypeOK'
    BY <1>0, <2>1, <2>2, StepFacts DEF TypeOK
  <2>4. Woken' = Woken \ {c} /\ Waiting' = Waiting /\ InPc("done")' = InPc("done")
    BY <1>0, <2>2, StepFacts
  <2>5. NoLostWakeup'
    <3>1. IsFiniteSet(Woken) /\ IsFiniteSet(items)
      BY InPcFinite, ConsumersAssumption, FS_Subset DEF Woken, TypeOK
    <3>2. /\ Cardinality(items') = Cardinality(items) - 1
          /\ Cardinality(items) \in Nat
      BY <2>1, <3>1, FS_RemoveElement, FS_CardinalityType
    <3>3. /\ Cardinality(Woken) \in Nat
          /\ Cardinality(Woken') \in {Cardinality(Woken), Cardinality(Woken) - 1}
      BY <2>4, <3>1, FS_RemoveElement, FS_CardinalityType
    <3> QED BY <1>0, <2>4, <3>2, <3>3 DEF NoLostWakeup
  <2>6. EachTaskOnce'
    <3>1. \A d \in Consumers : taken'[d] = IF d = c THEN taken[c] \cup {t} ELSE taken[d]
      BY <2>1 DEF TypeOK
    <3>2. UNION {taken'[d] : d \in Consumers} = {t} \cup UNION {taken[d] : d \in Consumers}
      BY <3>1
    <3>3. pushed' = items' \cup UNION {taken'[d] : d \in Consumers}
      BY <1>0, <2>1, <3>2 DEF EachTaskOnce
    <3>4. \A d \in Consumers : taken'[d] \cap items' = {}
      BY <2>1, <3>1 DEF EachTaskOnce
    <3>5. \A d, e \in Consumers : d # e => taken'[d] \cap taken'[e] = {}
      BY <3>1 DEF EachTaskOnce
    <3> QED BY <3>3, <3>4, <3>5 DEF EachTaskOnce
  <2>7. DrainedAtEnd'
    BY <1>0, <2>1, <2>4 DEF DrainedAtEnd
  <2> QED BY <2>3, <2>5, <2>6, <2>7
<1> QED BY <1>1, <1>2, <1>3 DEF queue_pop

LEMMA OtherInv ==
  ASSUME Inv,
         \/ \E c \in Consumers : Work(c) \/ SpuriousWakeup(c)
         \/ queue_close
         \/ UNCHANGED vars
  PROVE  Inv'
<1> USE DEF Inv
<1>1. ASSUME NEW c \in Consumers, Work(c) PROVE Inv'
  <2>1. /\ pc[c] = "busy" /\ pc' = [pc EXCEPT ![c] = "calling"]
        /\ UNCHANGED <<items, closed, refused>>
        /\ pushed' = pushed \ taken[c] /\ taken' = [taken EXCEPT ![c] = {}]
    BY <1>1 DEF Work
  <2>2. \A d \in Consumers : taken'[d] = IF d = c THEN {} ELSE taken[d]
    BY <2>1 DEF TypeOK
  <2>3. TypeOK'
    BY <2>1, StepFacts DEF TypeOK, EachTaskOnce
  <2>4. Woken' = Woken \ {c} /\ Waiting' = Waiting /\ InPc("done")' = InPc("done")
    BY <2>1, StepFacts
  <2>5. c \notin Woken
    BY <2>1 DEF Woken, InPc
  <2>6. Woken' = Woken
    BY <2>4, <2>5
  <2>7. EachTaskOnce'
    <3>1. UNION {taken'[d] : d \in Consumers} = (UNION {taken[d] : d \in Consumers}) \ taken[c]
      BY <2>2 DEF EachTaskOnce
    <3>2. pushed' = items' \cup UNION {taken'[d] : d \in Consumers}
      BY <2>1, <3>1 DEF EachTaskOnce
    <3>3. /\ \A d \in Consumers : taken'[d] \cap items' = {}
          /\ \A d, e \in Consumers : d # e => taken'[d] \cap taken'[e] = {}
      BY <2>1, <2>2 DEF EachTaskOnce
    <3> QED BY <3>2, <3>3 DEF EachTaskOnce
  <2> QED BY <2>1, <2>3, <2>4, <2>6, <2>7 DEF NoLostWakeup, DrainedAtEnd
<1>2. ASSUME NEW c \in Consumers, SpuriousWakeup(c) PROVE Inv'
  <2>1. /\ pc[c] = "waiting" /\ pc' = [pc EXCEPT ![c] = "woken"]
        /\ UNCHANGED <<items, closed, pushed, refused, taken>>
    BY <1>2 DEF SpuriousWakeup
  <2>2. \A d \in Consumers : pc'[d] = IF d = c THEN "woken" ELSE pc[d]
    BY <2>1 DEF TypeOK
  <2>3. TypeOK'
    BY <2>1 DEF TypeOK
  <2>4. /\ Woken' = Woken \cup {c} /\ c \notin Woken
        /\ Waiting' \subseteq Waiting /\ c \in Waiting
        /\ InPc("done")' = InPc("done")
    BY <2>1, <2>2 DEF Woken, Waiting, InPc
  <2>5. /\ Cardinality(Woken') = Cardinality(Woken) + 1 /\ Cardinality(Woken) \in Nat
        /\ Cardinality(items) \in Nat
    <3>1. IsFiniteSet(Woken) /\ IsFiniteSet(items)
      BY InPcFinite, ConsumersAssumption, FS_Subset DEF Woken, TypeOK
    <3> QED BY <2>4, <3>1, FS_AddElement, FS_CardinalityType
  <2> QED BY <2>1, <2>3, <2>4, <2>5 DEF NoLostWakeup, EachTaskOnce, DrainedAtEnd
<1>3. CASE queue_close
  <2>1. /\ ~closed /\ closed' = TRUE /\ UNCHANGED <<items, pushed, refused, taken>>
        /\ pc' = [c \in Consumers |-> IF pc[c] = "waiting" THEN "woken" ELSE pc[c]]
    BY <1>3 DEF queue_close, Broadcast
  <2>2. TypeOK'
    BY <2>1 DEF TypeOK
  <2>3. Waiting' = {} /\ InPc("done")' = InPc("done")
    BY <2>1 DEF Waiting, InPc, TypeOK
  <2> QED BY <2>1, <2>2, <2>3 DEF NoLostWakeup, EachTaskOnce, DrainedAtEnd
<1>4. CASE UNCHANGED vars
  BY <1>4 DEF vars, TypeOK, NoLostWakeup, EachTaskOnce, DrainedAtEnd, Waiting, Woken, InPc
<1> QED BY <1>1, <1>2, <1>3, <1>4

LEMMA NextInv == Inv /\ [Next]_vars => Inv'
BY PushInv, PopInv, OtherInv, Zenon DEF Next

LEMMA Invariance == Spec => []Inv
BY InitInv, NextInv, PTL DEF Spec

(* Type correctness of the monitor of queue.c. *)
THEOREM TypeCorrect == Spec => []TypeOK
<1>1. Inv => TypeOK
  BY DEF Inv
<1> QED BY <1>1, Invariance, PTL

(* No wakeup of queue_pop is lost, for any number of threads: one signal    *)
(* per queue_push and one broadcast in queue_close are enough.             *)
THEOREM WakeupsSuffice == Spec => []NoLostWakeup
<1>1. Inv => NoLostWakeup
  BY DEF Inv
<1> QED BY <1>1, Invariance, PTL

(* No task that queue_push accepted is lost or received twice. *)
THEOREM TasksReceivedOnce == Spec => []EachTaskOnce
<1>1. Inv => EachTaskOnce
  BY DEF Inv
<1> QED BY <1>1, Invariance, PTL

(* queue_pop returns NULL only from a closed and drained queue. *)
THEOREM Drained == Spec => []DrainedAtEnd
<1>1. Inv => DrainedAtEnd
  BY DEF Inv
<1> QED BY <1>1, Invariance, PTL
=============================================================================
